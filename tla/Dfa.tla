--------------------------------- MODULE Dfa ---------------------------------
(***************************************************************************)
(* grouped_DFA_by_uwrapped_regexp: the automaton of an expression is made  *)
(* deterministic, minimized, and its jumps are grouped by categories.      *)
(*                                                                         *)
(* One step is one turn of a loop: an unmarked set of states is processed, *)
(* the partition of the states is split once more.  States are numbered    *)
(* from 0, as in the code; the set of states number k is sets[k + 1].      *)
(* A jump is an Edge; no two jumps leave one state by one character.       *)
(***************************************************************************)
EXTENDS Ndfa

VARIABLES stage,    \* which of the calls is under way
          cmds,     \* the expression the automaton is built of
          optimize, \* the flag of grouped_DFA_by_uwrapped_regexp
          ndfa,     \* the nondeterministic automaton
          sets,     \* sets_of_ndfa_states with states_nums: sets, as numbered
          unmarked, \* unmarked_states_of_dfa, a stack
          jumps,    \* the jumps of the deterministic automaton
          old_partition, new_partition,
          mdfa,     \* the minimized automaton
          gdfa      \* the jumps of the grouped automaton, by state and category

dfaVars == <<stage, cmds, optimize, ndfa, sets, unmarked, jumps,
             old_partition, new_partition, mdfa, gdfa>>

-----------------------------------------------------------------------------
(* The subset construction.                                                *)

By(js, S, gc) == {e \in js : e.from \in S /\ e.gc = gc}

(* Mutant: the states one epsilon away are enough.                         *)
epsilon_closure_once(a, s) == s \cup {e.to : e \in By(a.edges, s, Epsilon)}

(* Every turn but the last finds a state more.                             *)
epsilon_closure(a, s) ==
  LET close[k \in 0 .. a.final_state] ==
        IF k = 0 THEN s
        ELSE LET S == close[k - 1]
             IN S \cup {e.to : e \in By(a.edges, S, Epsilon)}
  IN close[a.final_state]

(* move                                                                    *)
Moved(a, S, gc) == {e.to : e \in By(a.edges, S, gc)}

jump_chars_set(js, S) == {e.gc : e \in {f \in js : f.from \in S}} \ {Epsilon}

(* Mutant: the action of the last state is taken, none if it has none.     *)
action_for_jump_last(js, S, gc) ==
  LET from == {e \in js : e.from \in S}
  IN IF from = {} THEN 0
     ELSE (CHOOSE e \in from : \A f \in from : e.from >= f.from).act

(* The action of the first of the states that has one for this jump; also  *)
(* action_for_group.                                                       *)
action_for_jump(js, S, gc) ==
  LET acting == {e \in By(js, S, gc) : e.act # 0}
  IN IF acting = {} THEN 0
     ELSE (CHOOSE e \in acting : \A f \in acting : e.from <= f.from).act

NumberOf(S, ss) == (CHOOSE k \in DOMAIN ss : ss[k] = S) - 1

(* Mutant: the set is looked for at the end of the list only.              *)
AddJump_last(acc, a, t, gc) ==
  LET u   == epsilon_closure(a, Moved(a, acc.sets[t + 1], gc))
      new == Last(acc.sets) # u
      ss  == IF new THEN Append(acc.sets, u) ELSE acc.sets
  IN [sets     |-> ss,
      unmarked |-> IF new THEN Append(acc.unmarked, Len(ss) - 1)
                          ELSE acc.unmarked,
      jumps    |-> acc.jumps
                     \cup {Edge(t, gc, action_for_jump(a.edges,
                                                       acc.sets[t + 1], gc),
                                Len(ss) - 1)}]

(* The jump of the state t by gc; the set it leads to may be a new state.  *)
AddJump(acc, a, t, gc) ==
  LET u   == epsilon_closure(a, Moved(a, acc.sets[t + 1], gc))
      new == \A k \in DOMAIN acc.sets : acc.sets[k] # u
      ss  == IF new THEN Append(acc.sets, u) ELSE acc.sets
  IN [sets     |-> ss,
      unmarked |-> IF new THEN Append(acc.unmarked, Len(ss) - 1)
                          ELSE acc.unmarked,
      jumps    |-> acc.jumps
                     \cup {Edge(t, gc, action_for_jump(a.edges,
                                                       acc.sets[t + 1], gc),
                                NumberOf(u, ss))}]

(* The states whose sets hold the last state of a.                         *)
FinalStates(a, ss) == {k \in 0 .. Len(ss) - 1 : a.final_state \in ss[k + 1]}

-----------------------------------------------------------------------------
(* The minimization.  A partition is a sequence of groups; the group of a  *)
(* state is numbered from 1, and 0 stands for the lack of a jump.          *)

build_initial_partition(n, finals) ==
  LET others == (0 .. n - 1) \ finals
  IN IF others = {} THEN <<finals>> ELSE <<finals, others>>

GroupOf(partition, st) == CHOOSE k \in DOMAIN partition : st \in partition[k]

(* group_states_classificate: the group a state goes to by gc.             *)
ClassOf(partition, js, st, gc) ==
  IF By(js, {st}, gc) = {} THEN 0
  ELSE GroupOf(partition, (CHOOSE e \in By(js, {st}, gc) : TRUE).to)

split_group_by_gc(partition, js, group, gc) ==
  LET class   == [st \in group |-> ClassOf(partition, js, st, gc)]
      classes == InOrder({class[st] : st \in group})
  IN [k \in DOMAIN classes |-> {st \in group : class[st] = classes[k]}]

split_group_partition_by_gc(partition, js, groups, gc) ==
  FlattenSeq([k \in DOMAIN groups |->
                split_group_by_gc(partition, js, groups[k], gc)])

split_group(partition, js, group) ==
  LET gcs == InOrder(jump_chars_set(js, group))
      split[k \in 0 .. Len(gcs)] ==
        IF k = 0 THEN <<group>>
        ELSE split_group_partition_by_gc(partition, js, split[k - 1], gcs[k])
  IN split[Len(gcs)]

(* Mutant: the parts of a group are put before those of the groups before. *)
split_partition_front(old, js) ==
  FlattenSeq([k \in DOMAIN old |-> split_group(old, js, Reverse(old)[k])])

(* Mutant: a group of two states is left as it is.                         *)
split_partition_coarse(old, js) ==
  FlattenSeq([k \in DOMAIN old |-> IF Cardinality(old[k]) = 2 THEN <<old[k]>>
                                   ELSE split_group(old, js, old[k])])

split_partition(old, js) ==
  FlattenSeq([k \in DOMAIN old |-> split_group(old, js, old[k])])

(* minimal_DFA_jumps: the jumps of a group are those of its first state,   *)
(* with the action of the first of its states that has one.                *)
minimal_DFA_jumps(partition, js) ==
  UNION {LET g    == partition[k]
             from == CHOOSE s \in g : \A r \in g : s <= r
         IN {Edge(k - 1, e.gc, action_for_jump(js, g, e.gc),
                  GroupOf(partition, e.to) - 1) :
               e \in {f \in js : f.from = from}} :
         k \in DOMAIN partition}

(* reordered_DFA: the state the automaton begins in becomes the first.     *)
Reordered(n, begin, finals, js) ==
  LET p[s \in 0 .. n - 1] ==
        CASE s = begin -> 0
          [] s < begin -> s + 1
          [] OTHER     -> s
  IN [n |-> n, final_states |-> {p[s] : s \in finals},
      jumps |-> {Edge(p[e.from], e.gc, e.act, p[e.to]) : e \in js}]

minimize_DFA(partition, finals, js) ==
  Reordered(Len(partition), GroupOf(partition, 0) - 1,
            {k - 1 : k \in {i \in DOMAIN partition :
                              partition[i] \cap finals # {}}},
            minimal_DFA_jumps(partition, js))

-----------------------------------------------------------------------------
(* fuse_DFA_jumps: the characters by which a state goes to one state with  *)
(* one action become one category, and the jumps are kept by category: of  *)
(* two with the same category the later stays.                             *)

SumOf(gcs) ==
  LET sum[k \in 0 .. Cardinality(gcs)] ==
        IF k = 0 THEN Set_of_cs({})
        ELSE Plus(sum[k - 1], gc2category(InOrder(gcs)[k]))
  IN sum[Cardinality(gcs)]

fuse_state_jumps(js) ==
  LET Cat(t) == SumOf({e.gc : e \in {f \in js : f.to = t.st /\ f.act = t.act}})
      targets == {[st |-> e.to, act |-> e.act] : e \in js}
      Later(t, u) == t.st > u.st \/ (t.st = u.st /\ t.act >= u.act)
  IN [c \in {Cat(t) : t \in targets} |->
        CHOOSE t \in targets :
          Cat(t) = c /\ \A u \in targets : Cat(u) = c => Later(t, u)]

fuse_DFA_jumps(min) ==
  [s \in 0 .. min.n - 1 |->
     fuse_state_jumps({e \in min.jumps : e.from = s})]

-----------------------------------------------------------------------------
(* grouped_DFA_by_uwrapped_regexp, from its call on: the buffer is         *)
(* optimized if that is asked for, and the automaton built of it.          *)
NoAutomaton == Automaton(0, 0, {})
NoMinimal   == [n |-> 0, final_states |-> {}, jumps |-> {}]

DfaInit ==
  /\ cmds = <<>> /\ optimize = FALSE /\ ndfa = NoAutomaton
  /\ sets = <<>> /\ unmarked = <<>> /\ jumps = {}
  /\ old_partition = <<>> /\ new_partition = <<>>
  /\ mdfa = NoMinimal /\ gdfa = <<>>

build_automaton(buf, opt) ==
  /\ cmds' = buf
  /\ optimize' = opt
  /\ ndfa' = build_NDFA(IF opt THEN fuse_unwrapped_commands(buf) ELSE buf)
  /\ sets' = <<epsilon_closure(ndfa', {ndfa'.begin_state})>>
  /\ unmarked' = <<0>>
  /\ stage' = "subset"
  /\ UNCHANGED <<jumps, old_partition, new_partition, mdfa, gdfa>>

(* convert_NDFA_to_DFA: the last unmarked state gets all its jumps.        *)
convert_NDFA_to_DFA ==
  /\ stage = "subset"
  /\ unmarked # <<>>
  /\ LET t   == Last(unmarked)
         gcs == InOrder(jump_chars_set(ndfa.edges, sets[t + 1]))
         turn[k \in 0 .. Len(gcs)] ==
           IF k = 0
           THEN [sets |-> sets, unmarked |-> Front(unmarked), jumps |-> jumps]
           ELSE AddJump(turn[k - 1], ndfa, t, gcs[k])
         acc == turn[Len(gcs)]
     IN sets' = acc.sets /\ unmarked' = acc.unmarked /\ jumps' = acc.jumps
  /\ UNCHANGED <<stage, cmds, optimize, ndfa, old_partition, new_partition,
                 mdfa, gdfa>>

begin_minimization ==
  /\ stage = "subset"
  /\ unmarked = <<>>
  /\ new_partition' = build_initial_partition(Len(sets),
                                              FinalStates(ndfa, sets))
  /\ stage' = "refine"
  /\ UNCHANGED <<cmds, optimize, ndfa, sets, unmarked, jumps, old_partition,
                 mdfa, gdfa>>

split_states_into_equivalence_classes ==
  /\ stage = "refine"
  /\ old_partition # new_partition
  /\ old_partition' = new_partition
  /\ new_partition' = split_partition(new_partition, jumps)
  /\ UNCHANGED <<stage, cmds, optimize, ndfa, sets, unmarked, jumps,
                 mdfa, gdfa>>

end_minimization ==
  /\ stage = "refine"
  /\ old_partition = new_partition
  /\ mdfa' = minimize_DFA(new_partition, FinalStates(ndfa, sets), jumps)
  /\ stage' = "minimal"
  /\ UNCHANGED <<cmds, optimize, ndfa, sets, unmarked, jumps, old_partition,
                 new_partition, gdfa>>

group_jumps ==
  /\ stage = "minimal"
  /\ gdfa' = fuse_DFA_jumps(mdfa)
  /\ stage' = "done"
  /\ UNCHANGED <<cmds, optimize, ndfa, sets, unmarked, jumps, old_partition,
                 new_partition, mdfa>>

DfaNext ==
  \/ convert_NDFA_to_DFA
  \/ begin_minimization
  \/ split_states_into_equivalence_classes
  \/ end_minimization
  \/ group_jumps
=============================================================================
