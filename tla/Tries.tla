-------------------------------- MODULE Tries --------------------------------
(***************************************************************************)
(* Trie, the prefix tree in which strings, sets of characters and the      *)
(* delimiters with their codes are kept: node_buffer is a function on the  *)
(* indices of the nodes, 0 being the root, and also the end of a list of   *)
(* children.  A string is the index of the node of its last character.     *)
(***************************************************************************)
EXTENDS Naturals, FiniteSets, Sequences, SequencesExt

Node(parent, c, attribute) ==
  [parent |-> parent, first_child |-> 0, next |-> 0, c |-> c,
   attribute |-> attribute]
EmptyTrie == [i \in {0} |-> Node(0, 0, 0)]

(* The node most recently put into the buffer.                             *)
LastNode(nb) == Cardinality(DOMAIN nb) - 1
Push(nb, node) ==
  [i \in 0 .. Cardinality(DOMAIN nb) |->
     IF i \in DOMAIN nb THEN nb[i] ELSE node]

(* The children of a node, in the order of their list.                     *)
Children(nb, i) ==
  LET list[k \in DOMAIN nb] ==
        IF k = 0 THEN <<>> ELSE <<k>> \o list[nb[k].next]
  IN list[nb[i].first_child]

(* Mutant: only the first child is looked at.                              *)
ChildBy_first(nb, i, c) == {k \in {nb[i].first_child} \ {0} : nb[k].c = c}

ChildBy(nb, i, c) == {k \in Range(Children(nb, i)) : nb[k].c = c}

(* add_child: the child of the node at by the character c, made if there   *)
(* is none and put behind the others.                                      *)
add_child(r, c, attribute) ==
  LET nb    == r.nb
      found == ChildBy(nb, r.at, c)
      list  == Children(nb, r.at)
      more  == Push(nb, Node(r.at, c, attribute))
      new   == LastNode(more)
  IN IF found # {} THEN [r EXCEPT !.at = CHOOSE k \in found : TRUE]
     ELSE [nb |-> IF list = <<>>
                  THEN [more EXCEPT ![r.at].first_child = new]
                  ELSE [more EXCEPT ![Last(list)].next = new],
           at |-> new]

(* insert; default is the attribute of the nodes made.                     *)
insert(nb, s, default) ==
  LET way[k \in 0 .. Len(s)] ==
        IF k = 0 THEN [nb |-> nb, at |-> 0]
        ELSE add_child(way[k - 1], s[k], default)
  IN way[Len(s)]

(* Mutant: a node that was there keeps its attribute.                      *)
insert_attributed_kept(nb, s, attribute, default) ==
  LET r == insert(nb, s, default)
  IN IF r.at \in DOMAIN nb THEN r.nb
     ELSE [r.nb EXCEPT ![r.at].attribute = attribute]

(* insert of Attributed_char_trie: post_action gives the last node the     *)
(* attribute of the string.                                                *)
insert_attributed(nb, s, attribute, default) ==
  LET r == insert(nb, s, default)
  IN [r.nb EXCEPT ![r.at].attribute = attribute]

(* Char_trie::get_string, and get_set of the tries of sets: the characters *)
(* on the way from the node up to the root.                                *)
get_string(nb, idx) ==
  LET up[i \in DOMAIN nb] ==
        IF i = 0 THEN <<>> ELSE Append(up[nb[i].parent], nb[i].c)
  IN up[idx]
get_set(nb, idx) == Range(get_string(nb, idx))

(* The members of a set in increasing order, as std::set and std::sort     *)
(* give them.                                                              *)
Ordered(s) ==
  CHOOSE q \in [1 .. Cardinality(s) -> s] :
    /\ Range(q) = s
    /\ \A i, j \in DOMAIN q : i < j => q[i] < q[j]

-----------------------------------------------------------------------------
(* Attributed_char_trie::jumps.                                            *)

(* get_next_level: the children of the nodes of a level.                   *)
get_next_level(nb, level) ==
  FlattenSeq([i \in DOMAIN level |-> Children(nb, level[i])])

(* The levels of the subtree below root; after the last they are empty.    *)
LevelsFrom(nb, root) ==
  LET levels[k \in 1 .. LastNode(nb)] ==
        IF k = 1 THEN <<root>> ELSE get_next_level(nb, levels[k - 1])
  IN levels

(* Mutant: one state is skipped.                                           *)
first_state_skip(state) == state + 2

(* jc.first_state, for the node that becomes this state.                   *)
first_state(state) == state + 1

(* jumps_for_subtrie: the rows of the table for a subtree, the first of    *)
(* them being the state number current.                                    *)
jumps_for_subtrie(nb, root, current) ==
  LET nodes == FlattenSeq(LevelsFrom(nb, root))
  IN [k \in DOMAIN nodes |->
        LET children == Children(nb, nodes[k])
        IN [jump_chars  |-> [j \in DOMAIN children |-> nb[children[j]].c],
            code        |-> nb[nodes[k]].attribute,
            first_state |-> IF children = <<>> THEN 0
                            ELSE first_state(current + k - 1)]]

(* The table, and where each first character begins in it.                 *)
jumps(nb) ==
  LET roots == Children(nb, 0)
      made[k \in 0 .. Len(roots)] ==
        IF k = 0 THEN [jumps |-> <<>>, init_table |-> <<>>]
        ELSE LET rows    == made[k - 1].jumps
                 current == Len(rows)
             IN [jumps |-> rows \o jumps_for_subtrie(nb, roots[k], current),
                 init_table |-> Append(made[k - 1].init_table,
                                       [st |-> current, c |-> nb[roots[k]].c])]
  IN made[Len(roots)]

(* Mutant: the table is left in the order of the definitions.              *)
SortedInits_as_is(inits) == inits

(* The table is sorted by its characters, which are distinct.              *)
SortedInits(inits) ==
  LET chars == Ordered({inits[k].c : k \in DOMAIN inits})
  IN [i \in DOMAIN chars |->
        inits[CHOOSE k \in DOMAIN inits : inits[k].c = chars[i]]]

(* get_init_state: a search by halves, each turn of which halves what is   *)
(* left of the table, from lower to upper, until the character is found.   *)
get_init_state(sym, sts) ==
  LET turn[k \in 0 .. Len(sts)] ==
        IF k = 0 THEN [lower |-> 1, upper |-> Len(sts), found |-> {}]
        ELSE LET h      == turn[k - 1]
                 middle == (h.lower - 1 + h.upper - 1) \div 2 + 1
             IN IF h.lower > h.upper \/ h.found # {} THEN h
                ELSE IF sym = sts[middle].c
                     THEN [h EXCEPT !.found = {sts[middle].st}]
                ELSE IF sym > sts[middle].c
                     THEN [h EXCEPT !.lower = middle + 1]
                     ELSE [h EXCEPT !.upper = middle - 1]
  IN turn[Len(sts)].found

(* search_char: the place of a character among others, from 0.             *)
search_char(c, array) == {k \in 0 .. Len(array) - 1 : array[k + 1] = c}
=============================================================================
