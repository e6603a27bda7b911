----------------------------- MODULE TablesProofs -----------------------------
(***************************************************************************)
(* Proofs about Tables, for every set of literals and every number of      *)
(* them: what add_child, insert and get_string do to a trie whatever is in *)
(* it; the names and the table of the categories; the jump table and what  *)
(* the scanner of delimiters reads with it.                                *)
(*                                                                         *)
(* No induction principle can be cited (its predicate is an operator); an  *)
(* induction is made from the least number that has no witness, or no      *)
(* place, in a set.                                                        *)
(***************************************************************************)
EXTENDS Tables, FiniteSetTheorems, SequenceTheorems, WellFoundedInduction,
        TLAPS

-----------------------------------------------------------------------------
(* A set of numbers has a least one, and if it is bounded a greatest one.  *)

Less == {p \in Nat \X Nat : p[1] < p[2]}

LEMMA LeastOf ==
  ASSUME NEW T, T \subseteq Nat, T # {}
  PROVE  \E x \in T : \A y \in T : x <= y
<1>1. IsWellFoundedOn(Less, Nat)
  BY NatLessThanWellFounded, Zenon DEF OpToRel, Less
<1>2. PICK x \in T : \A y \in T : ~(<<y, x>> \in Less)
  BY <1>1, WFMin, Zenon
<1>3. ASSUME NEW y \in T PROVE x <= y
  <2>1. x \in Nat /\ y \in Nat
    OBVIOUS
  <2>2. <<y, x>> \in Less <=> y < x
    BY <2>1 DEF Less
  <2> QED
    BY <1>2, <2>1, <2>2
<1> QED
  BY <1>3

LEMMA GreatestOf ==
  ASSUME NEW n \in Nat, NEW T, T \subseteq 0 .. n, T # {}
  PROVE  \E x \in T : \A y \in T : y <= x
<1> DEFINE S == {n - y : y \in T}
<1>0. \A y \in T : n - y \in Nat
  OBVIOUS
<1>1. S \subseteq Nat /\ S # {}
  BY <1>0
<1>2. PICK z \in S : \A y \in S : z <= y
  BY <1>1, LeastOf
<1>3. PICK x \in T : z = n - x
  OBVIOUS
<1>4. ASSUME NEW y \in T PROVE y <= x
  <2>1. n - y \in S
    OBVIOUS
  <2>2. n - x <= n - y /\ x \in 0 .. n /\ y \in 0 .. n
    BY <1>2, <1>3, <2>1
  <2> QED
    BY <2>2
<1> QED
  BY <1>4

-----------------------------------------------------------------------------
(* A sound trie: parents come before their children; the list of children  *)
(* of a node holds all of them, in the order in which they were made; no   *)
(* two of them have the same character.                                    *)

Kids(nb, i) == {k \in DOMAIN nb \ {0} : nb[k].parent = i}

(* The least of a set of nodes, or 0, the end of a list.                   *)
IsFirst(v, S) == IF S = {} THEN v = 0 ELSE v \in S /\ \A y \in S : v <= y

Siblings(nb, k) == Kids(nb, nb[k].parent)

Sized(nb, n) ==
  nb \in [0 .. n -> [parent : 0 .. n, first_child : 0 .. n, next : 0 .. n,
                     c : Nat, attribute : Nat]]

Sound(nb, n) ==
  /\ n \in Nat /\ Sized(nb, n)
  /\ \A i \in 1 .. n : nb[i].parent < i
  /\ \A i \in 0 .. n : IsFirst(nb[i].first_child, Kids(nb, i))
  /\ \A i \in 1 .. n : IsFirst(nb[i].next, {k \in Siblings(nb, i) : k > i})
  /\ \A i \in 1 .. n : \A j \in Siblings(nb, i) : nb[i].c = nb[j].c => i = j

LEMMA KidsAre ==
  ASSUME NEW nb, NEW n, Sound(nb, n)
  PROVE  /\ DOMAIN nb = 0 .. n /\ n \in Nat
         /\ \A i : Kids(nb, i) = {k \in 1 .. n : nb[k].parent = i}
<1>1. DOMAIN nb = 0 .. n /\ n \in Nat
  BY DEF Sound, Sized
<1>2. (0 .. n) \ {0} = 1 .. n
  BY <1>1
<1> QED
  BY <1>1, <1>2 DEF Kids

(* The next of a list comes later and is a child of the same node.         *)
LEMMA NextIs ==
  ASSUME NEW nb, NEW n, Sound(nb, n), NEW k \in 1 .. n
  PROVE  LET j == nb[k].next
         IN \/ j = 0 /\ \A m \in Siblings(nb, k) : m <= k
            \/ /\ j \in k + 1 .. n /\ nb[j].parent = nb[k].parent
               /\ \A m \in Siblings(nb, k) : m <= k \/ m >= j
<1> DEFINE S == {m \in Siblings(nb, k) : m > k}
<1>1. IsFirst(nb[k].next, S)
  BY DEF Sound
<1>2. \A m \in Siblings(nb, k) : m \in 1 .. n /\ nb[m].parent = nb[k].parent
  BY KidsAre DEF Siblings
<1>3. n \in Nat
  BY KidsAre
<1>4. CASE S = {}
  BY <1>1, <1>2, <1>3, <1>4 DEF IsFirst
<1>5. CASE S # {}
  <2>1. nb[k].next \in S /\ \A y \in S : nb[k].next <= y
    BY <1>1, <1>5 DEF IsFirst
  <2>2. nb[k].next \in k + 1 .. n /\ nb[nb[k].next].parent = nb[k].parent
    BY <1>2, <1>3, <2>1
  <2> QED
    BY <1>2, <1>3, <2>1, <2>2
<1> QED
  BY <1>4, <1>5

-----------------------------------------------------------------------------
(* The children of a node.                                                 *)

IsList(nb, f) ==
  f = [k \in DOMAIN nb |-> IF k = 0 THEN <<>> ELSE <<k>> \o f[nb[k].next]]

(* There are the lists: those that begin at the last m nodes, for every m. *)
LEMMA ListExists ==
  ASSUME NEW nb, NEW n, Sound(nb, n)
  PROVE  \E f : IsList(nb, f)
<1> DEFINE From(m) == {0} \cup n - m + 1 .. n
           Lists(m, g) ==
             g = [k \in From(m) |-> IF k = 0 THEN <<>>
                                    ELSE <<k>> \o g[nb[k].next]]
           T == {m \in 0 .. n : ~ \E g : Lists(m, g)}
<1>0. n \in Nat /\ DOMAIN nb = 0 .. n
  BY KidsAre
<1>1. CASE T = {}
  <2>1. n \in 0 .. n /\ n - n + 1 = 1
    BY <1>0
  <2>2. PICK g : Lists(n, g)
    BY <1>1, <2>1
  <2>3. {0} \cup 1 .. n = 0 .. n
    BY <1>0
  <2>4. From(n) = 0 .. n
    BY <2>1, <2>3
  <2> HIDE DEF From
  <2>5. IsList(nb, g)
    BY <1>0, <2>2, <2>4 DEF IsList
  <2> QED
    BY <2>5
<1>2. CASE T # {}
  <2>0. T \subseteq Nat
    BY <1>0
  <2>1. PICK m \in T : \A y \in T : m <= y
    <3> HIDE DEF T
    <3> QED
      BY <1>2, <2>0, LeastOf
  <2>2. CASE m = 0
    <3>1. From(0) = {0}
      BY <1>0
    <3> DEFINE g == [k \in {0} |-> <<>>]
    <3>2. g = [k \in {0} |-> IF k = 0 THEN <<>> ELSE <<k>> \o g[nb[k].next]]
      OBVIOUS
    <3>3. Lists(0, g)
      BY <3>1, <3>2
    <3> QED
      BY <2>1, <2>2, <3>3
  <2>3. CASE m # 0
    <3>1. m - 1 \in 0 .. n /\ ~(m <= m - 1)
      BY <1>0, <2>1, <2>3
    <3>2. PICK f : Lists(m - 1, f)
      BY <2>1, <3>1
    <3>3. PICK d : d = n - m + 1
      OBVIOUS
    <3>4. d \in 1 .. n /\ From(m) = {0} \cup d .. n
          /\ From(m - 1) = {0} \cup d + 1 .. n
      <4>1. d \in 1 .. n /\ n - (m - 1) + 1 = d + 1
        BY <1>0, <2>1, <2>3, <3>3
      <4> QED
        BY <3>3, <4>1
    <3> HIDE DEF From
    <3> DEFINE A == {0} \cup d .. n
               B == {0} \cup d + 1 .. n
               g == [k \in A |-> IF k = 0 THEN <<>>
                                 ELSE IF k = d THEN <<d>> \o f[nb[d].next]
                                 ELSE f[k]]
    <3>5. \A k \in B : f[k] = IF k = 0 THEN <<>> ELSE <<k>> \o f[nb[k].next]
      BY <3>2, <3>4
    <3>6. ASSUME NEW k \in A, k # 0
          PROVE  nb[k].next \in B /\ (k # d => k \in B)
      <4>1. k \in 1 .. n /\ k \in d .. n
        BY <1>0, <3>4, <3>6
      <4>2. nb[k].next = 0 \/ nb[k].next \in k + 1 .. n
        BY <4>1, NextIs
      <4>3. k # d => k \in d + 1 .. n
        BY <1>0, <3>4, <4>1
      <4>4. k + 1 .. n \subseteq d + 1 .. n
        BY <1>0, <3>4, <4>1
      <4> QED
        BY <4>2, <4>3, <4>4
    <3>7. ASSUME NEW k \in B PROVE k \in A /\ g[k] = f[k]
      <4>1. k \in A /\ k # d
        BY <1>0, <3>4
      <4>2. k = 0 => f[k] = <<>>
        BY <3>5
      <4> QED
        BY <4>1, <4>2
    <3>8. \A k \in A : g[k] = IF k = 0 THEN <<>> ELSE <<k>> \o g[nb[k].next]
      <4>1. ASSUME NEW k \in A, k # 0
            PROVE  g[k] = <<k>> \o f[nb[k].next] /\ g[nb[k].next] = f[nb[k].next]
        BY <3>5, <3>6, <3>7, <4>1
      <4> QED
        BY <4>1
    <3>9. g = [k \in A |-> IF k = 0 THEN <<>> ELSE <<k>> \o g[nb[k].next]]
      BY <3>8
    <3>10. Lists(m, g)
      BY <3>4, <3>9
    <3> QED
      BY <2>1, <3>10
  <2> QED
    BY <2>2, <2>3
<1> QED
  BY <1>1, <1>2

LEMMA PutInFront ==
  ASSUME NEW S, NEW k \in S, NEW q \in Seq(S)
  PROVE  /\ <<k>> \o q \in Seq(S) /\ <<k>> \o q # <<>>
         /\ Range(<<k>> \o q) = {k} \cup Range(q)
         /\ Last(<<k>> \o q) = IF q = <<>> THEN k ELSE Last(q)
         /\ k \notin Range(q) /\ IsInjective(q) => IsInjective(<<k>> \o q)
<1> DEFINE p == <<k>> \o q
<1>1. p \in Seq(S) /\ Len(p) = Len(q) + 1 /\ Len(q) \in Nat
  OBVIOUS
<1>2. p[1] = k /\ \A i \in 1 .. Len(q) : p[i + 1] = q[i]
  OBVIOUS
<1>3. DOMAIN p = 1 .. Len(q) + 1 /\ DOMAIN q = 1 .. Len(q)
  BY <1>1
<1> HIDE DEF p
<1>4. \A i \in DOMAIN p : i = 1 \/ (i - 1 \in DOMAIN q /\ p[i] = q[i - 1])
  <2>1. ASSUME NEW i \in DOMAIN p, i # 1
        PROVE  i - 1 \in 1 .. Len(q) /\ (i - 1) + 1 = i
    BY <1>1, <1>3, <2>1
  <2> QED
    BY <1>2, <1>3, <2>1
<1>5. 1 \in DOMAIN p /\ \A i \in DOMAIN q : i + 1 \in DOMAIN p
  BY <1>1, <1>3
<1>6. Range(p) = {k} \cup Range(q)
  BY <1>2, <1>3, <1>4, <1>5 DEF Range
<1>7. Last(p) = IF q = <<>> THEN k ELSE Last(q)
  <2>1. CASE q = <<>>
    BY <1>1, <1>2, <2>1 DEF Last
  <2>2. CASE q # <<>>
    <3>1. Len(q) \in 1 .. Len(q)
      BY <2>2
    <3> QED
      BY <1>1, <1>2, <2>2, <3>1 DEF Last
  <2> QED
    BY <2>1, <2>2
<1>8. p # <<>>
  BY <1>1
<1>9. ASSUME k \notin Range(q), IsInjective(q) PROVE IsInjective(p)
  <2>1. ASSUME NEW a \in DOMAIN p, NEW b \in DOMAIN p, p[a] = p[b]
        PROVE  a = b
    <3>1. a = 1 \/ (a - 1 \in DOMAIN q /\ p[a] = q[a - 1])
      BY <1>4
    <3>2. b = 1 \/ (b - 1 \in DOMAIN q /\ p[b] = q[b - 1])
      BY <1>4
    <3>3. \A i \in DOMAIN q : q[i] # k
      BY <1>9 DEF Range
    <3>4. a - 1 \in DOMAIN q /\ b - 1 \in DOMAIN q => a - 1 = b - 1 \/ p[a] # q[a - 1] \/ p[b] # q[b - 1]
      BY <1>9, <2>1 DEF IsInjective
    <3>5. a \in Nat /\ b \in Nat
      BY <1>3
    <3> QED
      BY <1>2, <2>1, <3>1, <3>2, <3>3, <3>4, <3>5
  <2> QED
    BY <2>1 DEF IsInjective
<1> QED
  BY <1>1, <1>6, <1>7, <1>8, <1>9 DEF p

(* The nodes of S, each of them once, the greatest being the last.         *)
Lists(q, S, n) ==
  /\ q \in Seq(1 .. n) /\ Range(q) = S /\ IsInjective(q)
  /\ q = <<>> <=> S = {}
  /\ S # {} => Last(q) \in S /\ \A m \in S : m <= Last(q)

LEMMA ListIs ==
  ASSUME NEW nb, NEW n, Sound(nb, n), NEW f, IsList(nb, f), NEW k \in 1 .. n
  PROVE  Lists(f[k], {m \in Siblings(nb, k) : m >= k}, n)
<1> DEFINE From(i) == {m \in Siblings(nb, i) : m >= i}
           T == {i \in 1 .. n : ~Lists(f[i], From(i), n)}
<1>0. n \in Nat /\ DOMAIN nb = 0 .. n
  BY KidsAre
<1>1. \A i \in 1 .. n : Siblings(nb, i) \subseteq 1 .. n /\ i \in Siblings(nb, i)
  BY KidsAre DEF Siblings
<1>2. SUFFICES ASSUME T # {} PROVE FALSE
  OBVIOUS
<1>3. PICK i \in T : \A y \in T : y <= i
  <2>1. T \subseteq 0 .. n
    OBVIOUS
  <2> HIDE DEF T
  <2> QED
    BY <1>0, <1>2, <2>1, GreatestOf
<1>4. i \in 1 .. n /\ ~Lists(f[i], From(i), n)
  OBVIOUS
<1> DEFINE j == nb[i].next
<1>5. f[i] = <<i>> \o f[j] /\ f[0] = <<>>
  <2>1. i \in DOMAIN nb /\ i # 0 /\ 0 \in DOMAIN nb
    BY <1>0, <1>4
  <2> HIDE DEF T
  <2> QED
    BY <2>1 DEF IsList
<1> HIDE DEF T
<1>6. CASE j = 0
  <2>1. From(i) = {i}
    BY <1>1, <1>4, <1>6, NextIs
  <2>2. f[i] = <<i>> \o <<>> /\ <<>> \in Seq(1 .. n)
    <3>1. f[j] = <<>>
      BY <1>5, <1>6
    <3>2. f[i] = <<i>> \o <<>>
      BY <1>5, <3>1
    <3> QED
      BY <3>2
  <2>3. Range(<<>>) = {} /\ IsInjective(<<>>)
    BY DEF Range, IsInjective
  <2>4. f[i] \in Seq(1 .. n) /\ f[i] # <<>> /\ Range(f[i]) = {i}
        /\ Last(f[i]) = i /\ IsInjective(f[i])
    <3> HIDE DEF From
    <3>1. PICK S : S = 1 .. n
      OBVIOUS
    <3>2. i \in S /\ <<>> \in Seq(S)
      BY <1>4, <3>1
    <3>3. <<i>> \o <<>> \in Seq(S) /\ <<i>> \o <<>> # <<>>
          /\ Range(<<i>> \o <<>>) = {i} \cup {} /\ Last(<<i>> \o <<>>) = i
          /\ IsInjective(<<i>> \o <<>>)
      BY <2>3, <3>2, PutInFront, Zenon
    <3> QED
      BY <2>2, <3>1, <3>3
  <2> QED
    BY <1>4, <2>1, <2>4 DEF Lists
<1>7. CASE j # 0
  <2>1. /\ j \in i + 1 .. n /\ nb[j].parent = nb[i].parent
        /\ \A m \in Siblings(nb, i) : m <= i \/ m >= j
    BY <1>4, <1>7, NextIs
  <2>2. j \in 1 .. n /\ ~(j <= i)
    BY <1>0, <1>4, <2>1
  <2>3. Lists(f[j], From(j), n)
    BY <1>3, <2>2 DEF T
  <2>4. Siblings(nb, j) = Siblings(nb, i)
    BY <2>1 DEF Siblings
  <2>5. From(i) = {i} \cup From(j)
    BY <1>0, <1>1, <1>4, <2>1, <2>2, <2>4
  <2>6. j \in From(j) /\ i \in From(i)
    BY <1>1, <1>4, <2>2
  <2>7. f[j] \in Seq(1 .. n) /\ Range(f[j]) = From(j) /\ f[j] # <<>>
        /\ IsInjective(f[j])
        /\ Last(f[j]) \in From(j) /\ \A m \in From(j) : m <= Last(f[j])
    BY <2>3, <2>6 DEF Lists
  <2>8. f[i] \in Seq(1 .. n) /\ f[i] # <<>> /\ Range(f[i]) = From(i)
        /\ Last(f[i]) = Last(f[j]) /\ IsInjective(f[i])
    <3>0. i \notin From(j)
      BY <1>0, <1>4, <2>2
    <3> HIDE DEF From, j
    <3>1. PICK S, q : S = 1 .. n /\ q = f[j]
      OBVIOUS
    <3>2. i \in S /\ q \in Seq(S) /\ q # <<>>
      BY <1>4, <2>7, <3>1
    <3>3. <<i>> \o q \in Seq(S) /\ <<i>> \o q # <<>>
          /\ Range(<<i>> \o q) = {i} \cup Range(q)
          /\ Last(<<i>> \o q) = IF q = <<>> THEN i ELSE Last(q)
      BY <3>2, PutInFront, Zenon
    <3>4. IsInjective(f[i])
      <4>1. i \notin Range(q) /\ IsInjective(q)
        BY <2>7, <3>0, <3>1
      <4>2. IsInjective(<<i>> \o q)
        BY <3>2, <4>1, PutInFront, Zenon
      <4>3. f[i] = <<i>> \o q
        BY <1>5, <3>1
      <4> QED
        BY <4>2, <4>3, Zenon
    <3> QED
      BY <1>5, <2>5, <2>7, <3>1, <3>2, <3>3, <3>4
  <2>9. Last(f[j]) \in From(i) /\ \A m \in From(i) : m <= Last(f[j])
    <3>1. j <= Last(f[j])
      BY <2>6, <2>7
    <3>2. Last(f[j]) \in 1 .. n
      BY <1>1, <2>2, <2>7
    <3>3. i <= Last(f[j])
      BY <1>4, <2>1, <3>1, <3>2
    <3> QED
      BY <2>5, <2>7, <3>3
  <2> QED
    BY <1>4, <2>6, <2>8, <2>9 DEF Lists
<1> QED
  BY <1>6, <1>7

LEMMA ChildrenOf ==
  ASSUME NEW nb, NEW n, Sound(nb, n), NEW i \in 0 .. n
  PROVE  Lists(Children(nb, i), Kids(nb, i), n)
<1> DEFINE first == nb[i].first_child
<1>1. PICK f : IsList(nb, f) /\ Children(nb, i) = f[first]
  <2>1. PICK f : f = CHOOSE g : IsList(nb, g)
    OBVIOUS
  <2>2. IsList(nb, f)
    BY <2>1, ListExists
  <2>3. Children(nb, i) = f[first]
    BY <2>1 DEF Children, IsList
  <2> QED
    BY <2>2, <2>3
<1>2. IsFirst(first, Kids(nb, i))
  BY DEF Sound
<1>3. n \in Nat /\ DOMAIN nb = 0 .. n
      /\ Kids(nb, i) = {m \in 1 .. n : nb[m].parent = i}
  BY KidsAre
<1>4. CASE Kids(nb, i) = {}
  <2>1. first = 0 /\ f[0] = <<>>
    BY <1>1, <1>2, <1>3, <1>4 DEF IsFirst, IsList
  <2> QED
    BY <1>1, <1>4, <2>1 DEF Lists, Range, IsInjective
<1>5. CASE Kids(nb, i) # {}
  <2>1. first \in Kids(nb, i) /\ \A y \in Kids(nb, i) : first <= y
    BY <1>2, <1>5 DEF IsFirst
  <2>2. first \in 1 .. n /\ nb[first].parent = i
    BY <1>3, <2>1
  <2>3. Siblings(nb, first) = Kids(nb, i)
    BY <2>2 DEF Siblings
  <2>4. {m \in Siblings(nb, first) : m >= first} = Kids(nb, i)
    BY <1>3, <2>1, <2>2, <2>3
  <2> QED
    BY <1>1, <2>2, <2>4, ListIs
<1> QED
  BY <1>4, <1>5

-----------------------------------------------------------------------------
(* add_child.                                                              *)

(* The links of the node i when the node n + 1 becomes the last child of   *)
(* at, and the trie nc that nb becomes.                                    *)
FirstLinked(nb, n, at, i) ==
  IF i = at /\ Kids(nb, at) = {} THEN n + 1 ELSE nb[i].first_child
NextLinked(nb, n, at, i) ==
  IF i \in Kids(nb, at) /\ \A m \in Kids(nb, at) : m <= i
  THEN n + 1 ELSE nb[i].next

Linked(nb, n, nc, at, c, attribute) ==
  /\ nc = [i \in 0 .. n + 1 |-> nc[i]]
  /\ nc[n + 1] = Node(at, c, attribute)
  /\ \A i \in 0 .. n :
       nc[i] = [parent |-> nb[i].parent,
                first_child |-> FirstLinked(nb, n, at, i),
                next |-> NextLinked(nb, n, at, i), c |-> nb[i].c,
                attribute |-> nb[i].attribute]

LEMMA LinkedFields ==
  ASSUME NEW nb, NEW n, NEW nc, NEW at, NEW c, NEW attribute,
         Linked(nb, n, nc, at, c, attribute), NEW i \in 0 .. n
  PROVE  /\ nc[i].parent = nb[i].parent /\ nc[i].c = nb[i].c
         /\ nc[i].attribute = nb[i].attribute
         /\ nc[i].first_child = FirstLinked(nb, n, at, i)
         /\ nc[i].next = NextLinked(nb, n, at, i)
<1>1. PICK x, y : x = FirstLinked(nb, n, at, i) /\ y = NextLinked(nb, n, at, i)
  OBVIOUS
<1>2. nc[i] = [parent |-> nb[i].parent, first_child |-> x, next |-> y,
               c |-> nb[i].c, attribute |-> nb[i].attribute]
  BY <1>1 DEF Linked
<1> QED
  BY <1>1, <1>2

LEMMA LinkedKids ==
  ASSUME NEW nb, NEW n, Sound(nb, n), NEW nc, NEW at \in 0 .. n, NEW c,
         NEW attribute, Linked(nb, n, nc, at, c, attribute)
  PROVE  /\ Kids(nc, at) = Kids(nb, at) \cup {n + 1}
         /\ \A i \in 0 .. n : i # at => Kids(nc, i) = Kids(nb, i)
         /\ Kids(nc, n + 1) = {}
<1>1. n \in Nat /\ DOMAIN nb = 0 .. n
      /\ \A i : Kids(nb, i) = {k \in 1 .. n : nb[k].parent = i}
  BY KidsAre
<1>2. \A k \in 1 .. n : nb[k].parent < k
  BY DEF Sound
<1>3. \A k \in 1 .. n : nb[k].parent \in 0 .. n
  BY <1>1 DEF Sound, Sized
<1>4. (DOMAIN nc) \ {0} = 1 .. n \cup {n + 1}
  BY <1>1 DEF Linked
<1>5. \A k \in 1 .. n : nc[k].parent = nb[k].parent
  <2>1. \A k \in 1 .. n : k \in 0 .. n
    BY <1>1
  <2> QED
    BY <2>1, LinkedFields
<1>6. nc[n + 1].parent = at
  BY DEF Linked, Node
<1>7. \A i : Kids(nc, i) = {k \in 1 .. n \cup {n + 1} : nc[k].parent = i}
  BY <1>4 DEF Kids
<1>8. \A k \in 1 .. n : nb[k].parent # n + 1
  BY <1>1, <1>3
<1>9. at # n + 1
  BY <1>1
<1>10. Kids(nc, at) = Kids(nb, at) \cup {n + 1}
  BY <1>1, <1>5, <1>6, <1>7
<1>11. ASSUME NEW i \in 0 .. n, i # at PROVE Kids(nc, i) = Kids(nb, i)
  <2>1. Kids(nc, i) = {k \in 1 .. n : nc[k].parent = i}
    BY <1>6, <1>7, <1>11
  <2> QED
    BY <1>1, <1>5, <2>1
<1>12. Kids(nc, n + 1) = {}
  BY <1>5, <1>6, <1>7, <1>8, <1>9
<1> QED
  BY <1>10, <1>11, <1>12

LEMMA LinkedSound ==
  ASSUME NEW nb, NEW n, Sound(nb, n), NEW nc, NEW at \in 0 .. n,
         NEW c \in Nat, NEW attribute \in Nat,
         Linked(nb, n, nc, at, c, attribute),
         \A k \in Kids(nb, at) : nb[k].c # c
  PROVE  Sound(nc, n + 1)
<1>1. n \in Nat /\ DOMAIN nb = 0 .. n
      /\ \A i : Kids(nb, i) = {k \in 1 .. n : nb[k].parent = i}
  BY KidsAre
<1>2. /\ Kids(nc, at) = Kids(nb, at) \cup {n + 1}
      /\ \A i \in 0 .. n : i # at => Kids(nc, i) = Kids(nb, i)
      /\ Kids(nc, n + 1) = {}
  BY LinkedKids
<1>3. nc[n + 1] = [parent |-> at, first_child |-> 0, next |-> 0, c |-> c,
                   attribute |-> attribute]
  BY DEF Linked, Node
<1>4. \A i \in 0 .. n :
        /\ nb[i].parent \in 0 .. n /\ nb[i].first_child \in 0 .. n
        /\ nb[i].next \in 0 .. n /\ nb[i].c \in Nat /\ nb[i].attribute \in Nat
  BY DEF Sound, Sized
<1>5. DOMAIN nc = 0 .. n + 1
  BY DEF Linked
<1>6. \A i \in 0 .. n :
        /\ nc[i].parent = nb[i].parent /\ nc[i].c = nb[i].c
        /\ nc[i].first_child = IF i = at /\ Kids(nb, at) = {} THEN n + 1
                                                   ELSE nb[i].first_child
        /\ nc[i].next =
             IF i \in Kids(nb, at) /\ \A m \in Kids(nb, at) : m <= i
             THEN n + 1 ELSE nb[i].next
  BY LinkedFields DEF FirstLinked, NextLinked
<1>7. \A i \in 0 .. n + 1 : i \in 0 .. n \/ i = n + 1
  BY <1>1
<1>8. \A i \in 1 .. n : i \in 0 .. n
  BY <1>1
<1>9. \A i \in 1 .. n + 1 : i \in 1 .. n \/ i = n + 1
  BY <1>1
<1> DEFINE R == [parent : 0 .. n + 1, first_child : 0 .. n + 1,
                 next : 0 .. n + 1, c : Nat, attribute : Nat]
<1>10. Sized(nc, n + 1)
  <2>1. \A x \in 0 .. n : x \in 0 .. n + 1
    BY <1>1
  <2>2. n + 1 \in 0 .. n + 1 /\ 0 \in 0 .. n + 1
    BY <1>1
  <2>3. nc[n + 1] \in R
    BY <1>3, <2>1, <2>2
  <2>4. ASSUME NEW i \in 0 .. n PROVE nc[i] \in R
    <3>1. PICK x, y : x = FirstLinked(nb, n, at, i)
                      /\ y = NextLinked(nb, n, at, i)
      OBVIOUS
    <3>2. x \in 0 .. n + 1 /\ y \in 0 .. n + 1
      BY <1>4, <2>1, <2>2, <3>1 DEF FirstLinked, NextLinked
    <3>3. nc[i] = [parent |-> nb[i].parent, first_child |-> x, next |-> y,
                   c |-> nb[i].c, attribute |-> nb[i].attribute]
      BY <3>1 DEF Linked
    <3> QED
      BY <1>4, <2>1, <3>2, <3>3
  <2>5. \A i \in 0 .. n + 1 : nc[i] \in R
    BY <1>7, <2>3, <2>4
  <2>6. nc = [i \in 0 .. n + 1 |-> nc[i]]
    BY DEF Linked
  <2> QED
    BY <2>5, <2>6 DEF Sized
<1>11. ASSUME NEW i \in 1 .. n + 1 PROVE nc[i].parent < i
  <2>1. \A k \in 1 .. n : nb[k].parent < k
    BY DEF Sound
  <2> QED
    BY <1>1, <1>3, <1>6, <1>8, <1>9, <2>1
<1>12. ASSUME NEW i \in 0 .. n + 1
       PROVE  IsFirst(nc[i].first_child, Kids(nc, i))
  <2>1. CASE i = n + 1
    BY <1>2, <1>3, <2>1 DEF IsFirst
  <2>2. CASE i \in 0 .. n
    <3>1. IsFirst(nb[i].first_child, Kids(nb, i))
      BY <2>2 DEF Sound
    <3>2. CASE i # at
      BY <1>2, <1>6, <2>2, <3>1, <3>2
    <3>3. CASE i = at /\ Kids(nb, at) = {}
      <4>1. nc[i].first_child = n + 1 /\ Kids(nc, i) = {n + 1}
        BY <1>2, <1>6, <2>2, <3>3
      <4> QED
        BY <1>1, <4>1 DEF IsFirst
    <3>4. CASE i = at /\ Kids(nb, at) # {}
      <4>1. nc[i].first_child = nb[i].first_child
        BY <1>6, <2>2, <3>4
      <4>2. nb[i].first_child \in Kids(nb, i)
            /\ \A y \in Kids(nb, i) : nb[i].first_child <= y
        BY <3>1, <3>4 DEF IsFirst
      <4>3. nb[i].first_child <= n + 1
        BY <1>1, <4>2
      <4>4. Kids(nc, i) = Kids(nb, i) \cup {n + 1}
        BY <1>2, <3>4
      <4> QED
        BY <4>1, <4>2, <4>3, <4>4 DEF IsFirst
    <3> QED
      BY <3>2, <3>3, <3>4
  <2> QED
    BY <1>7, <2>1, <2>2
<1>13. ASSUME NEW i \in 1 .. n + 1
       PROVE  IsFirst(nc[i].next, {k \in Siblings(nc, i) : k > i})
  <2>1. CASE i = n + 1
    <3>1. Siblings(nc, i) = Kids(nb, at) \cup {n + 1} /\ nc[i].next = 0
      BY <1>2, <1>3, <2>1 DEF Siblings
    <3>2. {k \in Siblings(nc, i) : k > i} = {}
      BY <1>1, <2>1, <3>1
    <3> QED
      BY <3>1, <3>2 DEF IsFirst
  <2>2. CASE i \in 1 .. n
    <3> DEFINE S == {k \in Siblings(nb, i) : k > i}
    <3>1. IsFirst(nb[i].next, S)
      BY <2>2 DEF Sound
    <3>2. nc[i].parent = nb[i].parent /\ nb[i].parent \in 0 .. n
      BY <1>4, <1>6, <1>8, <2>2
    <3>3. CASE nb[i].parent # at
      <4>1. Siblings(nc, i) = Siblings(nb, i)
        BY <1>2, <3>2, <3>3 DEF Siblings
      <4>2. i \notin Kids(nb, at)
        BY <1>1, <3>3
      <4>3. nc[i].next = nb[i].next
        BY <1>6, <1>8, <2>2, <4>2
      <4> QED
        BY <3>1, <4>1, <4>3
    <3>4. CASE nb[i].parent = at
      <4>1. Siblings(nc, i) = Kids(nb, at) \cup {n + 1}
            /\ Siblings(nb, i) = Kids(nb, at)
        BY <1>2, <3>2, <3>4 DEF Siblings
      <4>2. n + 1 > i /\ i \in Nat
        BY <1>1, <2>2
      <4>3. {k \in Siblings(nc, i) : k > i} = S \cup {n + 1}
        BY <4>1, <4>2
      <4>4. \A k \in Kids(nb, at) : k \in 1 .. n
        BY <1>1
      <4>5. i \in Kids(nb, at)
        BY <1>1, <2>2, <3>4
      <4>6. CASE S = {}
        <5>1. \A m \in Kids(nb, at) : m <= i
          BY <4>1, <4>2, <4>4, <4>6
        <5>2. nc[i].next = n + 1
          BY <1>6, <1>8, <2>2, <4>5, <5>1
        <5>3. {k \in Siblings(nc, i) : k > i} = {n + 1}
          BY <4>3, <4>6
        <5> QED
          BY <1>1, <5>2, <5>3 DEF IsFirst
      <4>7. CASE S # {}
        <5>1. PICK m \in Kids(nb, at) : m > i
          BY <4>1, <4>7
        <5>2. ~ (m <= i)
          BY <4>2, <4>4, <5>1
        <5>3. nc[i].next = nb[i].next
          BY <1>6, <1>8, <2>2, <5>2
        <5>4. nb[i].next \in S /\ \A y \in S : nb[i].next <= y
          BY <3>1, <4>7 DEF IsFirst
        <5>5. nb[i].next <= n + 1
          BY <1>1, <4>1, <4>4, <5>4
        <5> HIDE DEF S
        <5> QED
          BY <4>3, <5>3, <5>4, <5>5 DEF IsFirst
      <4> QED
        BY <4>6, <4>7
    <3> QED
      BY <3>3, <3>4
  <2> QED
    BY <1>9, <2>1, <2>2
<1>14. ASSUME NEW i \in 1 .. n + 1, NEW j \in Siblings(nc, i),
              nc[i].c = nc[j].c
       PROVE  i = j
  <2>1. nc[n + 1].c = c /\ nc[n + 1].parent = at
    BY <1>3
  <2>2. \A k \in 1 .. n : nc[k].c = nb[k].c /\ nc[k].parent = nb[k].parent
    BY <1>6, <1>8
  <2>3. \A k \in 1 .. n : nb[k].parent \in 0 .. n
    BY <1>4, <1>8
  <2>4. CASE i = n + 1
    <3>1. j \in Kids(nb, at) \cup {n + 1}
      BY <1>2, <2>1, <2>4 DEF Siblings
    <3>2. \A k \in Kids(nb, at) : k \in 1 .. n
      BY <1>1
    <3> QED
      BY <1>14, <2>1, <2>2, <2>4, <3>1, <3>2
  <2>5. CASE i \in 1 .. n /\ nb[i].parent = at
    <3>1. j \in Kids(nb, at) \cup {n + 1} /\ i \in Kids(nb, at)
      BY <1>1, <1>2, <2>2, <2>5 DEF Siblings
    <3>2. \A k \in Kids(nb, at) : k \in 1 .. n
      BY <1>1
    <3>3. CASE j \in Kids(nb, at)
      <4>1. j \in Siblings(nb, i) /\ nb[i].c = nb[j].c
        BY <1>14, <2>2, <2>5, <3>2, <3>3 DEF Siblings
      <4> QED
        BY <2>5, <4>1 DEF Sound
    <3>4. CASE j = n + 1
      BY <1>14, <2>1, <2>2, <2>5, <3>1, <3>4
    <3> QED
      BY <3>1, <3>3, <3>4
  <2>6. CASE i \in 1 .. n /\ nb[i].parent # at
    <3>1. Siblings(nc, i) = Siblings(nb, i)
      BY <1>2, <2>2, <2>3, <2>6 DEF Siblings
    <3>2. j \in 1 .. n
      BY <1>1, <3>1 DEF Siblings
    <3>3. nb[i].c = nb[j].c
      BY <1>14, <2>2, <2>6, <3>2
    <3> QED
      BY <2>6, <3>1, <3>3 DEF Sound
  <2> QED
    BY <1>9, <2>4, <2>5, <2>6
<1>15. n + 1 \in Nat
  BY <1>1
<1> QED
  BY <1>10, <1>11, <1>12, <1>13, <1>14, <1>15 DEF Sound

(* The nodes that were there keep their place and character, and then      *)
(* their attribute too.                                                    *)
Larger(nb, nc) ==
  /\ DOMAIN nb \subseteq DOMAIN nc
  /\ \A k \in DOMAIN nb :
       nc[k].parent = nb[k].parent /\ nc[k].c = nb[k].c

Grown(nb, nc) ==
  /\ Larger(nb, nc)
  /\ \A k \in DOMAIN nb : nc[k].attribute = nb[k].attribute

LEMMA Interval ==
  ASSUME NEW n \in Nat
  PROVE  Cardinality(0 .. n) = n + 1
BY FS_Interval

LEMMA PutLast ==
  ASSUME NEW nb, NEW n, Sound(nb, n), NEW node
  PROVE  LET more == Push(nb, node)
         IN /\ LastNode(more) = n + 1
            /\ more = [i \in 0 .. n + 1 |-> IF i = n + 1 THEN node ELSE nb[i]]
<1>1. n \in Nat /\ n + 1 \in Nat /\ DOMAIN nb = 0 .. n
  BY KidsAre
<1>2. Push(nb, node) =
        [i \in 0 .. n + 1 |-> IF i \in DOMAIN nb THEN nb[i] ELSE node]
  BY <1>1, Interval DEF Push
<1>3. \A i \in 0 .. n + 1 : i \in DOMAIN nb <=> i # n + 1
  BY <1>1
<1>4. Push(nb, node) =
        [i \in 0 .. n + 1 |-> IF i = n + 1 THEN node ELSE nb[i]]
  BY <1>2, <1>3
<1>5. DOMAIN Push(nb, node) = 0 .. n + 1
  BY <1>4
<1>6. Cardinality(0 .. n + 1) = n + 2
  <2>1. \A x \in Nat : Cardinality(0 .. x) = x + 1
    BY Interval
  <2>2. Cardinality(0 .. n + 1) = (n + 1) + 1
    BY <1>1, <2>1
  <2> QED
    BY <1>1, <2>2
<1>7. LastNode(Push(nb, node)) = n + 1
  BY <1>1, <1>5, <1>6 DEF LastNode
<1> QED
  BY <1>4, <1>7

LEMMA ChildByIs ==
  ASSUME NEW nb, NEW n, Sound(nb, n), NEW at \in 0 .. n, NEW c
  PROVE  ChildBy(nb, at, c) = {k \in Kids(nb, at) : nb[k].c = c}
BY ChildrenOf DEF ChildBy, Lists

(* What add_child makes of the trie nb, at the node at.                    *)
Added(nb, at, c, attribute, nc, to, m) ==
  /\ add_child([nb |-> nb, at |-> at], c, attribute) =
       [nb |-> nc, at |-> to]
  /\ Sound(nc, m) /\ to \in 1 .. m
  /\ nc[to].parent = at /\ nc[to].c = c
  /\ Grown(nb, nc)
  /\ \A k \in DOMAIN nc \ DOMAIN nb : k = to /\ nc[k].attribute = attribute

LEMMA AddChild ==
  ASSUME NEW nb, NEW n, Sound(nb, n), NEW at \in 0 .. n, NEW c \in Nat,
         NEW attribute \in Nat
  PROVE  \E nc, to, m : Added(nb, at, c, attribute, nc, to, m)
<1> DEFINE found == ChildBy(nb, at, c)
           list  == Children(nb, at)
           more  == Push(nb, Node(at, c, attribute))
           new   == LastNode(more)
           nc    == IF list = <<>>
                    THEN [more EXCEPT ![at].first_child = new]
                    ELSE [more EXCEPT ![Last(list)].next = new]
<1>1. add_child([nb |-> nb, at |-> at], c, attribute) =
        IF found # {}
        THEN [nb |-> nb, at |-> CHOOSE k \in found : TRUE]
        ELSE [nb |-> nc, at |-> new]
  <2>1. PICK r : r = [nb |-> nb, at |-> at]
    OBVIOUS
  <2>2. r.nb = nb /\ r.at = at
        /\ \A x : [r EXCEPT !.at = x] = [nb |-> nb, at |-> x]
    BY <2>1
  <2> HIDE DEF found, new, nc
  <2>3. add_child(r, c, attribute) =
          IF found # {} THEN [r EXCEPT !.at = CHOOSE k \in found : TRUE]
          ELSE [nb |-> nc, at |-> new]
    BY <2>2, Zenon DEF add_child, found, list, more, new, nc
  <2> QED
    BY <2>1, <2>2, <2>3
<1>2. n \in Nat /\ DOMAIN nb = 0 .. n
      /\ Kids(nb, at) = {k \in 1 .. n : nb[k].parent = at}
  BY KidsAre
<1>3. found = {k \in Kids(nb, at) : nb[k].c = c}
  BY ChildByIs
<1>4. Lists(list, Kids(nb, at), n)
  BY ChildrenOf
<1> HIDE DEF found, list
<1>5. CASE found # {}
  <2>1. PICK k : k = CHOOSE j \in found : TRUE
    OBVIOUS
  <2>2. k \in found
    BY <1>5, <2>1
  <2>3. k \in 1 .. n /\ nb[k].parent = at /\ nb[k].c = c
    BY <1>2, <1>3, <2>2
  <2>4. Grown(nb, nb) /\ DOMAIN nb \ DOMAIN nb = {}
    BY DEF Grown, Larger
  <2>5. add_child([nb |-> nb, at |-> at], c, attribute) =
          [nb |-> nb, at |-> k]
    BY <1>1, <1>5, <2>1
  <2>6. Added(nb, at, c, attribute, nb, k, n)
    BY <2>3, <2>4, <2>5 DEF Added
  <2> QED
    BY <2>6
<1>6. CASE found = {}
  <2> DEFINE node == Node(at, c, attribute)
  <2>1. /\ new = n + 1
        /\ more = [i \in 0 .. n + 1 |-> IF i = n + 1 THEN node ELSE nb[i]]
    BY PutLast
  <2>2. at # n + 1 /\ at \in 0 .. n + 1 /\ n + 1 \in 0 .. n + 1
        /\ \A i \in 0 .. n : i \in 0 .. n + 1 /\ i # n + 1
    BY <1>2
  <2>3. \A i \in 0 .. n :
          nb[i] = [parent |-> nb[i].parent, first_child |-> nb[i].first_child,
                   next |-> nb[i].next, c |-> nb[i].c,
                   attribute |-> nb[i].attribute]
    BY DEF Sound, Sized
  <2> HIDE DEF more, new
  <2>4. Linked(nb, n, nc, at, c, attribute)
    <3>1. CASE list = <<>>
      <4>1. Kids(nb, at) = {}
        BY <1>4, <3>1 DEF Lists
      <4>2. nc = [more EXCEPT ![at].first_child = n + 1]
        BY <2>1, <3>1
      <4> HIDE DEF nc, node
      <4>3. /\ nc = [i \in 0 .. n + 1 |-> nc[i]]
            /\ nc[n + 1] = node
            /\ nc[at] = [nb[at] EXCEPT !.first_child = n + 1]
            /\ \A i \in 0 .. n : i # at => nc[i] = nb[i]
        BY <2>1, <2>2, <4>2
      <4>4. \A i \in 0 .. n :
              /\ i # at => FirstLinked(nb, n, at, i) = nb[i].first_child
              /\ i = at => FirstLinked(nb, n, at, i) = n + 1
              /\ NextLinked(nb, n, at, i) = nb[i].next
        BY <4>1 DEF FirstLinked, NextLinked
      <4>5. nc[at] = [parent |-> nb[at].parent, first_child |-> n + 1,
                      next |-> nb[at].next, c |-> nb[at].c,
                      attribute |-> nb[at].attribute]
        BY <2>3, <4>3
      <4>6. ASSUME NEW i \in 0 .. n
            PROVE  nc[i] = [parent |-> nb[i].parent,
                            first_child |-> FirstLinked(nb, n, at, i),
                            next |-> NextLinked(nb, n, at, i),
                            c |-> nb[i].c, attribute |-> nb[i].attribute]
        BY <2>3, <4>3, <4>4, <4>5
      <4> QED
        BY <4>3, <4>6 DEF Linked, node
    <3>2. CASE list # <<>>
      <4>1. Kids(nb, at) # {}
        BY <1>4, <3>2 DEF Lists
      <4>2. PICK x : x = Last(list)
        OBVIOUS
      <4>3. x \in Kids(nb, at) /\ \A m \in Kids(nb, at) : m <= x
        BY <1>4, <4>1, <4>2 DEF Lists
      <4>4. x \in 0 .. n
        BY <1>2, <4>3
      <4>5. nc = [more EXCEPT ![x].next = n + 1]
        BY <2>1, <3>2, <4>2
      <4> HIDE DEF nc, node
      <4>6. /\ nc = [i \in 0 .. n + 1 |-> nc[i]]
            /\ nc[n + 1] = node
            /\ nc[x] = [nb[x] EXCEPT !.next = n + 1]
            /\ \A i \in 0 .. n : i # x => nc[i] = nb[i]
        BY <2>1, <2>2, <4>4, <4>5
      <4>7. \A i \in 0 .. n : i # x =>
              ~(i \in Kids(nb, at) /\ \A m \in Kids(nb, at) : m <= i)
        BY <1>2, <4>3, <4>4
      <4>8. \A i \in 0 .. n :
              /\ FirstLinked(nb, n, at, i) = nb[i].first_child
              /\ i = x => NextLinked(nb, n, at, i) = n + 1
              /\ i # x => NextLinked(nb, n, at, i) = nb[i].next
        BY <4>1, <4>3, <4>7 DEF FirstLinked, NextLinked
      <4>9. nc[x] = [parent |-> nb[x].parent,
                     first_child |-> nb[x].first_child, next |-> n + 1,
                     c |-> nb[x].c, attribute |-> nb[x].attribute]
        BY <2>3, <4>4, <4>6
      <4>10. ASSUME NEW i \in 0 .. n
             PROVE  nc[i] = [parent |-> nb[i].parent,
                             first_child |-> FirstLinked(nb, n, at, i),
                             next |-> NextLinked(nb, n, at, i),
                             c |-> nb[i].c, attribute |-> nb[i].attribute]
        BY <2>3, <4>6, <4>8, <4>9
      <4> QED
        BY <4>6, <4>10 DEF Linked, node
    <3> QED
      BY <3>1, <3>2
  <2> HIDE DEF nc
  <2>5. \A k \in Kids(nb, at) : nb[k].c # c
    BY <1>3, <1>6
  <2>6. Sound(nc, n + 1)
    BY <2>4, <2>5, LinkedSound
  <2>7. DOMAIN nc = 0 .. n + 1
    BY <2>4 DEF Linked
  <2>8. nc[n + 1].parent = at /\ nc[n + 1].c = c
        /\ nc[n + 1].attribute = attribute
    BY <2>4 DEF Linked, Node
  <2>9. Grown(nb, nc)
    BY <1>2, <2>2, <2>4, <2>7, LinkedFields DEF Grown, Larger
  <2>10. \A k \in DOMAIN nc \ DOMAIN nb : k = n + 1
    BY <1>2, <2>7
  <2>11. n + 1 \in 1 .. n + 1
    BY <1>2
  <2>12. add_child([nb |-> nb, at |-> at], c, attribute) =
           [nb |-> nc, at |-> n + 1]
    BY <1>1, <1>6, <2>1
  <2>13. Added(nb, at, c, attribute, nc, n + 1, n + 1)
    BY <2>6, <2>8, <2>9, <2>10, <2>11, <2>12 DEF Added
  <2> QED
    BY <2>13
<1> QED
  BY <1>5, <1>6

-----------------------------------------------------------------------------
(* get_string.                                                             *)

IsUp(nb, f) ==
  f = [k \in DOMAIN nb |->
         IF k = 0 THEN <<>> ELSE Append(f[nb[k].parent], nb[k].c)]

LEMMA ParentIs ==
  ASSUME NEW nb, NEW n, Sound(nb, n), NEW k \in 1 .. n
  PROVE  nb[k].parent \in 0 .. k - 1 /\ nb[k].c \in Nat
<1>1. n \in Nat /\ k \in 0 .. n
  BY KidsAre
<1>2. nb[k].parent \in 0 .. n /\ nb[k].c \in Nat
  BY <1>1 DEF Sound, Sized
<1>3. nb[k].parent < k
  BY DEF Sound
<1> QED
  BY <1>1, <1>2, <1>3

LEMMA UpExists ==
  ASSUME NEW nb, NEW n, Sound(nb, n)
  PROVE  \E f : IsUp(nb, f)
<1> DEFINE Ups(m, g) ==
             g = [k \in 0 .. m |->
                    IF k = 0 THEN <<>> ELSE Append(g[nb[k].parent], nb[k].c)]
           T == {m \in 0 .. n : ~ \E g : Ups(m, g)}
<1>0. n \in Nat /\ DOMAIN nb = 0 .. n
  BY KidsAre
<1>1. CASE T = {}
  <2>1. PICK g : Ups(n, g)
    <3>1. n \in 0 .. n
      BY <1>0
    <3> QED
      BY <1>1, <3>1
  <2>2. IsUp(nb, g)
    BY <1>0, <2>1 DEF IsUp
  <2> QED
    BY <2>2
<1>2. CASE T # {}
  <2>0. T \subseteq Nat
    BY <1>0
  <2>1. PICK m \in T : \A y \in T : m <= y
    <3> HIDE DEF T
    <3> QED
      BY <1>2, <2>0, LeastOf
  <2>2. m \in 0 .. n /\ ~ \E g : Ups(m, g)
    OBVIOUS
  <2>3. CASE m = 0
    <3> DEFINE g == [k \in {0} |-> <<>>]
    <3>1. g = [k \in {0} |-> IF k = 0 THEN <<>>
                             ELSE Append(g[nb[k].parent], nb[k].c)]
      OBVIOUS
    <3>2. 0 .. 0 = {0}
      OBVIOUS
    <3>3. Ups(0, g)
      BY <3>1, <3>2
    <3> QED
      BY <2>2, <2>3, <3>3
  <2>4. CASE m # 0
    <3>1. m - 1 \in 0 .. n /\ ~(m <= m - 1)
      BY <1>0, <2>2, <2>4
    <3>2. PICK f : Ups(m - 1, f)
      BY <2>1, <3>1
    <3> DEFINE g == [k \in 0 .. m |->
                       IF k = m THEN Append(f[nb[m].parent], nb[m].c)
                       ELSE f[k]]
    <3>3. \A k \in 0 .. m - 1 :
            f[k] = IF k = 0 THEN <<>> ELSE Append(f[nb[k].parent], nb[k].c)
      BY <3>2
    <3>4. ASSUME NEW k \in 0 .. m, k # 0
          PROVE  nb[k].parent \in 0 .. m - 1 /\ (k # m => k \in 0 .. m - 1)
      <4>1. k \in 1 .. n
        BY <1>0, <2>2, <3>4
      <4>2. nb[k].parent \in 0 .. k - 1
        BY <4>1, ParentIs
      <4> QED
        BY <1>0, <2>2, <4>1, <4>2
    <3>5. ASSUME NEW k \in 0 .. m - 1 PROVE k \in 0 .. m /\ g[k] = f[k]
      <4>1. k \in 0 .. m /\ k # m
        BY <2>2
      <4> QED
        BY <4>1
    <3>6. \A k \in 0 .. m :
            g[k] = IF k = 0 THEN <<>> ELSE Append(g[nb[k].parent], nb[k].c)
      <4>1. ASSUME NEW k \in 0 .. m, k # 0
            PROVE  /\ g[k] = Append(f[nb[k].parent], nb[k].c)
                   /\ g[nb[k].parent] = f[nb[k].parent]
        BY <3>3, <3>4, <3>5, <4>1
      <4>2. 0 \in 0 .. m - 1
        BY <2>2, <2>4
      <4>3. g[0] = <<>>
        BY <3>3, <3>5, <4>2
      <4> QED
        BY <4>1, <4>3
    <3>7. Ups(m, g)
      BY <3>6
    <3> QED
      BY <2>2, <3>7
  <2> QED
    BY <2>3, <2>4
<1> QED
  BY <1>1, <1>2

LEMMA StringIs ==
  ASSUME NEW nb, NEW n, Sound(nb, n)
  PROVE  /\ get_string(nb, 0) = <<>>
         /\ \A i \in 1 .. n :
              get_string(nb, i) =
                Append(get_string(nb, nb[i].parent), nb[i].c)
<1>1. PICK f : f = CHOOSE g : IsUp(nb, g)
  OBVIOUS
<1>2. IsUp(nb, f)
  BY <1>1, UpExists
<1>3. \A i : get_string(nb, i) = f[i]
  BY <1>1 DEF get_string, IsUp
<1>4. n \in Nat /\ DOMAIN nb = 0 .. n
  BY KidsAre
<1>5. 0 \in DOMAIN nb /\ \A i \in 1 .. n : i \in DOMAIN nb /\ i # 0
  BY <1>4
<1>6. f[0] = <<>>
  BY <1>2, <1>5 DEF IsUp
<1>7. \A i \in 1 .. n : f[i] = Append(f[nb[i].parent], nb[i].c)
  BY <1>2, <1>5 DEF IsUp
<1> QED
  BY <1>3, <1>6, <1>7

LEMMA StringsAre ==
  ASSUME NEW nb, NEW n, Sound(nb, n), NEW i \in 0 .. n
  PROVE  get_string(nb, i) \in Seq(Nat)
<1> DEFINE T == {k \in 0 .. n : get_string(nb, k) \notin Seq(Nat)}
<1>0. n \in Nat
  BY KidsAre
<1>1. SUFFICES ASSUME T # {} PROVE FALSE
  OBVIOUS
<1>2. T \subseteq Nat
  BY <1>0
<1>3. PICK k \in T : \A y \in T : k <= y
  <2> HIDE DEF T
  <2> QED
    BY <1>1, <1>2, LeastOf
<1>4. k \in 0 .. n /\ get_string(nb, k) \notin Seq(Nat)
  OBVIOUS
<1> HIDE DEF T
<1>5. CASE k = 0
  <2>1. get_string(nb, 0) = <<>>
    BY StringIs
  <2>2. <<>> \in Seq(Nat)
    OBVIOUS
  <2> QED
    BY <1>4, <1>5, <2>1, <2>2
<1>6. CASE k # 0
  <2>1. k \in 1 .. n
    BY <1>4, <1>6
  <2>2. PICK p : p = nb[k].parent
    OBVIOUS
  <2>3. p \in 0 .. k - 1 /\ nb[k].c \in Nat
    BY <2>1, <2>2, ParentIs
  <2>4. p \in 0 .. n /\ ~(k <= p)
    BY <1>0, <2>1, <2>3
  <2>5. get_string(nb, p) \in Seq(Nat)
    BY <1>3, <2>4 DEF T
  <2>6. get_string(nb, k) = Append(get_string(nb, p), nb[k].c)
    BY <2>1, <2>2, StringIs
  <2> QED
    BY <1>4, <2>3, <2>5, <2>6
<1> QED
  BY <1>5, <1>6

LEMMA AppendedApart ==
  ASSUME NEW u \in Seq(Nat), NEW v \in Seq(Nat), NEW x \in Nat, NEW y \in Nat,
         Append(u, x) = Append(v, y)
  PROVE  u = v /\ x = y
BY AppendInjective

(* Two nodes have not the same string.                                     *)
LEMMA StringsApart ==
  ASSUME NEW nb, NEW n, Sound(nb, n), NEW i \in 0 .. n, NEW j \in 0 .. n,
         get_string(nb, i) = get_string(nb, j)
  PROVE  i = j
<1> DEFINE T == {k \in 0 .. n :
                   \E l \in 0 .. n :
                     l # k /\ get_string(nb, k) = get_string(nb, l)}
<1>0. n \in Nat
  BY KidsAre
<1>1. SUFFICES ASSUME T # {} PROVE FALSE
  OBVIOUS
<1>2. T \subseteq Nat
  BY <1>0
<1>3. PICK k \in T : \A y \in T : k <= y
  <2> HIDE DEF T
  <2> QED
    BY <1>1, <1>2, LeastOf
<1>4. k \in 0 .. n
  OBVIOUS
<1>5. PICK l \in 0 .. n : l # k /\ get_string(nb, k) = get_string(nb, l)
  OBVIOUS
<1>6. l \in T
  BY <1>4, <1>5
<1>7. k <= l
  BY <1>3, <1>6
<1>8. l \in 1 .. n
  BY <1>0, <1>4, <1>5, <1>7
<1>9. PICK q, y : q = nb[l].parent /\ y = nb[l].c
  OBVIOUS
<1>10. q \in 0 .. l - 1 /\ y \in Nat
  BY <1>8, <1>9, ParentIs
<1>11. q \in 0 .. n
  BY <1>0, <1>8, <1>10
<1>12. get_string(nb, l) = Append(get_string(nb, q), y)
  BY <1>8, <1>9, StringIs
<1>13. get_string(nb, q) \in Seq(Nat)
  BY <1>11, StringsAre
<1>14. k # 0
  <2>1. Append(get_string(nb, q), y) # <<>>
    BY <1>10, <1>13
  <2> QED
    BY <1>5, <1>12, <2>1, StringIs
<1>15. k \in 1 .. n
  BY <1>4, <1>14
<1>16. PICK p, x : p = nb[k].parent /\ x = nb[k].c
  OBVIOUS
<1>17. p \in 0 .. k - 1 /\ x \in Nat
  BY <1>15, <1>16, ParentIs
<1>18. p \in 0 .. n /\ ~(k <= p)
  BY <1>0, <1>15, <1>17
<1>19. get_string(nb, k) = Append(get_string(nb, p), x)
  BY <1>15, <1>16, StringIs
<1>20. get_string(nb, p) \in Seq(Nat)
  BY <1>18, StringsAre
<1>21. get_string(nb, p) = get_string(nb, q) /\ x = y
  <2>1. PICK u, v : u = get_string(nb, p) /\ v = get_string(nb, q)
    OBVIOUS
  <2>2. Append(u, x) = Append(v, y)
    BY <1>5, <1>12, <1>19, <2>1
  <2>3. u = v /\ x = y
    <3>1. u \in Seq(Nat) /\ v \in Seq(Nat)
      BY <1>13, <1>20, <2>1
    <3> QED
      BY <1>10, <1>17, <2>2, <3>1, AppendedApart
  <2> QED
    BY <2>1, <2>3
<1>22. p = q
  <2>1. p \notin T
    BY <1>3, <1>18
  <2> QED
    BY <1>11, <1>18, <1>21, <2>1
<1>23. l \in Siblings(nb, k) /\ nb[k].c = nb[l].c
  BY <1>8, <1>9, <1>16, <1>21, <1>22, KidsAre DEF Siblings
<1>24. k = l
  BY <1>15, <1>23 DEF Sound
<1> QED
  BY <1>5, <1>24

(* A node keeps its string when the trie grows.                            *)
LEMMA StringsKept ==
  ASSUME NEW nb, NEW n, Sound(nb, n), NEW nc, NEW m, Sound(nc, m),
         Larger(nb, nc), NEW i \in 0 .. n
  PROVE  get_string(nc, i) = get_string(nb, i)
<1> DEFINE T == {k \in 0 .. n : get_string(nc, k) # get_string(nb, k)}
<1>0. n \in Nat /\ DOMAIN nb = 0 .. n /\ m \in Nat /\ DOMAIN nc = 0 .. m
  BY KidsAre
<1>1. SUFFICES ASSUME T # {} PROVE FALSE
  OBVIOUS
<1>2. T \subseteq Nat
  BY <1>0
<1>3. PICK k \in T : \A y \in T : k <= y
  <2> HIDE DEF T
  <2> QED
    BY <1>1, <1>2, LeastOf
<1>4. k \in 0 .. n /\ get_string(nc, k) # get_string(nb, k)
  OBVIOUS
<1>5. k # 0
  BY <1>4, StringIs
<1>6. k \in 1 .. n
  BY <1>4, <1>5
<1>7. PICK p, x : p = nb[k].parent /\ x = nb[k].c
  OBVIOUS
<1>8. p = nc[k].parent /\ x = nc[k].c
  BY <1>0, <1>4, <1>7 DEF Larger
<1>9. k \in 1 .. m
  <2>1. k \in 0 .. m
    BY <1>0, <1>4 DEF Larger
  <2> QED
    BY <1>5, <2>1
<1>10. p \in 0 .. k - 1
  BY <1>6, <1>7, ParentIs
<1>11. p \in 0 .. n /\ ~(k <= p)
  BY <1>0, <1>6, <1>10
<1>12. get_string(nc, p) = get_string(nb, p)
  BY <1>3, <1>11
<1>13. get_string(nb, k) = Append(get_string(nb, p), x)
  BY <1>6, <1>7, StringIs
<1>14. get_string(nc, k) = Append(get_string(nc, p), x)
  BY <1>8, <1>9, StringIs
<1> QED
  BY <1>4, <1>12, <1>13, <1>14

-----------------------------------------------------------------------------
(* insert.                                                                 *)

IsWay(nb, s, default, f) ==
  f = [k \in 0 .. Len(s) |->
         IF k = 0 THEN [nb |-> nb, at |-> 0]
         ELSE add_child(f[k - 1], s[k], default)]

LEMMA WayExists ==
  ASSUME NEW nb, NEW s, NEW default, Len(s) \in Nat
  PROVE  \E f : IsWay(nb, s, default, f)
<1> DEFINE n == Len(s)
           root == [nb |-> nb, at |-> 0]
           Ways(m, g) ==
             g = [k \in 0 .. m |->
                    IF k = 0 THEN root
                    ELSE add_child(g[k - 1], s[k], default)]
           T == {m \in 0 .. n : ~ \E g : Ways(m, g)}
<1> HIDE DEF n, root
<1>0. n \in Nat
  BY DEF n
<1>1. CASE T = {}
  <2>1. PICK g : Ways(n, g)
    <3>1. n \in 0 .. n
      BY <1>0
    <3> QED
      BY <1>1, <3>1
  <2>2. IsWay(nb, s, default, g)
    BY <2>1 DEF IsWay, n, root
  <2> QED
    BY <2>2
<1>2. CASE T # {}
  <2>0. T \subseteq Nat
    BY <1>0
  <2>1. PICK m \in T : \A y \in T : m <= y
    <3> HIDE DEF T
    <3> QED
      BY <1>2, <2>0, LeastOf
  <2>2. m \in 0 .. n /\ ~ \E g : Ways(m, g)
    OBVIOUS
  <2>3. CASE m = 0
    <3> DEFINE g == [k \in {0} |-> root]
    <3>1. g = [k \in {0} |-> IF k = 0 THEN root
                             ELSE add_child(g[k - 1], s[k], default)]
      OBVIOUS
    <3>2. 0 .. 0 = {0}
      OBVIOUS
    <3>3. Ways(0, g)
      BY <3>1, <3>2
    <3> QED
      BY <2>2, <2>3, <3>3
  <2>4. CASE m # 0
    <3>1. m - 1 \in 0 .. n /\ ~(m <= m - 1)
      BY <1>0, <2>2, <2>4
    <3>2. PICK f : Ways(m - 1, f)
      BY <2>1, <3>1
    <3> DEFINE g == [k \in 0 .. m |->
                       IF k = m THEN add_child(f[m - 1], s[m], default)
                       ELSE f[k]]
    <3>3. \A k \in 0 .. m - 1 :
            f[k] = IF k = 0 THEN root
                   ELSE add_child(f[k - 1], s[k], default)
      BY <3>2
    <3>4. ASSUME NEW k \in 0 .. m, k # 0
          PROVE  k - 1 \in 0 .. m - 1 /\ (k # m => k \in 0 .. m - 1)
      BY <1>0, <2>2, <3>4
    <3>5. ASSUME NEW k \in 0 .. m - 1 PROVE k \in 0 .. m /\ g[k] = f[k]
      <4>1. k \in 0 .. m /\ k # m
        BY <2>2
      <4> QED
        BY <4>1
    <3>6. \A k \in 0 .. m :
            g[k] = IF k = 0 THEN root
                   ELSE add_child(g[k - 1], s[k], default)
      <4>1. ASSUME NEW k \in 0 .. m, k # 0
            PROVE  /\ g[k] = add_child(f[k - 1], s[k], default)
                   /\ g[k - 1] = f[k - 1]
        BY <3>3, <3>4, <3>5, <4>1
      <4>2. 0 \in 0 .. m - 1
        BY <2>2, <2>4
      <4>3. g[0] = root
        BY <3>3, <3>5, <4>2
      <4> QED
        BY <4>1, <4>3
    <3>7. Ways(m, g)
      BY <3>6
    <3> QED
      BY <2>2, <3>7
  <2> QED
    BY <2>3, <2>4
<1> QED
  BY <1>1, <1>2

(* The trie nc is nb with the first l characters of s, which end at to.    *)
Inserted(nb, s, default, l, nc, to, m) ==
  /\ Sound(nc, m) /\ to \in 0 .. m
  /\ get_string(nc, to) = SubSeq(s, 1, l)
  /\ Grown(nb, nc)
  /\ \A k \in DOMAIN nc \ DOMAIN nb :
       /\ nc[k].attribute = default
       /\ \E j \in 0 .. l : get_string(nc, k) = SubSeq(s, 1, j)

LEMMA GrownOn ==
  ASSUME NEW nb, NEW nc, NEW nd, Grown(nb, nc), Grown(nc, nd)
  PROVE  Grown(nb, nd)
BY DEF Grown, Larger

LEMMA OneMore ==
  ASSUME NEW s \in Seq(Nat), NEW l \in 1 .. Len(s)
  PROVE  /\ SubSeq(s, 1, l) = Append(SubSeq(s, 1, l - 1), s[l])
         /\ s[l] \in Nat
OBVIOUS

LEMMA InsertStep ==
  ASSUME NEW nb, NEW n, Sound(nb, n), NEW s \in Seq(Nat), NEW default \in Nat,
         NEW l \in 1 .. Len(s), NEW nc, NEW to, NEW m,
         Inserted(nb, s, default, l - 1, nc, to, m)
  PROVE  \E nd, tp, q :
           /\ add_child([nb |-> nc, at |-> to], s[l], default) =
                [nb |-> nd, at |-> tp]
           /\ Inserted(nb, s, default, l, nd, tp, q)
<1>1. Sound(nc, m) /\ to \in 0 .. m /\ Grown(nb, nc)
      /\ get_string(nc, to) = SubSeq(s, 1, l - 1)
  BY DEF Inserted
<1>2. s[l] \in Nat
  BY OneMore
<1>3. PICK nd, tp, q :
        /\ add_child([nb |-> nc, at |-> to], s[l], default) =
             [nb |-> nd, at |-> tp]
        /\ Sound(nd, q) /\ tp \in 1 .. q
        /\ nd[tp].parent = to /\ nd[tp].c = s[l]
        /\ Grown(nc, nd)
        /\ \A k \in DOMAIN nd \ DOMAIN nc :
             k = tp /\ nd[k].attribute = default
  <2>1. \E nd, tp, q : Added(nc, to, s[l], default, nd, tp, q)
    BY <1>1, <1>2, AddChild
  <2> QED
    BY <2>1 DEF Added
<1>4. DOMAIN nc = 0 .. m /\ m \in Nat /\ q \in Nat
  BY <1>1, <1>3, KidsAre
<1>5. \A k \in 0 .. m : get_string(nd, k) = get_string(nc, k)
  BY <1>1, <1>3, StringsKept DEF Grown
<1>6. get_string(nd, tp) = SubSeq(s, 1, l)
  <2>1. get_string(nd, tp) = Append(get_string(nd, to), s[l])
    BY <1>3, StringIs
  <2> QED
    BY <1>1, <1>5, <2>1, OneMore
<1>7. Grown(nb, nd)
  BY <1>1, <1>3, GrownOn
<1>8. ASSUME NEW k \in DOMAIN nd \ DOMAIN nb
      PROVE  /\ nd[k].attribute = default
             /\ \E j \in 0 .. l : get_string(nd, k) = SubSeq(s, 1, j)
  <2>1. CASE k \in DOMAIN nc
    <3>1. nc[k].attribute = default
          /\ \E j \in 0 .. l - 1 : get_string(nc, k) = SubSeq(s, 1, j)
      BY <1>8, <2>1 DEF Inserted
    <3>2. nd[k].attribute = default /\ get_string(nd, k) = get_string(nc, k)
      BY <1>3, <1>4, <1>5, <2>1, <3>1 DEF Grown
    <3>3. \A j \in 0 .. l - 1 : j \in 0 .. l
      OBVIOUS
    <3> QED
      BY <3>1, <3>2, <3>3
  <2>2. CASE k \notin DOMAIN nc
    <3>1. k = tp /\ nd[k].attribute = default
      BY <1>3, <1>8, <2>2
    <3>2. l \in 0 .. l
      OBVIOUS
    <3> QED
      BY <1>6, <3>1, <3>2
  <2> QED
    BY <2>1, <2>2
<1>9. tp \in 0 .. q
  BY <1>3, <1>4
<1>10. Inserted(nb, s, default, l, nd, tp, q)
  BY <1>3, <1>6, <1>7, <1>8, <1>9 DEF Inserted
<1> QED
  BY <1>3, <1>10

LEMMA InsertIs ==
  ASSUME NEW nb, NEW n, Sound(nb, n), NEW s \in Seq(Nat), NEW default \in Nat
  PROVE  \E nc, to, m :
           /\ insert(nb, s, default) = [nb |-> nc, at |-> to]
           /\ Inserted(nb, s, default, Len(s), nc, to, m)
<1>0. Len(s) \in Nat /\ n \in Nat
  BY KidsAre
<1>1. PICK f : f = CHOOSE g : IsWay(nb, s, default, g)
  OBVIOUS
<1>2. IsWay(nb, s, default, f)
  BY <1>0, <1>1, WayExists
<1>3. insert(nb, s, default) = f[Len(s)]
  BY <1>1 DEF insert, IsWay
<1> DEFINE Good(l) == \E nc, to, m :
                        /\ f[l] = [nb |-> nc, at |-> to]
                        /\ Inserted(nb, s, default, l, nc, to, m)
           T == {l \in 0 .. Len(s) : ~Good(l)}
<1>4. Good(0)
  <2>1. f[0] = [nb |-> nb, at |-> 0]
    <3>1. 0 \in 0 .. Len(s)
      BY <1>0
    <3> QED
      BY <1>2, <3>1 DEF IsWay
  <2>2. Grown(nb, nb) /\ DOMAIN nb \ DOMAIN nb = {}
    BY DEF Grown, Larger
  <2>3. get_string(nb, 0) = SubSeq(s, 1, 0)
    <3>1. SubSeq(s, 1, 0) = <<>>
      OBVIOUS
    <3> QED
      BY <3>1, StringIs
  <2>4. 0 \in 0 .. n
    BY <1>0
  <2>5. Inserted(nb, s, default, 0, nb, 0, n)
    BY <2>2, <2>3, <2>4 DEF Inserted
  <2> QED
    BY <2>1, <2>5
<1>5. ASSUME NEW l \in 1 .. Len(s), Good(l - 1) PROVE Good(l)
  <2>1. PICK nc, to, m :
          /\ f[l - 1] = [nb |-> nc, at |-> to]
          /\ Inserted(nb, s, default, l - 1, nc, to, m)
    BY <1>5
  <2>2. f[l] = add_child(f[l - 1], s[l], default)
    <3>1. l \in 0 .. Len(s) /\ l # 0
      BY <1>0
    <3> QED
      BY <1>2, <3>1 DEF IsWay
  <2>3. PICK nd, tp, q :
          /\ add_child([nb |-> nc, at |-> to], s[l], default) =
               [nb |-> nd, at |-> tp]
          /\ Inserted(nb, s, default, l, nd, tp, q)
    BY <2>1, InsertStep
  <2> QED
    BY <2>1, <2>2, <2>3
<1>6. T = {}
  <2>1. SUFFICES ASSUME T # {} PROVE FALSE
    OBVIOUS
  <2>2. T \subseteq Nat
    BY <1>0
  <2>3. PICK l \in T : \A y \in T : l <= y
    <3> HIDE DEF T
    <3> QED
      BY <2>1, <2>2, LeastOf
  <2>4. l \in 0 .. Len(s) /\ ~Good(l)
    OBVIOUS
  <2> HIDE DEF Good
  <2>5. l # 0
    BY <1>4, <2>4
  <2>6. l \in 1 .. Len(s) /\ l - 1 \in 0 .. Len(s) /\ ~(l <= l - 1)
    BY <1>0, <2>4, <2>5
  <2>7. Good(l - 1)
    BY <2>3, <2>6
  <2> QED
    BY <1>5, <2>4, <2>6, <2>7
<1>7. Good(Len(s))
  <2>1. Len(s) \in 0 .. Len(s)
    BY <1>0
  <2> HIDE DEF Good
  <2> QED
    BY <1>6, <2>1
<1> QED
  BY <1>3, <1>7

-----------------------------------------------------------------------------
(* The literals.                                                           *)

LEMMA EmptySound == Sound(EmptyTrie, 0)
<1>1. DOMAIN EmptyTrie = {0} /\ 0 .. 0 = {0} /\ 1 .. 0 = {}
  BY DEF EmptyTrie
<1>2. EmptyTrie = [i \in 0 .. 0 |-> [parent |-> 0, first_child |-> 0,
                                     next |-> 0, c |-> 0, attribute |-> 0]]
  BY <1>1 DEF EmptyTrie, Node
<1>3. Kids(EmptyTrie, 0) = {}
  BY <1>1 DEF Kids
<1>4. EmptyTrie[0].first_child = 0
  BY <1>1, <1>2
<1>5. Sized(EmptyTrie, 0)
  BY <1>1, <1>2 DEF Sized
<1> QED
  BY <1>1, <1>3, <1>4, <1>5 DEF Sound, IsFirst

InternedInv ==
  /\ \E n : Sound(strs_trie, n)
  /\ \A p \in interned :
       p[2] \in DOMAIN strs_trie /\ get_string(strs_trie, p[2]) = p[1]

LEMMA WordsAre ==
  ASSUME NEW w \in Words
  PROVE  w \in Seq(Nat) /\ w # <<>> /\ SubSeq(w, 1, Len(w)) = w
<1>1. w \in Seq(Nat \ {0}) /\ w # <<>>
  BY TablesAssumption
<1>2. w \in Seq(Nat)
  BY <1>1
<1> QED
  BY <1>1, <1>2

(* A string is put into a trie.                                            *)
LEMMA StringInserted ==
  ASSUME NEW nb, NEW n, Sound(nb, n), NEW w \in Seq(Nat)
  PROVE  \E nc, to, m :
           /\ insert(nb, w, 0) = [nb |-> nc, at |-> to]
           /\ Sound(nc, m) /\ to \in DOMAIN nc /\ get_string(nc, to) = w
           /\ DOMAIN nb \subseteq DOMAIN nc
           /\ \A k \in DOMAIN nb : get_string(nc, k) = get_string(nb, k)
<1>1. SubSeq(w, 1, Len(w)) = w /\ 0 \in Nat
  OBVIOUS
<1>2. PICK nc, to, m : insert(nb, w, 0) = [nb |-> nc, at |-> to]
                       /\ Inserted(nb, w, 0, Len(w), nc, to, m)
  BY <1>1, InsertIs
<1>3. Sound(nc, m) /\ to \in 0 .. m /\ Grown(nb, nc)
      /\ get_string(nc, to) = w
  BY <1>1, <1>2 DEF Inserted
<1>4. DOMAIN nc = 0 .. m /\ DOMAIN nb = 0 .. n
  BY <1>3, KidsAre
<1>5. \A k \in 0 .. n : get_string(nc, k) = get_string(nb, k)
  BY <1>3, StringsKept DEF Grown
<1> QED
  BY <1>2, <1>3, <1>4, <1>5 DEF Grown, Larger

(* A literal is put into the trie of literals.                             *)
LEMMA WordInserted ==
  ASSUME NEW nb, NEW n, Sound(nb, n), NEW w \in Words
  PROVE  \E nc, to, m :
           /\ insert(nb, w, 0) = [nb |-> nc, at |-> to]
           /\ Sound(nc, m) /\ to \in DOMAIN nc /\ get_string(nc, to) = w
           /\ DOMAIN nb \subseteq DOMAIN nc
           /\ \A k \in DOMAIN nb : get_string(nc, k) = get_string(nb, k)
BY WordsAre, StringInserted

LEMMA InternedStep ==
  ASSUME InternedInv, NEW w \in Words,
         strs_trie' = insert(strs_trie, w, 0).nb,
         interned' = interned \cup {<<w, insert(strs_trie, w, 0).at>>}
  PROVE  InternedInv'
<1>1. PICK nb, n : nb = strs_trie /\ Sound(nb, n)
  BY DEF InternedInv
<1>2. PICK nc, to, m :
        /\ insert(nb, w, 0) = [nb |-> nc, at |-> to]
        /\ Sound(nc, m) /\ to \in DOMAIN nc /\ get_string(nc, to) = w
        /\ DOMAIN nb \subseteq DOMAIN nc
        /\ \A k \in DOMAIN nb : get_string(nc, k) = get_string(nb, k)
  BY <1>1, WordInserted
<1>3. strs_trie' = nc /\ interned' = interned \cup {<<w, to>>}
  BY <1>1, <1>2
<1>4. ASSUME NEW p \in interned'
      PROVE  p[2] \in DOMAIN nc /\ get_string(nc, p[2]) = p[1]
  <2>1. CASE p \in interned
    <3>1. p[2] \in DOMAIN nb /\ get_string(nb, p[2]) = p[1]
      BY <1>1, <2>1 DEF InternedInv
    <3> QED
      BY <1>2, <3>1
  <2>2. CASE p = <<w, to>>
    <3>1. p[1] = w /\ p[2] = to
      BY <2>2
    <3> QED
      BY <1>2, <3>1
  <2> QED
    BY <1>3, <2>1, <2>2
<1> QED
  BY <1>2, <1>3, <1>4 DEF InternedInv

(* string_literal, add_new_string: the trie of the literals stays sound,   *)
(* and each index that was given has its literal.                          *)
THEOREM InternedInvariant == Spec => []InternedInv
<1>1. Init => InternedInv
  <2> SUFFICES ASSUME Init PROVE InternedInv
    OBVIOUS
  <2>1. strs_trie = EmptyTrie /\ interned = {}
    BY DEF Init
  <2>2. Sound(strs_trie, 0)
    BY <2>1, EmptySound
  <2> QED
    BY <2>1, <2>2 DEF InternedInv
<1>2. InternedInv /\ [Next]_vars => InternedInv'
  <2> SUFFICES ASSUME InternedInv, [Next]_vars PROVE InternedInv'
    OBVIOUS
  <2>1. ASSUME UNCHANGED <<strs_trie, interned>> PROVE InternedInv'
    BY <2>1 DEF InternedInv
  <2>2. ASSUME NEW w \in Words, string_literal(w) PROVE InternedInv'
    <3>1. strs_trie' = insert(strs_trie, w, 0).nb
          /\ interned' = interned \cup {<<w, insert(strs_trie, w, 0).at>>}
      BY <2>2, Zenon DEF string_literal
    <3> QED
      BY <3>1, InternedStep
  <2>3. ASSUME NEW w \in Words, add_new_string(w) PROVE InternedInv'
    <3>1. strs_trie' = insert(strs_trie, w, 0).nb
          /\ interned' = interned \cup {<<w, insert(strs_trie, w, 0).at>>}
      BY <2>3, Zenon DEF add_new_string
    <3> QED
      BY <3>1, InternedStep
  <2>4. ASSUME NEW s \in CharSets, generate_automaton(s) PROVE InternedInv'
    BY <2>1, <2>4 DEF generate_automaton, defVars
  <2>5. CASE generate_delim_automaton_impl
    BY <2>1, <2>5, Zenon DEF generate_delim_automaton_impl, defVars
  <2>6. CASE generate_category_table
    BY <2>1, <2>6, Zenon DEF generate_category_table, defVars
  <2>7. ASSUME NEW c \in Texts, start_proc(c) PROVE InternedInv'
    BY <2>1, <2>7 DEF start_proc, defVars
  <2>8. CASE delimiter_begin
    BY <2>1, <2>8, Zenon DEF delimiter_begin, defVars
  <2>9. ASSUME NEW c \in Texts, delimiter_proc(c) PROVE InternedInv'
    BY <2>1, <2>9, Zenon DEF delimiter_proc, defVars
  <2>10. CASE delimiter_final_proc
    BY <2>1, <2>10 DEF delimiter_final_proc, defVars
  <2>11. CASE UNCHANGED vars
    BY <2>1, <2>11 DEF vars, defVars
  <2> QED
    BY <2>2, <2>3, <2>4, <2>5, <2>6, <2>7, <2>8, <2>9, <2>10, <2>11
       DEF Next
<1> QED
  BY <1>1, <1>2, PTL DEF Spec

(* Trie::insert: two literals have one index only if they are the same, in *)
(* whatever order they and their prefixes were met, and the index gives    *)
(* the literal back; for every set of literals.                            *)
THEOREM InternedAlways == Spec => []Interned
<1>1. InternedInv => Interned
  <2> SUFFICES ASSUME InternedInv, NEW p \in interned, NEW q \in interned
               PROVE  /\ p[1] = q[1] <=> p[2] = q[2]
                      /\ get_string(strs_trie, p[2]) = p[1]
    BY DEF Interned
  <2>1. PICK nb, n : nb = strs_trie /\ Sound(nb, n)
    BY DEF InternedInv
  <2>2. p[2] \in DOMAIN nb /\ q[2] \in DOMAIN nb
        /\ get_string(nb, p[2]) = p[1] /\ get_string(nb, q[2]) = q[1]
    BY <2>1 DEF InternedInv
  <2>3. p[2] \in 0 .. n /\ q[2] \in 0 .. n
    BY <2>1, <2>2, KidsAre
  <2>4. get_string(nb, p[2]) = get_string(nb, q[2]) => p[2] = q[2]
    BY <2>1, <2>3, StringsApart
  <2> QED
    BY <2>1, <2>2, <2>4
<1> QED
  BY <1>1, InternedInvariant, PTL

-----------------------------------------------------------------------------
(* The delimiters and their codes.                                         *)

(* del_repres lists each delimiter once, and strsc has a code for each.    *)
DelimInv ==
  /\ \A k \in DOMAIN del_repres : del_repres[k] \in DOMAIN strs_trie
  /\ \A k, l \in DOMAIN del_repres : del_repres[k] = del_repres[l] => k = l
  /\ Len(del_repres) \in Nat
  /\ DOMAIN del_repres = 1 .. Len(del_repres)
  /\ DOMAIN strsc = {del_repres[k] : k \in DOMAIN del_repres}
  /\ \A x \in DOMAIN strsc : strsc[x] \in Nat

LEMMA DelimStep ==
  ASSUME InternedInv, DelimInv, NEW w \in Words, add_new_string(w),
         del_repres \in Seq(Nat)
  PROVE  DelimInv'
<1>1. PICK nb, n : nb = strs_trie /\ Sound(nb, n)
  BY DEF InternedInv
<1>2. PICK nc, to, m :
        /\ insert(nb, w, 0) = [nb |-> nc, at |-> to]
        /\ Sound(nc, m) /\ to \in DOMAIN nc /\ get_string(nc, to) = w
        /\ DOMAIN nb \subseteq DOMAIN nc
        /\ \A k \in DOMAIN nb : get_string(nc, k) = get_string(nb, k)
  BY <1>1, WordInserted
<1>3. insert(strs_trie, w, 0).nb = nc /\ insert(strs_trie, w, 0).at = to
  BY <1>1, <1>2
<1>4. strs_trie' = nc
  BY <1>3, Zenon DEF add_new_string
<1>5. CASE to \in DOMAIN strsc
  <2>1. UNCHANGED <<strsc, del_repres>>
    BY <1>3, <1>5, Zenon DEF add_new_string
  <2> QED
    BY <1>1, <1>2, <1>4, <2>1 DEF DelimInv
<1>6. CASE to \notin DOMAIN strsc
  <2> DEFINE dr == del_repres
  <2>0. PICK number : number = UnknownCode + 1 + Len(del_repres)
    OBVIOUS
  <2>1. /\ strsc' = [x \in DOMAIN strsc \cup {to} |->
                       IF x \in DOMAIN strsc THEN strsc[x] ELSE number]
        /\ del_repres' = Append(del_repres, to)
    BY <1>3, <1>6, <2>0, Zenon DEF add_new_string
  <2>2. DOMAIN nc = 0 .. m /\ m \in Nat
    BY <1>2, KidsAre
  <2>3. to \in Nat
    BY <1>2, <2>2
  <2>4. Len(dr) \in Nat /\ DOMAIN dr = 1 .. Len(dr) /\ number \in Nat
    BY <2>0 DEF DelimInv, UnknownCode
  <2>5. /\ Len(del_repres') = Len(dr) + 1
        /\ DOMAIN del_repres' = 1 .. Len(dr) + 1
        /\ del_repres'[Len(dr) + 1] = to
        /\ \A k \in 1 .. Len(dr) : del_repres'[k] = dr[k]
    BY <2>1, <2>3
  <2>6. \A k \in 1 .. Len(dr) + 1 : k \in 1 .. Len(dr) \/ k = Len(dr) + 1
    BY <2>4
  <2>7. \A k \in 1 .. Len(dr) : k \in 1 .. Len(dr) + 1
    BY <2>4
  <2>8. Len(dr) + 1 \in 1 .. Len(dr) + 1 /\ Len(dr) + 1 \in Nat
    BY <2>4
  <2>9. /\ DOMAIN strsc' = DOMAIN strsc \cup {to}
        /\ \A x \in DOMAIN strsc : strsc'[x] = strsc[x]
        /\ strsc'[to] = number
    BY <1>6, <2>1
  <2>10. \A k \in 1 .. Len(dr) : dr[k] \in DOMAIN nb /\ dr[k] \in DOMAIN strsc
    BY <1>1, <2>4 DEF DelimInv
  <2>11. \A k \in 1 .. Len(dr) : dr[k] # to
    BY <1>6, <2>10
  <2>12. \A k \in 1 .. Len(dr) + 1 : del_repres'[k] \in DOMAIN nc
    BY <1>2, <2>5, <2>6, <2>10
  <2>13. ASSUME NEW k \in 1 .. Len(dr) + 1, NEW l \in 1 .. Len(dr) + 1,
                del_repres'[k] = del_repres'[l]
         PROVE  k = l
    <3>1. \A x, y \in 1 .. Len(dr) : dr[x] = dr[y] => x = y
      BY <2>4 DEF DelimInv
    <3> QED
      BY <2>5, <2>6, <2>11, <2>13, <3>1
  <2>14. DOMAIN strsc' = {del_repres'[k] : k \in 1 .. Len(dr) + 1}
    <3>1. DOMAIN strsc = {dr[k] : k \in 1 .. Len(dr)}
      BY <2>4 DEF DelimInv
    <3>2. ASSUME NEW x \in DOMAIN strsc'
          PROVE  \E k \in 1 .. Len(dr) + 1 : x = del_repres'[k]
      BY <2>5, <2>7, <2>8, <2>9, <3>1
    <3>3. ASSUME NEW k \in 1 .. Len(dr) + 1
          PROVE  del_repres'[k] \in DOMAIN strsc'
      BY <2>5, <2>6, <2>9, <3>1
    <3> QED
      BY <3>2, <3>3
  <2>15. \A x \in DOMAIN strsc' : strsc'[x] \in Nat
    <3>1. \A x \in DOMAIN strsc : strsc[x] \in Nat
      BY DEF DelimInv
    <3> QED
      BY <2>4, <2>9, <3>1
  <2> QED
    BY <1>4, <2>5, <2>8, <2>12, <2>13, <2>14, <2>15 DEF DelimInv
<1> QED
  BY <1>5, <1>6

-----------------------------------------------------------------------------
(* The trie of delimiters.                                                 *)

(* The trie nc is nb with another attribute at the node to.                *)
Attributed(nb, n, nc, to, attribute) ==
  /\ Sound(nc, n) /\ DOMAIN nc = DOMAIN nb /\ Larger(nb, nc)
  /\ nc[to].attribute = attribute
  /\ \A k \in 0 .. n : k # to => nc[k].attribute = nb[k].attribute

LEMMA AttributeSet ==
  ASSUME NEW nb, NEW n, Sound(nb, n), NEW to \in 0 .. n,
         NEW attribute \in Nat,
         NEW nc, nc = [nb EXCEPT ![to].attribute = attribute]
  PROVE  Attributed(nb, n, nc, to, attribute)
<1>1. n \in Nat /\ DOMAIN nb = 0 .. n
  BY KidsAre
<1>2. Sized(nb, n)
  BY DEF Sound
<1>3. nc = [k \in 0 .. n |-> nc[k]]
      /\ nc[to] = [nb[to] EXCEPT !.attribute = attribute]
      /\ \A k \in 0 .. n : k # to => nc[k] = nb[k]
  BY <1>1
<1>4. \A k \in 0 .. n :
        nb[k] = [parent |-> nb[k].parent, first_child |-> nb[k].first_child,
                 next |-> nb[k].next, c |-> nb[k].c,
                 attribute |-> nb[k].attribute]
  BY <1>2 DEF Sized
<1>5. nc[to] = [parent |-> nb[to].parent, first_child |-> nb[to].first_child,
                next |-> nb[to].next, c |-> nb[to].c,
                attribute |-> attribute]
  BY <1>3, <1>4
<1>6. \A k \in 0 .. n :
        /\ nc[k].parent = nb[k].parent /\ nc[k].c = nb[k].c
        /\ nc[k].first_child = nb[k].first_child /\ nc[k].next = nb[k].next
  BY <1>3, <1>5
<1>7. Sized(nc, n)
  <2> DEFINE R == [parent : 0 .. n, first_child : 0 .. n, next : 0 .. n,
                   c : Nat, attribute : Nat]
  <2>1. \A k \in 0 .. n : nb[k] \in R
    BY <1>2 DEF Sized
  <2>2. nc[to] \in R
    BY <1>5, <2>1
  <2>3. \A k \in 0 .. n : nc[k] \in R
    BY <1>3, <2>1, <2>2
  <2> HIDE DEF R
  <2>4. nc \in [0 .. n -> R]
    BY <1>3, <2>3
  <2> QED
    BY <2>4 DEF Sized, R
<1>8. DOMAIN nc = 0 .. n
  BY <1>3
<1>9. \A i : Kids(nc, i) = Kids(nb, i)
  <2>1. (0 .. n) \ {0} \subseteq 0 .. n
    OBVIOUS
  <2> QED
    BY <1>1, <1>6, <1>8, <2>1 DEF Kids
<1>10. \A k \in 1 .. n : k \in 0 .. n
  BY <1>1
<1>11. \A k \in 0 .. n : Siblings(nc, k) = Siblings(nb, k)
  BY <1>6, <1>9 DEF Siblings
<1>12. \A i \in 1 .. n : nc[i].parent < i
  BY <1>6, <1>10 DEF Sound
<1>13. \A i \in 0 .. n : IsFirst(nc[i].first_child, Kids(nc, i))
  <2>1. \A i \in 0 .. n : IsFirst(nb[i].first_child, Kids(nb, i))
    BY DEF Sound
  <2> QED
    BY <1>6, <1>9, <2>1
<1>14. ASSUME NEW i \in 1 .. n
       PROVE  IsFirst(nc[i].next, {k \in Siblings(nc, i) : k > i})
  <2>1. IsFirst(nb[i].next, {k \in Siblings(nb, i) : k > i})
    BY DEF Sound
  <2>2. nc[i].next = nb[i].next /\ Siblings(nc, i) = Siblings(nb, i)
    BY <1>6, <1>10, <1>11
  <2> QED
    BY <2>1, <2>2
<1>15. ASSUME NEW i \in 1 .. n, NEW j \in Siblings(nc, i),
              nc[i].c = nc[j].c
       PROVE  i = j
  <2>1. j \in Siblings(nb, i) /\ i \in 0 .. n
    BY <1>10, <1>11
  <2>2. j \in 0 .. n
    BY <1>1, <2>1, KidsAre DEF Siblings
  <2>3. nb[i].c = nb[j].c
    BY <1>6, <1>15, <2>1, <2>2
  <2> QED
    BY <2>1, <2>3 DEF Sound
<1>16. Sound(nc, n)
  BY <1>1, <1>7, <1>12, <1>13, <1>14, <1>15 DEF Sound
<1>17. Larger(nb, nc)
  BY <1>1, <1>6, <1>8 DEF Larger
<1>18. nc[to].attribute = attribute
       /\ \A k \in 0 .. n : k # to => nc[k].attribute = nb[k].attribute
  BY <1>3, <1>5
<1> QED
  BY <1>1, <1>8, <1>16, <1>17, <1>18 DEF Attributed

(* The tries that generate_delim_automaton_impl makes, a delimiter at a    *)
(* time: dr are the indices of the delimiters, ws their strings.           *)
IsTries(dr, ws, codes, f) ==
  f = [k \in 0 .. Len(dr) |->
         IF k = 0 THEN EmptyTrie
         ELSE insert_attributed(f[k - 1], ws[k], codes[dr[k]], UnknownCode)]

LEMMA TriesExist ==
  ASSUME NEW dr, NEW ws, NEW codes, Len(dr) \in Nat
  PROVE  \E f : IsTries(dr, ws, codes, f)
<1> DEFINE n == Len(dr)
           After(t, k) == insert_attributed(t, ws[k], codes[dr[k]], UnknownCode)
           Tried(m, g) ==
             g = [k \in 0 .. m |->
                    IF k = 0 THEN EmptyTrie ELSE After(g[k - 1], k)]
           T == {m \in 0 .. n : ~ \E g : Tried(m, g)}
<1> HIDE DEF n, After
<1>0. n \in Nat
  BY DEF n
<1>1. CASE T = {}
  <2>1. PICK g : Tried(n, g)
    <3>1. n \in 0 .. n
      BY <1>0
    <3> QED
      BY <1>1, <3>1
  <2>2. IsTries(dr, ws, codes, g)
    BY <2>1 DEF IsTries, n, After
  <2> QED
    BY <2>2
<1>2. CASE T # {}
  <2>0. T \subseteq Nat
    BY <1>0
  <2>1. PICK m \in T : \A y \in T : m <= y
    <3> HIDE DEF T
    <3> QED
      BY <1>2, <2>0, LeastOf
  <2>2. m \in 0 .. n /\ ~ \E g : Tried(m, g)
    OBVIOUS
  <2>3. CASE m = 0
    <3> DEFINE g == [k \in {0} |-> EmptyTrie]
    <3>1. g = [k \in {0} |-> IF k = 0 THEN EmptyTrie ELSE After(g[k - 1], k)]
      OBVIOUS
    <3>2. 0 .. 0 = {0}
      OBVIOUS
    <3>3. Tried(0, g)
      BY <3>1, <3>2
    <3> QED
      BY <2>2, <2>3, <3>3
  <2>4. CASE m # 0
    <3>1. m - 1 \in 0 .. n /\ ~(m <= m - 1)
      BY <1>0, <2>2, <2>4
    <3>2. PICK f : Tried(m - 1, f)
      BY <2>1, <3>1
    <3> DEFINE g == [k \in 0 .. m |->
                       IF k = m THEN After(f[m - 1], m) ELSE f[k]]
    <3>3. \A k \in 0 .. m - 1 :
            f[k] = IF k = 0 THEN EmptyTrie ELSE After(f[k - 1], k)
      BY <3>2
    <3>4. ASSUME NEW k \in 0 .. m, k # 0
          PROVE  k - 1 \in 0 .. m - 1 /\ (k # m => k \in 0 .. m - 1)
      BY <1>0, <2>2, <3>4
    <3>5. ASSUME NEW k \in 0 .. m - 1 PROVE k \in 0 .. m /\ g[k] = f[k]
      <4>1. k \in 0 .. m /\ k # m
        BY <2>2
      <4> QED
        BY <4>1
    <3>6. \A k \in 0 .. m :
            g[k] = IF k = 0 THEN EmptyTrie ELSE After(g[k - 1], k)
      <4>1. ASSUME NEW k \in 0 .. m, k # 0
            PROVE  g[k] = After(f[k - 1], k) /\ g[k - 1] = f[k - 1]
        BY <3>3, <3>4, <3>5, <4>1
      <4>2. 0 \in 0 .. m - 1
        BY <2>2, <2>4
      <4>3. g[0] = EmptyTrie
        BY <3>3, <3>5, <4>2
      <4> QED
        BY <4>1, <4>3
    <3>7. Tried(m, g)
      BY <3>6
    <3> QED
      BY <2>2, <3>7
  <2> QED
    BY <2>3, <2>4
<1> QED
  BY <1>1, <1>2

(* The trie of the first l strings: each of them is in it, and a node is   *)
(* the end of one and has its code, or begins one and has no code.         *)
Coded(dr, ws, codes, l, trie, n) ==
  /\ Sound(trie, n)
  /\ \A j \in 1 .. l : \E i \in 0 .. n : get_string(trie, i) = ws[j]
  /\ \A i \in 1 .. n :
       /\ \E j \in 1 .. l : IsPrefix(get_string(trie, i), ws[j])
       /\ \A j \in 1 .. l : get_string(trie, i) = ws[j]
                              => trie[i].attribute = codes[dr[j]]
       /\ (\A j \in 1 .. l : get_string(trie, i) # ws[j])
            => trie[i].attribute = UnknownCode

LEMMA BeginningIs ==
  ASSUME NEW s \in Seq(Nat), NEW j \in 0 .. Len(s)
  PROVE  IsPrefix(SubSeq(s, 1, j), s)
<1>1. SubSeq(s, 1, j) \in Seq(Nat) /\ Len(SubSeq(s, 1, j)) = j
  OBVIOUS
<1>2. SubSeq(SubSeq(s, 1, j), 1, j) = SubSeq(s, 1, j)
  OBVIOUS
<1> QED
  BY <1>1, <1>2 DEF IsPrefix

LEMMA CodedStep ==
  ASSUME NEW dr, NEW ws, NEW codes, NEW l \in Nat \ {0}, NEW trie, NEW n,
         Coded(dr, ws, codes, l - 1, trie, n),
         \A j \in 1 .. l : ws[j] \in Seq(Nat),
         \A j \in 1 .. l - 1 : ws[j] # ws[l],
         codes[dr[l]] \in Nat
  PROVE  \E m : Coded(dr, ws, codes, l,
                      insert_attributed(trie, ws[l], codes[dr[l]],
                                        UnknownCode), m)
<1>1. PICK s, a : s = ws[l] /\ a = codes[dr[l]]
  OBVIOUS
<1>2. s \in Seq(Nat) /\ a \in Nat /\ UnknownCode \in Nat
  <2>1. l \in 1 .. l
    OBVIOUS
  <2> QED
    BY <1>1, <2>1 DEF UnknownCode
<1>3. Sound(trie, n) /\ DOMAIN trie = 0 .. n /\ n \in Nat
  BY KidsAre DEF Coded
<1>4. PICK nc, to, m : insert(trie, s, UnknownCode) = [nb |-> nc, at |-> to]
                       /\ Inserted(trie, s, UnknownCode, Len(s), nc, to, m)
  BY <1>2, <1>3, InsertIs
<1>5. /\ Sound(nc, m) /\ to \in 0 .. m /\ Grown(trie, nc)
      /\ get_string(nc, to) = s
      /\ \A k \in DOMAIN nc \ DOMAIN trie :
           /\ nc[k].attribute = UnknownCode
           /\ \E j \in 0 .. Len(s) : get_string(nc, k) = SubSeq(s, 1, j)
  <2>1. SubSeq(s, 1, Len(s)) = s
    BY <1>2
  <2> QED
    BY <1>4, <2>1 DEF Inserted
<1>6. DOMAIN nc = 0 .. m /\ m \in Nat
  BY <1>5, KidsAre
<1>7. PICK nd : nd = [nc EXCEPT ![to].attribute = a]
  OBVIOUS
<1>8. /\ Sound(nd, m) /\ DOMAIN nd = DOMAIN nc /\ Larger(nc, nd)
      /\ nd[to].attribute = a
      /\ \A k \in 0 .. m : k # to => nd[k].attribute = nc[k].attribute
  <2>1. Sound(nc, m) /\ to \in 0 .. m /\ a \in Nat
    BY <1>2, <1>5
  <2>2. Attributed(nc, m, nd, to, a)
    BY <1>7, <2>1, AttributeSet
  <2> QED
    BY <2>2 DEF Attributed
<1>9. insert_attributed(trie, ws[l], codes[dr[l]], UnknownCode) = nd
  <2>1. PICK r : r = insert(trie, s, UnknownCode)
    OBVIOUS
  <2>2. r.nb = nc /\ r.at = to
    BY <1>4, <2>1
  <2>3. insert_attributed(trie, s, a, UnknownCode) =
          [r.nb EXCEPT ![r.at].attribute = a]
    BY <2>1 DEF insert_attributed
  <2> QED
    BY <1>1, <1>7, <2>2, <2>3
<1>10. \A i \in 0 .. m : get_string(nd, i) = get_string(nc, i)
  BY <1>5, <1>8, StringsKept
<1>11. \A i \in 0 .. n : i \in 0 .. m /\ get_string(nc, i) = get_string(trie, i)
  <2>1. Larger(trie, nc) /\ 0 .. n \subseteq 0 .. m
    BY <1>3, <1>5, <1>6 DEF Grown, Larger
  <2>2. \A i \in 0 .. n : get_string(nc, i) = get_string(trie, i)
    BY <1>3, <1>5, <2>1, StringsKept
  <2> QED
    BY <2>1, <2>2
<1>12. \A i \in 0 .. m : get_string(nc, i) = s => i = to
  BY <1>5, StringsApart
<1>13. \A j \in 1 .. l : j \in 1 .. l - 1 \/ (j = l /\ ws[j] = s)
  BY <1>1
<1>14. l \in 1 .. l /\ \A j \in 1 .. l - 1 : j \in 1 .. l /\ ws[j] # s
  BY <1>1
<1>15. ASSUME NEW j \in 1 .. l
       PROVE  \E i \in 0 .. m : get_string(nd, i) = ws[j]
  <2>1. CASE j \in 1 .. l - 1
    <3>1. PICK i \in 0 .. n : get_string(trie, i) = ws[j]
      BY <2>1 DEF Coded
    <3> QED
      BY <1>10, <1>11, <3>1
  <2>2. CASE ws[j] = s
    BY <1>5, <1>10, <2>2
  <2> QED
    BY <1>13, <2>1, <2>2
<1>16. ASSUME NEW i \in 1 .. m
       PROVE  /\ \E j \in 1 .. l : IsPrefix(get_string(nd, i), ws[j])
              /\ \A j \in 1 .. l : get_string(nd, i) = ws[j]
                                     => nd[i].attribute = codes[dr[j]]
              /\ (\A j \in 1 .. l : get_string(nd, i) # ws[j])
                   => nd[i].attribute = UnknownCode
  <2>0. i \in 0 .. m
    BY <1>6
  <2>1. CASE i = to
    <3>1. get_string(nd, i) = s /\ nd[i].attribute = a
      BY <1>5, <1>8, <1>10, <2>1
    <3>2. IsPrefix(s, ws[l])
      <4>1. SubSeq(s, 1, Len(s)) = s /\ Len(s) \in 0 .. Len(s)
        BY <1>2
      <4> QED
        BY <1>1, <1>2, <4>1, BeginningIs
    <3>3. \A j \in 1 .. l : s = ws[j] => j = l
      BY <1>13, <1>14
    <3> QED
      BY <1>1, <1>14, <3>1, <3>2, <3>3
  <2>2. CASE i # to /\ i \in 0 .. n
    <3>0. i \in 1 .. n
      BY <2>2
    <3>1. get_string(nd, i) = get_string(trie, i) /\ get_string(trie, i) # s
      BY <1>10, <1>11, <1>12, <2>0, <2>2
    <3>2. nd[i].attribute = trie[i].attribute
      BY <1>3, <1>5, <1>8, <2>0, <2>2 DEF Grown
    <3>3. /\ \E j \in 1 .. l - 1 : IsPrefix(get_string(trie, i), ws[j])
          /\ \A j \in 1 .. l - 1 : get_string(trie, i) = ws[j]
                                     => trie[i].attribute = codes[dr[j]]
          /\ (\A j \in 1 .. l - 1 : get_string(trie, i) # ws[j])
               => trie[i].attribute = UnknownCode
      BY <3>0 DEF Coded
    <3>4. \E j \in 1 .. l : IsPrefix(get_string(nd, i), ws[j])
      BY <1>14, <3>1, <3>3
    <3>5. \A j \in 1 .. l : get_string(nd, i) = ws[j]
                              => nd[i].attribute = codes[dr[j]]
      BY <1>13, <3>1, <3>2, <3>3
    <3>6. (\A j \in 1 .. l : get_string(nd, i) # ws[j])
            => nd[i].attribute = UnknownCode
      BY <1>14, <3>1, <3>2, <3>3
    <3> QED
      BY <3>4, <3>5, <3>6
  <2>3. CASE i # to /\ i \notin 0 .. n
    <3>1. i \in DOMAIN nc \ DOMAIN trie
      BY <1>3, <1>6, <2>0, <2>3
    <3>2. nd[i].attribute = UnknownCode
      BY <1>5, <1>8, <2>0, <2>3, <3>1
    <3>3. PICK j \in 0 .. Len(s) : get_string(nc, i) = SubSeq(s, 1, j)
      BY <1>5, <3>1
    <3>4. IsPrefix(get_string(nd, i), ws[l])
      BY <1>1, <1>2, <1>10, <2>0, <3>3, BeginningIs
    <3>5. ASSUME NEW x \in 1 .. l, get_string(nd, i) = ws[x] PROVE FALSE
      <4>1. CASE x \in 1 .. l - 1
        <5>1. PICK y \in 0 .. n : get_string(trie, y) = ws[x]
          BY <4>1 DEF Coded
        <5>2. y \in 0 .. m /\ get_string(nc, y) = get_string(nc, i)
          BY <1>10, <1>11, <2>0, <3>5, <5>1
        <5>3. y = i
          BY <1>5, <2>0, <5>2, StringsApart
        <5> QED
          BY <2>3, <5>1, <5>3
      <4>2. CASE ws[x] = s
        BY <1>10, <1>12, <2>0, <2>3, <3>5, <4>2
      <4> QED
        BY <1>13, <4>1, <4>2
    <3> QED
      BY <1>14, <3>2, <3>4, <3>5
  <2> QED
    BY <2>1, <2>2, <2>3
<1>17. Coded(dr, ws, codes, l, nd, m)
  BY <1>8, <1>15, <1>16 DEF Coded
<1> QED
  BY <1>9, <1>17

LEMMA CodedAll ==
  ASSUME NEW dr, NEW ws, NEW codes, NEW f, Len(dr) \in Nat,
         IsTries(dr, ws, codes, f),
         \A j \in 1 .. Len(dr) : ws[j] \in Seq(Nat) /\ codes[dr[j]] \in Nat,
         \A j, l \in 1 .. Len(dr) : ws[j] = ws[l] => j = l
  PROVE  \E n : Coded(dr, ws, codes, Len(dr), f[Len(dr)], n)
<1> DEFINE Good(l) == \E n : Coded(dr, ws, codes, l, f[l], n)
           T == {l \in 0 .. Len(dr) : ~Good(l)}
<1>1. Good(0)
  <2>1. 0 \in 0 .. Len(dr)
    OBVIOUS
  <2>2. f[0] = EmptyTrie
    BY <2>1 DEF IsTries
  <2>3. 1 .. 0 = {}
    OBVIOUS
  <2>4. Coded(dr, ws, codes, 0, EmptyTrie, 0)
    BY <2>3, EmptySound DEF Coded
  <2> QED
    BY <2>2, <2>4
<1>2. ASSUME NEW l \in 1 .. Len(dr), Good(l - 1) PROVE Good(l)
  <2>1. PICK n : Coded(dr, ws, codes, l - 1, f[l - 1], n)
    BY <1>2
  <2>2. f[l] = insert_attributed(f[l - 1], ws[l], codes[dr[l]], UnknownCode)
    <3>1. l \in 0 .. Len(dr) /\ l # 0
      OBVIOUS
    <3> QED
      BY <3>1 DEF IsTries
  <2>3. l \in Nat \ {0} /\ \A j \in 1 .. l : j \in 1 .. Len(dr)
    OBVIOUS
  <2>4. \A j \in 1 .. l - 1 : j \in 1 .. Len(dr) /\ j # l
    BY <2>3
  <2>5. /\ \A j \in 1 .. l : ws[j] \in Seq(Nat)
        /\ \A j \in 1 .. l - 1 : ws[j] # ws[l]
        /\ codes[dr[l]] \in Nat
    BY <2>3, <2>4
  <2>6. PICK t : t = f[l - 1]
    OBVIOUS
  <2>7. \E m : Coded(dr, ws, codes, l,
                     insert_attributed(t, ws[l], codes[dr[l]],
                                       UnknownCode), m)
    <3>1. Coded(dr, ws, codes, l - 1, t, n)
      BY <2>1, <2>6
    <3> QED
      BY <2>3, <2>5, <3>1, CodedStep
  <2> QED
    BY <2>2, <2>6, <2>7
<1>3. T = {}
  <2>1. SUFFICES ASSUME T # {} PROVE FALSE
    OBVIOUS
  <2>2. T \subseteq Nat
    OBVIOUS
  <2>3. PICK l \in T : \A y \in T : l <= y
    <3> HIDE DEF T
    <3> QED
      BY <2>1, <2>2, LeastOf
  <2>4. l \in 0 .. Len(dr) /\ ~Good(l)
    OBVIOUS
  <2> HIDE DEF Good
  <2>5. l # 0
    BY <1>1, <2>4
  <2>6. l \in 1 .. Len(dr) /\ l - 1 \in 0 .. Len(dr) /\ ~(l <= l - 1)
    BY <2>4, <2>5
  <2>7. Good(l - 1)
    BY <2>3, <2>6
  <2> QED
    BY <1>2, <2>4, <2>6, <2>7
<1> HIDE DEF Good
<1>4. Good(Len(dr))
  <2>1. Len(dr) \in 0 .. Len(dr)
    OBVIOUS
  <2> QED
    BY <1>3, <2>1
<1> QED
  BY <1>4 DEF Good

(* What AttributesStay says of a trie, of the literals and of the codes.   *)
CodesRight(trie, st, codes) ==
  LET words == {get_string(st, x) : x \in DOMAIN codes}
  IN \A i \in DOMAIN trie \ {0} :
       /\ \E d \in words : IsPrefix(get_string(trie, i), d)
       /\ trie[i].attribute =
            IF get_string(trie, i) \in words
            THEN codes[CHOOSE x \in DOMAIN codes :
                         get_string(st, x) = get_string(trie, i)]
            ELSE UnknownCode

LEMMA CodedRight ==
  ASSUME NEW st, NEW q, Sound(st, q), NEW dr, NEW codes, NEW ws,
         NEW trie, NEW n, Len(dr) \in Nat,
         \A j \in 1 .. Len(dr) : dr[j] \in 0 .. q,
         \A j \in 1 .. Len(dr) : ws[j] = get_string(st, dr[j]),
         DOMAIN codes = {dr[j] : j \in 1 .. Len(dr)},
         Coded(dr, ws, codes, Len(dr), trie, n)
  PROVE  CodesRight(trie, st, codes)
<1> DEFINE words == {get_string(st, x) : x \in DOMAIN codes}
<1>1. DOMAIN trie \ {0} = 1 .. n
  BY KidsAre DEF Coded
<1>2. words = {ws[j] : j \in 1 .. Len(dr)}
  OBVIOUS
<1> HIDE DEF words
<1>3. ASSUME NEW i \in 1 .. n
      PROVE  /\ \E d \in words : IsPrefix(get_string(trie, i), d)
             /\ trie[i].attribute =
                  IF get_string(trie, i) \in words
                  THEN codes[CHOOSE x \in DOMAIN codes :
                               get_string(st, x) = get_string(trie, i)]
                  ELSE UnknownCode
  <2>1. PICK w : w = get_string(trie, i)
    OBVIOUS
  <2>2. /\ \E j \in 1 .. Len(dr) : IsPrefix(w, ws[j])
        /\ \A j \in 1 .. Len(dr) : w = ws[j]
                                     => trie[i].attribute = codes[dr[j]]
        /\ (\A j \in 1 .. Len(dr) : w # ws[j])
             => trie[i].attribute = UnknownCode
    BY <2>1 DEF Coded
  <2>3. CASE w \in words
    <3>1. PICK j \in 1 .. Len(dr) : w = ws[j]
      BY <1>2, <2>3
    <3>2. dr[j] \in DOMAIN codes /\ get_string(st, dr[j]) = w
      BY <3>1
    <3>3. PICK x : x = CHOOSE y \in DOMAIN codes : get_string(st, y) = w
      OBVIOUS
    <3>4. x \in DOMAIN codes /\ get_string(st, x) = w
      BY <3>2, <3>3, Zenon
    <3>5. x \in 0 .. q /\ dr[j] \in 0 .. q
      BY <3>4
    <3>6. x = dr[j]
      BY <3>2, <3>4, <3>5, StringsApart
    <3>7. trie[i].attribute = codes[x]
      BY <2>2, <3>1, <3>6
    <3> QED
      BY <1>2, <2>1, <2>2, <2>3, <3>3, <3>7
  <2>4. CASE w \notin words
    <3>1. trie[i].attribute = UnknownCode
      BY <1>2, <2>2, <2>4
    <3> QED
      BY <1>2, <2>1, <2>2, <2>4, <3>1
  <2> QED
    BY <2>3, <2>4
<1> QED
  BY <1>1, <1>3 DEF CodesRight, words

CodesInv == phase # "define" => CodesRight(atrie, strs_trie, strsc)

(* The trie has every word.                                                *)
WordsIn(trie, n, words) ==
  /\ Sound(trie, n)
  /\ \A d \in words : \E i \in 0 .. n : get_string(trie, i) = d

LEMMA TrieCoded ==
  ASSUME InternedInv, DelimInv, generate_delim_automaton_impl
  PROVE  CodesRight(atrie, strs_trie, strsc)'
         /\ \E n : WordsIn(atrie', n, Delimiters)
<1>1. PICK st, q : st = strs_trie /\ Sound(st, q)
  BY DEF InternedInv
<1>2. PICK dr, codes : dr = del_repres /\ codes = strsc
  OBVIOUS
<1>3. PICK ws : ws = [k \in DOMAIN dr |-> get_string(st, dr[k])]
  OBVIOUS
<1> DEFINE strings == [k \in DOMAIN del_repres |->
                         get_string(strs_trie, del_repres[k])]
           tries == CHOOSE g : IsTries(del_repres, strings, strsc, g)
<1>4. PICK f : f = CHOOSE g : IsTries(dr, ws, codes, g)
  OBVIOUS
<1>5. atrie' = f[Len(dr)]
  <2>1. atrie' = tries[Len(del_repres)]
    BY Zenon DEF generate_delim_automaton_impl, IsTries
  <2>2. strings = ws
    BY <1>1, <1>2, <1>3
  <2> HIDE DEF strings
  <2>3. tries = f
    BY <1>2, <1>4, <2>2
  <2> HIDE DEF tries
  <2> QED
    BY <1>2, <2>1, <2>3
<1> HIDE DEF strings, tries
<1>6. /\ Len(dr) \in Nat /\ DOMAIN dr = 1 .. Len(dr)
      /\ \A k \in 1 .. Len(dr) : dr[k] \in DOMAIN st
      /\ \A k, l \in 1 .. Len(dr) : dr[k] = dr[l] => k = l
      /\ DOMAIN codes = {dr[k] : k \in 1 .. Len(dr)}
      /\ \A x \in DOMAIN codes : codes[x] \in Nat
  BY <1>1, <1>2, Zenon DEF DelimInv
<1>7. IsTries(dr, ws, codes, f)
  BY <1>4, <1>6, TriesExist
<1>8. \A k \in 1 .. Len(dr) : dr[k] \in 0 .. q
  BY <1>1, <1>6, KidsAre
<1>9. \A k \in 1 .. Len(dr) : ws[k] = get_string(st, dr[k])
  BY <1>3, <1>6
<1>10. \A k \in 1 .. Len(dr) : ws[k] \in Seq(Nat) /\ codes[dr[k]] \in Nat
  <2>1. \A x \in 0 .. q : get_string(st, x) \in Seq(Nat)
    BY <1>1, StringsAre
  <2> QED
    BY <1>6, <1>8, <1>9, <2>1
<1>11. ASSUME NEW j \in 1 .. Len(dr), NEW l \in 1 .. Len(dr), ws[j] = ws[l]
       PROVE  j = l
  <2>1. dr[j] = dr[l]
    BY <1>1, <1>8, <1>9, <1>11, StringsApart
  <2> QED
    BY <1>6, <2>1
<1>12. PICK n : Coded(dr, ws, codes, Len(dr), f[Len(dr)], n)
  BY <1>6, <1>7, <1>10, <1>11, CodedAll
<1>13. CodesRight(f[Len(dr)], st, codes)
  BY <1>1, <1>6, <1>8, <1>9, <1>12, CodedRight
<1>14. strs_trie' = st /\ strsc' = codes
  BY <1>1, <1>2, Zenon DEF generate_delim_automaton_impl, defVars
<1>15. CodesRight(atrie, strs_trie, strsc)'
  BY <1>5, <1>13, <1>14, Zenon DEF CodesRight
<1>16. PICK trie : trie = f[Len(dr)] /\ Coded(dr, ws, codes, Len(dr), trie, n)
  BY <1>12
<1>17. ASSUME NEW d \in Delimiters
       PROVE  \E i \in 0 .. n : get_string(trie, i) = d
  <2>1. PICK x \in DOMAIN codes : d = get_string(st, x)
    BY <1>1, <1>2 DEF Delimiters
  <2>2. PICK k \in 1 .. Len(dr) : x = dr[k]
    BY <1>6, <2>1
  <2>3. d = ws[k]
    BY <1>9, <2>1, <2>2
  <2> QED
    BY <1>16, <2>3 DEF Coded
<1>18. WordsIn(atrie', n, Delimiters)
  BY <1>5, <1>16, <1>17 DEF WordsIn, Coded
<1> QED
  BY <1>15, <1>18

DelimIInv ==
  InternedInv /\ DelimInv /\ del_repres \in Seq(Nat) /\ CodesInv

LEMMA DelimTyped ==
  ASSUME InternedInv, NEW w \in Words, add_new_string(w),
         del_repres \in Seq(Nat)
  PROVE  del_repres' \in Seq(Nat)
<1>1. PICK nb, n : nb = strs_trie /\ Sound(nb, n)
  BY DEF InternedInv
<1>2. PICK nc, to, m :
        /\ insert(nb, w, 0) = [nb |-> nc, at |-> to]
        /\ Sound(nc, m) /\ to \in DOMAIN nc /\ get_string(nc, to) = w
        /\ DOMAIN nb \subseteq DOMAIN nc
        /\ \A k \in DOMAIN nb : get_string(nc, k) = get_string(nb, k)
  BY <1>1, WordInserted
<1>3. insert(strs_trie, w, 0).at = to
  BY <1>1, <1>2
<1>4. to \in Nat
  BY <1>2, KidsAre
<1>5. del_repres' = del_repres \/ del_repres' = Append(del_repres, to)
  BY <1>3, Zenon DEF add_new_string
<1> QED
  BY <1>4, <1>5

(* add_new_string, generate_delim_automaton_impl: each delimiter is listed *)
(* once and has a code, and the trie with codes has exactly what begins a  *)
(* delimiter.                                                              *)
THEOREM DelimInvariant == Spec => []DelimIInv
<1>1. Init => DelimIInv
  <2> SUFFICES ASSUME Init PROVE DelimIInv
    OBVIOUS
  <2>1. /\ strs_trie = EmptyTrie /\ interned = {} /\ phase = "define"
        /\ del_repres = <<>> /\ strsc = <<>>
    BY DEF Init
  <2>2. InternedInv
    BY <2>1, EmptySound DEF InternedInv
  <2>3. DelimInv
    BY <2>1 DEF DelimInv
  <2> QED
    BY <2>1, <2>2, <2>3 DEF DelimIInv, CodesInv
<1>2. DelimIInv /\ [Next]_vars => DelimIInv'
  <2> SUFFICES ASSUME DelimIInv, [Next]_vars PROVE DelimIInv'
    OBVIOUS
  <2>0. InternedInv /\ DelimInv /\ del_repres \in Seq(Nat) /\ CodesInv
    BY DEF DelimIInv
  <2>1. ASSUME UNCHANGED <<strs_trie, interned, strsc, del_repres>>,
               \/ phase # "define" /\ UNCHANGED atrie
               \/ UNCHANGED <<phase, atrie>>
        PROVE  DelimIInv'
    <3>1. InternedInv'
      BY <2>0, <2>1 DEF InternedInv
    <3>2. DelimInv' /\ del_repres' \in Seq(Nat)
      BY <2>0, <2>1 DEF DelimInv
    <3>3. CodesInv'
      BY <2>0, <2>1, Zenon DEF CodesInv
    <3> QED
      BY <3>1, <3>2, <3>3 DEF DelimIInv
  <2>2. ASSUME NEW w \in Words, string_literal(w) PROVE DelimIInv'
    <3>1. strs_trie' = insert(strs_trie, w, 0).nb
          /\ interned' = interned \cup {<<w, insert(strs_trie, w, 0).at>>}
      BY <2>2, Zenon DEF string_literal
    <3>2. phase' = "define" /\ UNCHANGED <<strsc, del_repres>>
      BY <2>2, Zenon DEF string_literal
    <3>3. InternedInv'
      BY <2>0, <3>1, InternedStep
    <3>4. DelimInv'
      <4>1. PICK nb, n : nb = strs_trie /\ Sound(nb, n)
        BY <2>0 DEF InternedInv
      <4>2. PICK nc, to, m :
              /\ insert(nb, w, 0) = [nb |-> nc, at |-> to]
              /\ Sound(nc, m) /\ to \in DOMAIN nc /\ get_string(nc, to) = w
              /\ DOMAIN nb \subseteq DOMAIN nc
              /\ \A k \in DOMAIN nb : get_string(nc, k) = get_string(nb, k)
        BY <4>1, WordInserted
      <4>3. strs_trie' = nc
        BY <3>1, <4>1, <4>2
      <4> QED
        BY <2>0, <3>2, <4>1, <4>2, <4>3 DEF DelimInv
    <3> QED
      BY <2>0, <3>2, <3>3, <3>4 DEF DelimIInv, CodesInv
  <2>3. ASSUME NEW w \in Words, add_new_string(w) PROVE DelimIInv'
    <3>1. strs_trie' = insert(strs_trie, w, 0).nb
          /\ interned' = interned \cup {<<w, insert(strs_trie, w, 0).at>>}
          /\ phase' = "define"
      BY <2>3, Zenon DEF add_new_string
    <3>2. InternedInv'
      BY <2>0, <3>1, InternedStep
    <3>3. DelimInv' /\ del_repres' \in Seq(Nat)
      BY <2>0, <2>3, DelimStep, DelimTyped
    <3> QED
      BY <3>1, <3>2, <3>3 DEF DelimIInv, CodesInv
  <2>4. ASSUME NEW s \in CharSets, generate_automaton(s) PROVE DelimIInv'
    BY <2>1, <2>4, Zenon DEF generate_automaton, defVars, genVars
  <2>5. CASE generate_delim_automaton_impl
    <3>1. UNCHANGED <<strs_trie, interned, strsc, del_repres>>
      BY <2>5, Zenon DEF generate_delim_automaton_impl, defVars
    <3>2. CodesRight(atrie, strs_trie, strsc)'
      BY <2>0, <2>5, TrieCoded, Zenon
    <3>3. InternedInv'
      BY <2>0, <3>1 DEF InternedInv
    <3>4. DelimInv' /\ del_repres' \in Seq(Nat)
      BY <2>0, <3>1 DEF DelimInv
    <3> QED
      BY <3>2, <3>3, <3>4, Zenon DEF DelimIInv, CodesInv
  <2>6. CASE generate_category_table
    <3>1. phase = "generate" /\ UNCHANGED <<defVars, genVars>>
      BY <2>6, Zenon DEF generate_category_table
    <3> QED
      BY <2>1, <3>1 DEF defVars, genVars
  <2>7. ASSUME NEW c \in Texts, start_proc(c) PROVE DelimIInv'
    BY <2>1, <2>7, Zenon DEF start_proc, defVars, genVars
  <2>8. CASE delimiter_begin
    BY <2>1, <2>8, Zenon DEF delimiter_begin, defVars, genVars
  <2>9. ASSUME NEW c \in Texts, delimiter_proc(c) PROVE DelimIInv'
    BY <2>1, <2>9, Zenon DEF delimiter_proc, defVars, genVars
  <2>10. CASE delimiter_final_proc
    BY <2>1, <2>10, Zenon DEF delimiter_final_proc, defVars, genVars
  <2>11. CASE UNCHANGED vars
    BY <2>1, <2>11, Zenon DEF vars, defVars, genVars
  <2> QED
    BY <2>2, <2>3, <2>4, <2>5, <2>6, <2>7, <2>8, <2>9, <2>10, <2>11
       DEF Next
<1> QED
  BY <1>1, <1>2, PTL DEF Spec

(* Attributed_char_trie::post_action: a delimiter that is the prefix of    *)
(* another keeps its code, and what is only a prefix is unknown; for all   *)
(* literals, and any number of them.                                       *)
THEOREM AttributesAlwaysStay == Spec => []AttributesStay
<1>1. DelimIInv => AttributesStay
  BY Zenon DEF DelimIInv, CodesInv, CodesRight, AttributesStay, Delimiters,
               DelimiterCode
<1> QED
  BY <1>1, DelimInvariant, PTL

-----------------------------------------------------------------------------
(* The sets of characters: the listing of a set in increasing order.       *)

Listing(q, s) ==
  /\ q \in [1 .. Cardinality(s) -> s]
  /\ Range(q) = s
  /\ \A i, j \in DOMAIN q : i < j => q[i] < q[j]

Listed(s) == \E q : Listing(q, s)

(* The least element is put in front of the listing of the others.         *)
LEMMA ListedMore ==
  ASSUME NEW s, s \subseteq Nat, IsFiniteSet(s), NEW x \in s,
         \A y \in s : x <= y, Listed(s \ {x})
  PROVE  Listed(s)
<1>1. PICK n : n = Cardinality(s \ {x})
  OBVIOUS
<1>2. n \in Nat /\ Cardinality(s) = n + 1
  <2>1. IsFiniteSet(s \ {x}) /\ Cardinality(s \ {x}) = Cardinality(s) - 1
    BY FS_RemoveElement
  <2>2. Cardinality(s) \in Nat /\ n \in Nat
    BY <1>1, <2>1, FS_CardinalityType
  <2> QED
    BY <1>1, <2>1, <2>2
<1>3. PICK q : Listing(q, s \ {x})
  BY DEF Listed
<1>4. /\ q \in [1 .. n -> s \ {x}] /\ DOMAIN q = 1 .. n
      /\ Range(q) = s \ {x}
      /\ \A i, j \in 1 .. n : i < j => q[i] < q[j]
  BY <1>1, <1>3 DEF Listing
<1> DEFINE p == [i \in 1 .. n + 1 |-> IF i = 1 THEN x ELSE q[i - 1]]
<1>5. \A i \in 1 .. n + 1 : i # 1 => i - 1 \in 1 .. n
  BY <1>2
<1>6. \A i \in 1 .. n : i + 1 \in 1 .. n + 1 /\ i + 1 # 1 /\ (i + 1) - 1 = i
  BY <1>2
<1>7. 1 \in 1 .. n + 1
  BY <1>2
<1>8. /\ p[1] = x
      /\ \A i \in 1 .. n + 1 : i # 1 => p[i] = q[i - 1] /\ p[i] \in s \ {x}
      /\ \A i \in 1 .. n : p[i + 1] = q[i]
  BY <1>4, <1>5, <1>6, <1>7
<1>9. p \in [1 .. n + 1 -> s] /\ DOMAIN p = 1 .. n + 1
  BY <1>4, <1>5
<1> HIDE DEF p
<1>10. Range(p) = s
  <2>1. ASSUME NEW y \in s PROVE \E i \in 1 .. n + 1 : p[i] = y
    <3>1. CASE y = x
      BY <1>7, <1>8, <3>1
    <3>2. CASE y # x
      <4>1. PICK i \in 1 .. n : q[i] = y
        BY <1>4, <3>2 DEF Range
      <4> QED
        BY <1>6, <1>8, <4>1
    <3> QED
      BY <3>1, <3>2
  <2>2. \A i \in 1 .. n + 1 : p[i] \in s
    BY <1>9
  <2>3. Range(p) = {p[i] : i \in 1 .. n + 1}
    BY <1>9, Zenon DEF Range
  <2> QED
    BY <2>1, <2>2, <2>3
<1>11. ASSUME NEW i \in 1 .. n + 1, NEW j \in 1 .. n + 1, i < j
       PROVE  p[i] < p[j]
  <2>1. j # 1
    BY <1>2, <1>11
  <2>2. p[j] \in Nat /\ p[j] # x /\ x <= p[j] /\ x \in Nat
    BY <1>8, <2>1
  <2>3. CASE i = 1
    BY <1>8, <2>2, <2>3
  <2>4. CASE i # 1
    <3>1. i - 1 \in 1 .. n /\ j - 1 \in 1 .. n /\ i - 1 < j - 1
      BY <1>2, <1>5, <1>11, <2>1, <2>4
    <3>2. q[i - 1] < q[j - 1]
      BY <1>4, <3>1
    <3> QED
      BY <1>8, <2>1, <2>4, <3>2
  <2> QED
    BY <2>3, <2>4
<1>12. Listing(p, s)
  BY <1>2, <1>9, <1>10, <1>11 DEF Listing
<1> QED
  BY <1>12 DEF Listed

LEMMA ListedAll ==
  ASSUME NEW s, s \subseteq Nat, IsFiniteSet(s)
  PROVE  Listed(s)
<1> DEFINE Finite(m) == {z \in SUBSET Nat : IsFiniteSet(z) /\ Cardinality(z) = m}
           T == {m \in Nat : \E z \in Finite(m) : ~Listed(z)}
<1>1. T = {}
  <2>1. SUFFICES ASSUME T # {} PROVE FALSE
    OBVIOUS
  <2>2. T \subseteq Nat
    OBVIOUS
  <2>3. PICK m \in T : \A y \in T : m <= y
    <3> HIDE DEF T
    <3> QED
      BY <2>1, <2>2, LeastOf
  <2>4. PICK z \in Finite(m) : ~Listed(z)
    OBVIOUS
  <2>5. m \in Nat /\ z \subseteq Nat /\ IsFiniteSet(z) /\ Cardinality(z) = m
    OBVIOUS
  <2>6. CASE z = {}
    <3>1. Cardinality(z) = 0
      BY <2>6, FS_EmptySet
    <3> DEFINE q == [i \in 1 .. 0 |-> i]
    <3>2. DOMAIN q = {} /\ q \in [1 .. 0 -> {}]
      OBVIOUS
    <3> HIDE DEF q
    <3>3. Range(q) = {}
      BY <3>2 DEF Range
    <3>4. Listing(q, z)
      BY <2>6, <3>1, <3>2, <3>3 DEF Listing
    <3> QED
      BY <2>4, <3>4 DEF Listed
  <2>7. CASE z # {}
    <3>1. PICK x \in z : \A y \in z : x <= y
      BY <2>5, <2>7, LeastOf
    <3>2. IsFiniteSet(z \ {x}) /\ Cardinality(z \ {x}) = m - 1
      BY <2>5, FS_RemoveElement
    <3>3. m - 1 \in Nat
      BY <3>2, FS_CardinalityType
    <3>4. m - 1 \notin T
      <4>1. ~(m <= m - 1)
        BY <2>5
      <4> HIDE DEF T
      <4> QED
        BY <2>3, <4>1
    <3>5. z \ {x} \in Finite(m - 1)
      BY <2>5, <3>2
    <3>6. Listed(z \ {x})
      <4> HIDE DEF Finite
      <4> QED
        BY <3>3, <3>4, <3>5
    <3> QED
      BY <2>4, <2>5, <3>1, <3>6, ListedMore
  <2> QED
    BY <2>6, <2>7
<1>2. Cardinality(s) \in Nat
  BY FS_CardinalityType
<1>3. s \in Finite(Cardinality(s))
  OBVIOUS
<1> HIDE DEF Finite
<1> QED
  BY <1>1, <1>2, <1>3

LEMMA OrderedIs ==
  ASSUME NEW s, s \subseteq Nat, IsFiniteSet(s)
  PROVE  /\ Ordered(s) \in Seq(s) /\ Ordered(s) \in Seq(Nat)
         /\ Range(Ordered(s)) = s
         /\ DOMAIN Ordered(s) = 1 .. Len(Ordered(s))
         /\ \A i, j \in DOMAIN Ordered(s) :
              Ordered(s)[i] = Ordered(s)[j] => i = j
<1>1. PICK q : q = Ordered(s)
  OBVIOUS
<1>2. PICK n : n = Cardinality(s) /\ n \in Nat
  BY FS_CardinalityType
<1>3. \E p \in [1 .. n -> s] :
        Range(p) = s /\ \A i, j \in DOMAIN p : i < j => p[i] < p[j]
  BY <1>2, ListedAll DEF Listed, Listing
<1>4. q \in [1 .. n -> s] /\ Range(q) = s
      /\ \A i, j \in DOMAIN q : i < j => q[i] < q[j]
  BY <1>1, <1>2, <1>3, Zenon DEF Ordered
<1>5. q \in Seq(s) /\ q \in Seq(Nat) /\ DOMAIN q = 1 .. Len(q)
  <2>1. \A i \in 1 .. n : q[i] \in s /\ q[i] \in Nat
    BY <1>4
  <2>2. DOMAIN q = 1 .. n /\ q = [i \in 1 .. n |-> q[i]]
    BY <1>4
  <2>3. q \in [1 .. n -> Nat]
    BY <2>1, <2>2
  <2>4. q \in Seq(s)
    BY <1>2, <1>4
  <2>5. q \in Seq(Nat)
    BY <1>2, <2>3
  <2>6. DOMAIN q = 1 .. Len(q)
    BY <2>5
  <2> QED
    BY <2>4, <2>5, <2>6
<1>6. ASSUME NEW i \in 1 .. n, NEW j \in 1 .. n, q[i] = q[j] PROVE i = j
  <2>1. q[i] \in s /\ q[j] \in s /\ i \in Nat /\ j \in Nat
    BY <1>2, <1>4
  <2>2. i < j => q[i] < q[j]
    BY <1>4
  <2>3. j < i => q[j] < q[i]
    BY <1>4
  <2>4. q[i] \in Nat
    BY <2>1
  <2> QED
    BY <1>6, <2>1, <2>2, <2>3, <2>4
<1>7. DOMAIN q = 1 .. n
  BY <1>4
<1> QED
  BY <1>1, <1>4, <1>5, <1>6, <1>7

-----------------------------------------------------------------------------
(* The names of the sets.                                                  *)

CharSet(s) == s \subseteq Nat /\ IsFiniteSet(s)

LEMMA OrderedApart ==
  ASSUME NEW s, NEW t, CharSet(s), CharSet(t), Ordered(s) = Ordered(t)
  PROVE  s = t
<1>1. Range(Ordered(s)) = s /\ Range(Ordered(t)) = t
  BY OrderedIs DEF CharSet
<1> QED
  BY <1>1

(* Each set asked for has a node with its name, and only those have one.   *)
IsNamed(nb, names, x, r) ==
  x \in DOMAIN names /\ get_string(nb, x) = Ordered(r[1]) /\ names[x] = r[2]

Named(nb, names, rq) ==
  /\ DOMAIN names \subseteq DOMAIN nb
  /\ \A r \in rq : CharSet(r[1]) /\ \E x : IsNamed(nb, names, x, r)
  /\ \A x \in DOMAIN names : \E r \in rq : IsNamed(nb, names, x, r)
  /\ \A x, y \in DOMAIN names : names[x] = names[y] => x = y

(* The names given are those of fewer requests.                            *)
Numbered(name, n) ==
  \/ name = DELIMITER_BEGIN
  \/ \E i \in Nat : i < n /\ name = <<"CATEGORY", i>>

NamesUsed(names, rq) ==
  /\ IsFiniteSet(rq)
  /\ \A x \in DOMAIN names : Numbered(names[x], Cardinality(rq))

(* What add_category makes of the names, the node of the set being at.     *)
NamedMore(names, at, given) ==
  [x \in DOMAIN names \cup {at} |->
     IF x \in DOMAIN names THEN names[x] ELSE given]

(* The first name of a set remains its name.                               *)
NameGiven(names, at, name) == IF at \in DOMAIN names THEN names[at] ELSE name

NamedWell(nb, names, rq) == (\E n : Sound(nb, n)) /\ Named(nb, names, rq)

LEMMA CategoryAdded ==
  ASSUME NEW nb, NEW n, Sound(nb, n), NEW names, NEW rq,
         Named(nb, names, rq), NEW s, CharSet(s), NEW name,
         \A x \in DOMAIN names : names[x] # name,
         NEW nc, NEW at, insertSet(nb, s) = [nb |-> nc, at |-> at],
         NEW given, given = NameGiven(names, at, name)
  PROVE  NamedWell(nc, NamedMore(names, at, given), rq \cup {<<s, given>>})
<1>1. Ordered(s) \in Seq(Nat)
  BY OrderedIs DEF CharSet
<1>2. PICK w : w = Ordered(s) /\ w \in Seq(Nat)
  BY <1>1
<1>3. PICK nd, to, m :
        /\ insert(nb, w, 0) = [nb |-> nd, at |-> to]
        /\ Sound(nd, m) /\ to \in DOMAIN nd /\ get_string(nd, to) = w
        /\ DOMAIN nb \subseteq DOMAIN nd
        /\ \A k \in DOMAIN nb : get_string(nd, k) = get_string(nb, k)
  BY <1>2, StringInserted
<1>4. nd = nc /\ to = at
  <2>1. [nb |-> nd, at |-> to] = [nb |-> nc, at |-> at]
    BY <1>2, <1>3, Zenon DEF insertSet
  <2> QED
    BY <2>1
<1>5. /\ Sound(nc, m) /\ at \in DOMAIN nc /\ get_string(nc, at) = Ordered(s)
      /\ DOMAIN nb \subseteq DOMAIN nc
      /\ \A k \in DOMAIN nb : get_string(nc, k) = get_string(nb, k)
  BY <1>2, <1>3, <1>4
<1>6. PICK more : more = NamedMore(names, at, given)
  OBVIOUS
<1>7. /\ DOMAIN more = DOMAIN names \cup {at}
      /\ \A x \in DOMAIN names : more[x] = names[x]
      /\ more[at] = given
  BY <1>6 DEF NamedMore, NameGiven
<1>8. ASSUME NEW x, NEW r, IsNamed(nb, names, x, r)
      PROVE  IsNamed(nc, more, x, r)
  <2>1. x \in DOMAIN nb
    BY <1>8 DEF IsNamed, Named
  <2> QED
    BY <1>5, <1>7, <1>8, <2>1 DEF IsNamed
<1>9. IsNamed(nc, more, at, <<s, given>>)
  BY <1>5, <1>7 DEF IsNamed
<1>10. DOMAIN more \subseteq DOMAIN nc
  BY <1>5, <1>7 DEF Named
<1>11. ASSUME NEW r \in rq \cup {<<s, given>>}
       PROVE  CharSet(r[1]) /\ \E x : IsNamed(nc, more, x, r)
  <2>1. CASE r \in rq
    BY <1>8, <2>1 DEF Named
  <2>2. CASE r = <<s, given>>
    <3>1. r[1] = s
      BY <2>2
    <3> QED
      BY <1>9, <2>2, <3>1
  <2> QED
    BY <2>1, <2>2
<1>12. ASSUME NEW x \in DOMAIN more
       PROVE  \E r \in rq \cup {<<s, given>>} : IsNamed(nc, more, x, r)
  <2>1. CASE x \in DOMAIN names
    <3>1. PICK r \in rq : IsNamed(nb, names, x, r)
      BY <2>1 DEF Named
    <3> QED
      BY <1>8, <3>1
  <2>2. CASE x = at
    BY <1>9, <2>2
  <2> QED
    BY <1>7, <2>1, <2>2
<1>13. ASSUME NEW x \in DOMAIN more, NEW y \in DOMAIN more, more[x] = more[y]
       PROVE  x = y
  <2>1. CASE at \in DOMAIN names
    <3>1. x \in DOMAIN names /\ y \in DOMAIN names
      BY <1>7, <2>1
    <3> QED
      BY <1>7, <1>13, <3>1 DEF Named
  <2>2. CASE at \notin DOMAIN names
    <3>1. more[at] = name
      BY <1>7, <2>2 DEF NameGiven
    <3>2. \A z \in DOMAIN names : more[z] # name
      BY <1>7
    <3>3. CASE x \in DOMAIN names /\ y \in DOMAIN names
      BY <1>7, <1>13, <3>3 DEF Named
    <3>4. CASE x = at \/ y = at
      BY <1>7, <1>13, <3>1, <3>2, <3>4
    <3> QED
      BY <1>7, <3>3, <3>4
  <2> QED
    BY <2>1, <2>2
<1>14. Named(nc, more, rq \cup {<<s, given>>})
  BY <1>10, <1>11, <1>12, <1>13 DEF Named
<1> QED
  BY <1>5, <1>6, <1>14 DEF NamedWell

LEMMA NamesUsedMore ==
  ASSUME NEW nb, NEW names, NEW rq, Named(nb, names, rq),
         NamesUsed(names, rq), NEW s, NEW name, NEW at, NEW given,
         \A x \in DOMAIN names : names[x] # name,
         \/ name = DELIMITER_BEGIN
         \/ name = <<"CATEGORY", Cardinality(rq)>>,
         given = NameGiven(names, at, name)
  PROVE  NamesUsed(NamedMore(names, at, given), rq \cup {<<s, given>>})
<1>1. PICK more, wanted : more = NamedMore(names, at, given)
                          /\ wanted = rq \cup {<<s, given>>}
  OBVIOUS
<1>2. PICK n : n = Cardinality(rq) /\ n \in Nat
  BY FS_CardinalityType DEF NamesUsed
<1>3. PICK m : m = Cardinality(wanted)
  OBVIOUS
<1>4. /\ IsFiniteSet(wanted)
      /\ m = IF <<s, given>> \in rq THEN n ELSE n + 1
  BY <1>1, <1>2, <1>3, FS_AddElement DEF NamesUsed
<1>5. /\ DOMAIN more = DOMAIN names \cup {at}
      /\ \A x \in DOMAIN names : more[x] = names[x]
      /\ at \notin DOMAIN names => more[at] = name /\ given = name
  BY <1>1 DEF NamedMore, NameGiven
<1>6. m \in Nat /\ n <= m
  BY <1>2, <1>4
<1>7. ASSUME NEW x \in DOMAIN names PROVE Numbered(more[x], m)
  <2>1. Numbered(names[x], n)
    BY <1>2 DEF NamesUsed
  <2>2. \A i \in Nat : i < n => i < m
    BY <1>2, <1>6
  <2> QED
    BY <1>5, <2>1, <2>2 DEF Numbered
<1>8. ASSUME at \notin DOMAIN names PROVE Numbered(more[at], m)
  <2>1. <<s, given>> \notin rq
    <3>1. SUFFICES ASSUME <<s, given>> \in rq PROVE FALSE
      OBVIOUS
    <3>2. PICK r : r = <<s, given>> /\ r \in rq
      BY <3>1
    <3>3. PICK x : IsNamed(nb, names, x, r)
      BY <3>2 DEF Named
    <3>4. x \in DOMAIN names /\ names[x] = given
      BY <3>2, <3>3 DEF IsNamed
    <3> QED
      BY <1>5, <1>8, <3>4
  <2>2. n < m
    BY <1>2, <1>4, <2>1
  <2> QED
    BY <1>2, <1>5, <1>8, <2>2 DEF Numbered
<1>9. \A x \in DOMAIN more : Numbered(more[x], m)
  BY <1>5, <1>7, <1>8
<1> QED
  BY <1>1, <1>3, <1>4, <1>9 DEF NamesUsed

(* No name that is given is the one of the characters of no set, and the   *)
(* numbered names are not the one of the delimiters.                       *)
LEMMA NamesApart ==
  /\ DELIMITER_BEGIN # Other
  /\ \A i : <<"CATEGORY", i>> # Other /\ <<"CATEGORY", i>> # DELIMITER_BEGIN
<1>1. DELIMITER_BEGIN[1] = "DELIMITER_BEGIN" /\ Other[1] = "Other"
  BY DEF DELIMITER_BEGIN, Other
<1>2. \A i : <<"CATEGORY", i>>[1] = "CATEGORY"
  OBVIOUS
<1>3. "DELIMITER_BEGIN" # "Other" /\ "CATEGORY" # "Other"
      /\ "CATEGORY" # "DELIMITER_BEGIN"
  OBVIOUS
<1> QED
  BY <1>1, <1>2, <1>3

LEMMA NumberedApart ==
  ASSUME NEW name, NEW n, Numbered(name, n)
  PROVE  name # Other
BY NamesApart DEF Numbered

(* The table of the categories, made for the requests rq.                  *)
TableRight(info, table, rq) ==
  /\ Len(info) \in Nat /\ DOMAIN info = 1 .. Len(info)
  /\ \A r \in rq : \E k \in DOMAIN info :
                     info[k].set = r[1] /\ info[k].name = r[2]
  /\ \A k \in DOMAIN info : \E r \in rq : info[k].set = r[1]
  /\ \A k \in DOMAIN info : info[k].name # Other
  /\ \A k, l \in DOMAIN info : info[k].name = info[l].name => k = l
  /\ table = [c \in UNION {info[k].set : k \in DOMAIN info} |->
                construct_categories_set_for_char(c, info)]

(* What generate_category_table makes of the names.                        *)
InfoOf(nb, names) ==
  LET order == Ordered(DOMAIN names)
  IN [k \in DOMAIN order |-> [name |-> names[order[k]],
                              set  |-> get_set(nb, order[k])]]

TableOf(info) ==
  [c \in UNION {info[k].set : k \in DOMAIN info} |->
     construct_categories_set_for_char(c, info)]

LEMMA LengthIs ==
  ASSUME NEW S, NEW m \in Nat, NEW f \in [1 .. m -> S]
  PROVE  Len(f) = m
OBVIOUS

LEMMA TableBuilt ==
  ASSUME NEW nb, NEW n, Sound(nb, n), NEW names, NEW rq,
         Named(nb, names, rq), NamesUsed(names, rq),
         NEW info, info = InfoOf(nb, names)
  PROVE  TableRight(info, TableOf(info), rq)
<1>0. PICK order : /\ order = Ordered(DOMAIN names)
                   /\ info = [k \in DOMAIN order |->
                                [name |-> names[order[k]],
                                 set  |-> get_set(nb, order[k])]]
  BY DEF InfoOf
<1>1. DOMAIN names \subseteq 0 .. n /\ n \in Nat
  BY KidsAre DEF Named
<1>2. DOMAIN names \subseteq Nat /\ IsFiniteSet(DOMAIN names)
  <2>1. IsFiniteSet(0 .. n)
    BY <1>1, FS_Interval
  <2> QED
    BY <1>1, <2>1, FS_Subset
<1>3. PICK d : d = DOMAIN names
  OBVIOUS
<1>4. /\ order \in Seq(Nat) /\ Range(order) = d
      /\ DOMAIN order = 1 .. Len(order)
      /\ \A k, l \in DOMAIN order : order[k] = order[l] => k = l
  BY <1>0, <1>2, <1>3, OrderedIs
<1>5. PICK m : m = Len(order) /\ m \in Nat
  BY <1>4
<1>6. /\ \A k \in 1 .. m : order[k] \in d
      /\ \A x \in d : \E k \in 1 .. m : order[k] = x
      /\ \A k, l \in 1 .. m : order[k] = order[l] => k = l
  BY <1>4, <1>5 DEF Range
<1>7. /\ DOMAIN info = 1 .. m
      /\ \A k \in 1 .. m : /\ info[k].name = names[order[k]]
                           /\ info[k].set = get_set(nb, order[k])
  BY <1>0, <1>4, <1>5
<1>8. Len(info) = m
  <2>1. info = [k \in 1 .. m |-> info[k]]
    BY <1>0, <1>7, <1>4, <1>5
  <2>2. PICK rows : rows = {info[k] : k \in 1 .. m}
    OBVIOUS
  <2>3. info \in [1 .. m -> rows]
    BY <2>1, <2>2
  <2> QED
    BY <1>5, <2>3, LengthIs
<1>9. ASSUME NEW k \in 1 .. m, NEW r \in rq, IsNamed(nb, names, order[k], r)
      PROVE  info[k].set = r[1] /\ info[k].name = r[2]
  <2>1. get_string(nb, order[k]) = Ordered(r[1]) /\ names[order[k]] = r[2]
    BY <1>9 DEF IsNamed
  <2>2. CharSet(r[1])
    BY DEF Named
  <2>3. Range(Ordered(r[1])) = r[1]
    BY <2>2, OrderedIs DEF CharSet
  <2>4. get_set(nb, order[k]) = r[1]
    BY <2>1, <2>3 DEF get_set
  <2> QED
    BY <1>7, <2>1, <2>4
<1>10. ASSUME NEW r \in rq
       PROVE  \E k \in 1 .. m : info[k].set = r[1] /\ info[k].name = r[2]
  <2>1. PICK x : IsNamed(nb, names, x, r)
    BY DEF Named
  <2>2. x \in d
    BY <1>3, <2>1 DEF IsNamed
  <2>3. PICK k \in 1 .. m : order[k] = x
    BY <1>6, <2>2
  <2> QED
    BY <1>9, <2>1, <2>3
<1>11. ASSUME NEW k \in 1 .. m
       PROVE  (\E r \in rq : info[k].set = r[1]) /\ info[k].name # Other
  <2>1. order[k] \in DOMAIN names
    BY <1>3, <1>6
  <2>2. PICK r \in rq : IsNamed(nb, names, order[k], r)
    BY <2>1 DEF Named
  <2>3. info[k].set = r[1]
    BY <1>9, <2>2
  <2>4. Numbered(names[order[k]], Cardinality(rq))
    BY <2>1 DEF NamesUsed
  <2>5. names[order[k]] # Other
    BY <2>4, NumberedApart
  <2> QED
    BY <1>7, <2>3, <2>5
<1>12. ASSUME NEW k \in 1 .. m, NEW l \in 1 .. m,
              info[k].name = info[l].name
       PROVE  k = l
  <2>1. names[order[k]] = names[order[l]]
        /\ order[k] \in DOMAIN names /\ order[l] \in DOMAIN names
    BY <1>3, <1>6, <1>7, <1>12
  <2>2. order[k] = order[l]
    BY <2>1 DEF Named
  <2> QED
    BY <1>6, <2>2
<1>13. Len(info) \in Nat /\ DOMAIN info = 1 .. Len(info)
       /\ DOMAIN info = 1 .. m
  BY <1>5, <1>7, <1>8
<1>14. \A r \in rq : \E k \in DOMAIN info :
                      info[k].set = r[1] /\ info[k].name = r[2]
  BY <1>10, <1>13
<1>15. \A k \in DOMAIN info : \E r \in rq : info[k].set = r[1]
  BY <1>11, <1>13
<1>16. \A k \in DOMAIN info : info[k].name # Other
  BY <1>11, <1>13
<1>17. \A k, l \in DOMAIN info : info[k].name = info[l].name => k = l
  BY <1>12, <1>13
<1>18. TableOf(info) = [c \in UNION {info[k].set : k \in DOMAIN info} |->
                          construct_categories_set_for_char(c, info)]
  BY DEF TableOf
<1> QED
  BY <1>13, <1>14, <1>15, <1>16, <1>17, <1>18, Zenon DEF TableRight

(* With such a table every character has the categories of its sets, and   *)
(* Other if it has none.                                                   *)
LEMMA ToldRight ==
  ASSUME TableRight(categories_info, categories_table, requests), NEW c
  PROVE  /\ \A r \in requests :
              Enumerator(r[2]) \in get_categories_set(c) <=> c \in r[1]
         /\ Enumerator(Other) \in get_categories_set(c)
              <=> \A r \in requests : c \notin r[1]
<1>1. PICK info, table, rq :
        info = categories_info /\ table = categories_table /\ rq = requests
  OBVIOUS
<1>2. PICK m : m = Len(info)
  OBVIOUS
<1>3. TableRight(info, table, rq)
  BY <1>1
<1>4. /\ m \in Nat /\ DOMAIN info = 1 .. m
      /\ \A r \in rq : \E k \in 1 .. m :
                         info[k].set = r[1] /\ info[k].name = r[2]
      /\ \A k \in 1 .. m : \E r \in rq : info[k].set = r[1]
      /\ \A k \in 1 .. m : info[k].name # Other
      /\ \A k, l \in 1 .. m : info[k].name = info[l].name => k = l
  BY <1>2, <1>3 DEF TableRight
<1>5. PICK chars : chars = UNION {info[k].set : k \in 1 .. m}
  OBVIOUS
<1>6. DOMAIN table = chars
      /\ \A x \in chars : table[x] = construct_categories_set_for_char(x, info)
  BY <1>3, <1>4, <1>5 DEF TableRight
<1>7. c \in chars <=> \E r \in rq : c \in r[1]
  <2>1. c \in chars <=> \E k \in 1 .. m : c \in info[k].set
    BY <1>5
  <2>2. ASSUME NEW k \in 1 .. m, c \in info[k].set
        PROVE  \E r \in rq : c \in r[1]
    <3>1. PICK r \in rq : info[k].set = r[1]
      BY <1>4
    <3> QED
      BY <2>2, <3>1
  <2>3. ASSUME NEW r \in rq, c \in r[1]
        PROVE  \E k \in 1 .. m : c \in info[k].set
    <3>1. PICK k \in 1 .. m : info[k].set = r[1]
      BY <1>4
    <3> QED
      BY <2>3, <3>1
  <2> QED
    BY <2>1, <2>2, <2>3
<1>8. PICK got : got = get_categories_set(c)
  OBVIOUS
<1>9. Enumerator(Other) = m
  BY <1>1, <1>2 DEF Enumerator
<1>10. got = IF c \in chars
             THEN {k - 1 : k \in {i \in 1 .. m : c \in info[i].set}} ELSE {m}
  <2>1. CASE c \in chars
    BY <1>1, <1>4, <1>6, <1>8, <2>1
       DEF get_categories_set, construct_categories_set_for_char
  <2>2. CASE c \notin chars
    BY <1>1, <1>6, <1>8, <1>9, <2>2 DEF get_categories_set
  <2> QED
    BY <2>1, <2>2
<1>11. m \in got <=> c \notin chars
  <2>1. \A k \in 1 .. m : k - 1 # m
    BY <1>4
  <2> QED
    BY <1>10, <2>1
<1>12. ASSUME NEW r \in rq
       PROVE  Enumerator(r[2]) \in got <=> c \in r[1]
  <2>1. PICK k \in 1 .. m : info[k].set = r[1] /\ info[k].name = r[2]
    BY <1>4
  <2>2. r[2] # Other
    BY <1>4, <2>1
  <2>3. PICK l : l = CHOOSE i \in DOMAIN info : info[i].name = r[2]
    OBVIOUS
  <2>4. l \in DOMAIN info /\ info[l].name = r[2]
    BY <1>4, <2>1, <2>3, Zenon
  <2>5. l = k
    BY <1>4, <2>1, <2>4
  <2>6. Enumerator(r[2]) = k - 1
    BY <1>1, <2>2, <2>3, <2>5 DEF Enumerator
  <2>7. k - 1 \in got <=> c \in info[k].set
    <3>1. CASE c \in chars
      <4>1. \A i \in 1 .. m : i - 1 = k - 1 => i = k
        BY <1>4
      <4> QED
        BY <1>10, <3>1, <4>1
    <3>2. CASE c \notin chars
      <4>1. k - 1 # m
        BY <1>4
      <4>2. c \notin info[k].set
        BY <1>5, <3>2
      <4> QED
        BY <1>10, <3>2, <4>1, <4>2
    <3> QED
      BY <3>1, <3>2
  <2> QED
    BY <2>1, <2>6, <2>7
<1> QED
  BY <1>1, <1>7, <1>8, <1>9, <1>11, <1>12

-----------------------------------------------------------------------------
(* The categories in the steps of Tables.                                  *)

CatInv ==
  /\ \E n : Sound(char_cat, n)
  /\ Named(char_cat, category_name, requests)
  /\ NamesUsed(category_name, requests)

(* The delimiters ask for their category last.                             *)
NotYetInv ==
  phase = "define" =>
    \A x \in DOMAIN category_name : category_name[x] # DELIMITER_BEGIN

TableInv ==
  phase = "scan" => TableRight(categories_info, categories_table, requests)

(* No delimiter is the empty string.                                       *)
RealInv == \A k \in DOMAIN del_repres : del_repres[k] # 0

LEMMA CategoryStep ==
  ASSUME CatInv, NEW s, CharSet(s), NEW name, add_category(s, name),
         \A x \in DOMAIN category_name : category_name[x] # name,
         \/ name = DELIMITER_BEGIN
         \/ name = <<"CATEGORY", Cardinality(requests)>>
  PROVE  /\ CatInv'
         /\ \A x \in DOMAIN category_name' :
              \/ category_name'[x] = name
              \/ \E y \in DOMAIN category_name :
                   category_name'[x] = category_name[y]
<1>1. PICK nb, n, names, rq :
        /\ nb = char_cat /\ names = category_name /\ rq = requests
        /\ Sound(nb, n)
  BY DEF CatInv
<1>2. Ordered(s) \in Seq(Nat)
  BY OrderedIs DEF CharSet
<1>3. PICK nc, at : insertSet(nb, s) = [nb |-> nc, at |-> at]
  <2>1. PICK w : w = Ordered(s) /\ w \in Seq(Nat)
    BY <1>2
  <2>2. \E nc, to : insert(nb, w, 0) = [nb |-> nc, at |-> to]
    BY <1>1, <2>1, StringInserted
  <2> QED
    BY <2>1, <2>2 DEF insertSet
<1>4. PICK given : given = NameGiven(names, at, name)
  OBVIOUS
<1>5. insertSet(char_cat, s).nb = nc /\ insertSet(char_cat, s).at = at
  BY <1>1, <1>3
<1>6. NameOf(char_cat, category_name, s, name) = given
  BY <1>1, <1>4, <1>5 DEF NameOf, NameGiven
<1>7. char_cat' = nc
  BY <1>5, Zenon DEF add_category
<1>8. category_name' = NamedMore(names, at, given)
  BY <1>1, <1>5, <1>6, Zenon DEF add_category, NamedMore
<1>9. requests' = rq \cup {<<s, given>>}
  BY <1>1, <1>6, Zenon DEF add_category
<1>10. Named(nb, names, rq) /\ NamesUsed(names, rq)
       /\ \A x \in DOMAIN names : names[x] # name
  BY <1>1 DEF CatInv
<1>11. NamedWell(nc, NamedMore(names, at, given), rq \cup {<<s, given>>})
  <2>1. Sound(nb, n) /\ Named(nb, names, rq) /\ CharSet(s)
    BY <1>1, <1>10
  <2>2. \A x \in DOMAIN names : names[x] # name
    BY <1>10
  <2> QED
    BY <1>3, <1>4, <2>1, <2>2, CategoryAdded, Zenon
<1>12. name = DELIMITER_BEGIN \/ name = <<"CATEGORY", Cardinality(rq)>>
  BY <1>1
<1>13. NamesUsed(NamedMore(names, at, given), rq \cup {<<s, given>>})
  BY <1>4, <1>10, <1>12, NamesUsedMore
<1>14. CatInv'
  BY <1>7, <1>8, <1>9, <1>11, <1>13 DEF CatInv, NamedWell
<1>15. ASSUME NEW x \in DOMAIN category_name'
       PROVE  \/ category_name'[x] = name
              \/ \E y \in DOMAIN category_name :
                   category_name'[x] = category_name[y]
  <2>1. x \in DOMAIN names \cup {at}
        /\ category_name'[x] = IF x \in DOMAIN names THEN names[x] ELSE given
    BY <1>8 DEF NamedMore
  <2> QED
    BY <1>1, <1>4, <2>1 DEF NameGiven
<1> QED
  BY <1>14, <1>15

(* The first characters of the delimiters are a finite set.                *)
LEMMA FirstsAre ==
  ASSUME DelimIInv, RealInv,
         NEW chars, chars = {get_string(strs_trie, del_repres[k])[1] :
                               k \in DOMAIN del_repres}
  PROVE  CharSet(chars)
<1>1. PICK nb, n : nb = strs_trie /\ Sound(nb, n)
  BY DEF DelimIInv, InternedInv
<1>2. PICK m : m = Len(del_repres) /\ m \in Nat /\ DOMAIN del_repres = 1 .. m
  BY DEF DelimIInv, DelimInv
<1>3. PICK firsts : firsts = [k \in 1 .. m |-> get_string(nb, del_repres[k])[1]]
  OBVIOUS
<1>4. ASSUME NEW k \in 1 .. m PROVE firsts[k] \in Nat
  <2>1. PICK i : i = del_repres[k]
    OBVIOUS
  <2>2. i \in DOMAIN nb /\ i # 0
    BY <1>1, <1>2, <2>1 DEF DelimIInv, DelimInv, RealInv
  <2>3. i \in 0 .. n /\ 0 \in 0 .. n
    BY <1>1, <2>2, KidsAre
  <2>4. get_string(nb, i) \in Seq(Nat) /\ get_string(nb, 0) = <<>>
    BY <1>1, <2>3, StringsAre, StringIs
  <2>5. get_string(nb, i) # <<>>
    BY <1>1, <2>2, <2>3, <2>4, StringsApart
  <2>6. get_string(nb, i)[1] \in Nat
    BY <2>4, <2>5
  <2> QED
    BY <1>3, <2>1, <2>6
<1>5. chars = {firsts[k] : k \in 1 .. m}
  BY <1>1, <1>2, <1>3
<1>6. DOMAIN firsts = 1 .. m
  BY <1>3
<1>7. firsts \in Surjection(1 .. m, chars)
  BY <1>3, <1>5 DEF Surjection
<1>8. IsFiniteSet(1 .. m)
  BY <1>2, FS_Interval
<1>9. IsFiniteSet(chars)
  BY <1>7, <1>8, FS_Surjection
<1> QED
  BY <1>4, <1>5, <1>9 DEF CharSet

LEMMA RealStep ==
  ASSUME DelimIInv, RealInv, NEW w \in Words, add_new_string(w)
  PROVE  RealInv'
<1>1. PICK nb, n : nb = strs_trie /\ Sound(nb, n)
  BY DEF DelimIInv, InternedInv
<1>2. PICK nc, to, m :
        /\ insert(nb, w, 0) = [nb |-> nc, at |-> to]
        /\ Sound(nc, m) /\ to \in DOMAIN nc /\ get_string(nc, to) = w
  BY <1>1, WordInserted
<1>3. to # 0
  <2>1. get_string(nc, 0) = <<>> /\ w # <<>>
    BY <1>2, StringIs, WordsAre
  <2> QED
    BY <1>2, <2>1
<1>4. insert(strs_trie, w, 0).at = to
  BY <1>1, <1>2
<1>5. del_repres' = del_repres \/ del_repres' = Append(del_repres, to)
  BY <1>4, Zenon DEF add_new_string
<1>6. del_repres \in Seq(Nat)
  BY DEF DelimIInv
<1>7. CASE del_repres' = Append(del_repres, to)
  <2>1. \A k \in DOMAIN del_repres' :
          \/ k \in DOMAIN del_repres /\ del_repres'[k] = del_repres[k]
          \/ del_repres'[k] = to
    BY <1>6, <1>7
  <2> QED
    BY <1>3, <2>1 DEF RealInv
<1> QED
  BY <1>5, <1>7 DEF RealInv

CatIInv == CatInv /\ NotYetInv /\ TableInv /\ RealInv

LEMMA AutomatonStep ==
  ASSUME DelimIInv, CatIInv, NEW s \in CharSets, generate_automaton(s)
  PROVE  CatIInv'
<1>0. CatInv /\ NotYetInv /\ TableInv /\ RealInv
  BY DEF CatIInv
<1>1. PICK n : n = Cardinality(requests) /\ n \in Nat
  BY <1>0, FS_CardinalityType DEF CatInv, NamesUsed
<1>2. PICK name : name = <<"CATEGORY", Cardinality(requests)>>
  OBVIOUS
<1>3. add_category(s, name)
  BY <1>2, Zenon DEF generate_automaton
<1>4. CharSet(s)
  BY TablesAssumption DEF CharSet
<1>5. ASSUME NEW x \in DOMAIN category_name PROVE category_name[x] # name
  <2>1. Numbered(category_name[x], n)
    BY <1>0, <1>1 DEF CatInv, NamesUsed
  <2>2. ASSUME NEW i \in Nat, i < n PROVE <<"CATEGORY", i>> # name
    BY <1>1, <1>2, <2>2
  <2>3. DELIMITER_BEGIN # name
    BY <1>2, NamesApart
  <2> QED
    BY <2>1, <2>2, <2>3 DEF Numbered
<1>6. /\ CatInv'
      /\ \A x \in DOMAIN category_name' :
           \/ category_name'[x] = name
           \/ \E y \in DOMAIN category_name :
                category_name'[x] = category_name[y]
  BY <1>0, <1>2, <1>3, <1>4, <1>5, CategoryStep
<1>7. phase' = phase /\ phase # "scan" /\ del_repres' = del_repres
  <2>1. phase \in {"define", "generate"} /\ UNCHANGED <<phase, defVars>>
    BY Zenon DEF generate_automaton
  <2> QED
    BY <2>1 DEF defVars
<1>8. NotYetInv'
  <2>1. name # DELIMITER_BEGIN
    BY <1>2, NamesApart
  <2> QED
    BY <1>0, <1>6, <1>7, <2>1 DEF NotYetInv
<1>9. TableInv' /\ RealInv'
  BY <1>0, <1>7 DEF TableInv, RealInv
<1> QED
  BY <1>6, <1>8, <1>9 DEF CatIInv

LEMMA DelimitersStep ==
  ASSUME DelimIInv, CatIInv, generate_delim_automaton_impl
  PROVE  CatIInv'
<1>0. CatInv /\ NotYetInv /\ TableInv /\ RealInv
  BY DEF CatIInv
<1> DEFINE strings == [k \in DOMAIN del_repres |->
                         get_string(strs_trie, del_repres[k])]
<1>1. PICK chars : chars = {strings[k][1] : k \in DOMAIN strings}
  OBVIOUS
<1>2. add_category(chars, DELIMITER_BEGIN)
  BY <1>1, Zenon DEF generate_delim_automaton_impl
<1>3. chars = {get_string(strs_trie, del_repres[k])[1] :
                 k \in DOMAIN del_repres}
  BY <1>1
<1>4. CharSet(chars)
  BY <1>0, <1>3, FirstsAre
<1>5. phase = "define" /\ phase' = "generate" /\ UNCHANGED defVars
  BY Zenon DEF generate_delim_automaton_impl
<1>6. \A x \in DOMAIN category_name : category_name[x] # DELIMITER_BEGIN
  BY <1>0, <1>5 DEF NotYetInv
<1>7. CatInv'
  BY <1>0, <1>2, <1>4, <1>6, CategoryStep
<1>8. NotYetInv' /\ TableInv'
  BY <1>5 DEF NotYetInv, TableInv
<1>9. RealInv'
  BY <1>0, <1>5 DEF RealInv, defVars
<1> QED
  BY <1>7, <1>8, <1>9 DEF CatIInv

LEMMA TableStep ==
  ASSUME CatIInv, generate_category_table
  PROVE  CatIInv'
<1>0. CatInv /\ NotYetInv /\ TableInv /\ RealInv
  BY DEF CatIInv
<1>1. PICK nb, n, names, rq :
        /\ nb = char_cat /\ names = category_name /\ rq = requests
        /\ Sound(nb, n)
  BY <1>0 DEF CatInv
<1>2. PICK info : info = InfoOf(nb, names)
  OBVIOUS
<1>5. phase' = "scan" /\ UNCHANGED <<defVars, catVars>>
  BY Zenon DEF generate_category_table
<1>6. categories_info' = info /\ categories_table' = TableOf(info)
  <2>1. categories_info' = InfoOf(char_cat, category_name)
    BY Zenon DEF generate_category_table, InfoOf
  <2>2. categories_table' = TableOf(InfoOf(char_cat, category_name))
    BY Zenon DEF generate_category_table, InfoOf, TableOf
  <2> QED
    BY <1>1, <1>2, <2>1, <2>2
<1>7. Named(nb, names, rq) /\ NamesUsed(names, rq)
  BY <1>0, <1>1 DEF CatInv
<1>8. TableRight(info, TableOf(info), rq)
  BY <1>1, <1>2, <1>7, TableBuilt
<1>9. requests' = rq
  BY <1>1, <1>5 DEF catVars
<1>10. TableInv'
  BY <1>6, <1>8, <1>9 DEF TableInv
<1>11. CatInv' /\ RealInv'
  BY <1>0, <1>5 DEF CatInv, RealInv, catVars, defVars
<1>12. NotYetInv'
  BY <1>5 DEF NotYetInv
<1> QED
  BY <1>10, <1>11, <1>12 DEF CatIInv

(* add_category, generate_category_table: each set asked for has one name, *)
(* no two have the same, and the table tells of the sets asked for.        *)
THEOREM CategoriesInvariant == Spec => []CatIInv
<1>1. Init => CatIInv
  <2> SUFFICES ASSUME Init PROVE CatIInv
    OBVIOUS
  <2>1. /\ char_cat = EmptyTrie /\ category_name = <<>> /\ requests = {}
        /\ phase = "define" /\ del_repres = <<>>
    BY DEF Init
  <2>2. DOMAIN category_name = {} /\ DOMAIN del_repres = {}
    BY <2>1
  <2>3. Sound(char_cat, 0)
    BY <2>1, EmptySound
  <2>4. Named(char_cat, category_name, requests)
    BY <2>1, <2>2 DEF Named
  <2>5. NamesUsed(category_name, requests)
    BY <2>1, <2>2, FS_EmptySet DEF NamesUsed
  <2>6. NotYetInv /\ TableInv /\ RealInv
    BY <2>1, <2>2 DEF NotYetInv, TableInv, RealInv
  <2> QED
    BY <2>3, <2>4, <2>5, <2>6 DEF CatIInv, CatInv
<1>2. DelimIInv /\ CatIInv /\ [Next]_vars => CatIInv'
  <2> SUFFICES ASSUME DelimIInv, CatIInv, [Next]_vars PROVE CatIInv'
    OBVIOUS
  <2>0. CatInv /\ NotYetInv /\ TableInv /\ RealInv
    BY DEF CatIInv
  <2>1. ASSUME UNCHANGED <<phase, char_cat, category_name, requests,
                           categories_info, categories_table>>,
               RealInv'
        PROVE  CatIInv'
    <3>1. CatInv'
      BY <2>0, <2>1 DEF CatInv
    <3>2. NotYetInv' /\ TableInv'
      BY <2>0, <2>1 DEF NotYetInv, TableInv
    <3> QED
      BY <2>1, <3>1, <3>2 DEF CatIInv
  <2>2. ASSUME UNCHANGED del_repres PROVE RealInv'
    BY <2>0, <2>2 DEF RealInv
  <2>3. ASSUME NEW w \in Words, string_literal(w) PROVE CatIInv'
    <3>1. UNCHANGED <<phase, del_repres, catVars, tabVars>>
      BY <2>3, Zenon DEF string_literal
    <3> QED
      BY <2>1, <2>2, <3>1 DEF catVars, tabVars
  <2>4. ASSUME NEW w \in Words, add_new_string(w) PROVE CatIInv'
    <3>1. UNCHANGED <<phase, catVars, tabVars>>
      BY <2>4, Zenon DEF add_new_string
    <3>2. RealInv'
      BY <2>0, <2>4, RealStep
    <3> QED
      BY <2>1, <3>1, <3>2 DEF catVars, tabVars
  <2>5. ASSUME NEW s \in CharSets, generate_automaton(s) PROVE CatIInv'
    BY <2>5, AutomatonStep
  <2>6. CASE generate_delim_automaton_impl
    BY <2>6, DelimitersStep
  <2>7. CASE generate_category_table
    BY <2>7, TableStep
  <2>8. ASSUME NEW c \in Texts, start_proc(c) PROVE CatIInv'
    BY <2>1, <2>2, <2>8, Zenon DEF start_proc, defVars, catVars, tabVars
  <2>9. CASE delimiter_begin
    BY <2>1, <2>2, <2>9, Zenon DEF delimiter_begin, defVars, catVars, tabVars
  <2>10. ASSUME NEW c \in Texts, delimiter_proc(c) PROVE CatIInv'
    BY <2>1, <2>2, <2>10, Zenon DEF delimiter_proc, defVars, catVars, tabVars
  <2>11. CASE delimiter_final_proc
    BY <2>1, <2>2, <2>11, Zenon
       DEF delimiter_final_proc, defVars, catVars, tabVars
  <2>12. CASE UNCHANGED vars
    BY <2>1, <2>2, <2>12, Zenon DEF vars, defVars, catVars, tabVars
  <2> QED
    BY <2>3, <2>4, <2>5, <2>6, <2>7, <2>8, <2>9, <2>10, <2>11, <2>12
       DEF Next
<1> QED
  BY <1>1, <1>2, DelimInvariant, PTL DEF Spec

(* add_category, generate_category_table: a character of a set that an     *)
(* automaton asked for has the category it was told, and no other          *)
(* character has it; a character of no set is Other: for all sets, asked   *)
(* for in any order, as long as a category is a bit.                       *)
THEOREM CategoriesAlwaysTold == Spec => []CategoriesTold
<1>1. CatIInv => CategoriesTold
  BY ToldRight DEF CatIInv, TableInv, CategoriesTold
<1> QED
  BY <1>1, CategoriesInvariant, PTL

-----------------------------------------------------------------------------
(* Induction over an interval, for the members of a set; a sequence of     *)
(* values each of which is made from the one before.                       *)

LEMMA Upwards ==
  ASSUME NEW m \in Nat, NEW n \in Nat, NEW P, m \in P,
         \A k \in m .. n - 1 : k \in P => k + 1 \in P
  PROVE  \A k \in m .. n : k \in P
<1> DEFINE T == {k \in m .. n : k \notin P}
<1>1. SUFFICES ASSUME T # {} PROVE FALSE
  OBVIOUS
<1>2. T \subseteq Nat
  OBVIOUS
<1>3. PICK l \in T : \A y \in T : l <= y
  <2> HIDE DEF T
  <2> QED
    BY <1>1, <1>2, LeastOf
<1>4. l \in m .. n /\ l \notin P /\ l # m
  OBVIOUS
<1>5. l - 1 \in m .. n - 1 /\ l - 1 \in m .. n /\ ~(l <= l - 1)
  BY <1>4
<1>6. l - 1 \in P
  BY <1>3, <1>5
<1>7. (l - 1) + 1 = l
  BY <1>4
<1> QED
  BY <1>4, <1>5, <1>6, <1>7

Iterated(m, n, V, z, step, f) ==
  /\ f \in [m .. n -> V] /\ f[m] = z
  /\ \A k \in m + 1 .. n : f[k] = step[<<k, f[k - 1]>>]

LEMMA Iterates ==
  ASSUME NEW m \in Nat, NEW n \in Nat, m <= n, NEW V, NEW z \in V,
         NEW step \in [(m + 1 .. n) \X V -> V]
  PROVE  \E f : Iterated(m, n, V, z, step, f)
<1> DEFINE P == {l \in m .. n : \E f : Iterated(m, l, V, z, step, f)}
<1>1. m \in P
  <2> DEFINE f == [k \in m .. m |-> z]
  <2>1. f \in [m .. m -> V] /\ f[m] = z /\ m + 1 .. m = {}
    OBVIOUS
  <2>2. Iterated(m, m, V, z, step, f)
    <3> HIDE DEF f
    <3> QED
      BY <2>1 DEF Iterated
  <2> QED
    BY <2>2
<1>2. ASSUME NEW l \in m .. n - 1, l \in P PROVE l + 1 \in P
  <2>1. PICK f : Iterated(m, l, V, z, step, f)
    BY <1>2
  <2>2. /\ l \in m .. l /\ l + 1 \in m + 1 .. n /\ l + 1 \in m .. n
        /\ l \in Nat /\ f[l] \in V
    BY <2>1 DEF Iterated
  <2>3. PICK v : v = step[<<l + 1, f[l]>>]
    OBVIOUS
  <2>4. v \in V
    BY <2>2, <2>3
  <2> DEFINE g == [k \in m .. l + 1 |-> IF k = l + 1 THEN v ELSE f[k]]
  <2>5. g[l + 1] = v /\ \A k \in m .. l : g[k] = f[k] /\ f[k] \in V
    BY <2>1, <2>2 DEF Iterated
  <2>6. g \in [m .. l + 1 -> V]
    <3>1. \A k \in m .. l + 1 : k = l + 1 \/ k \in m .. l
      BY <2>2
    <3> QED
      BY <2>4, <2>5, <3>1
  <2>7. g[m] = z
    BY <2>1, <2>2, <2>5 DEF Iterated
  <2>8. ASSUME NEW k \in m + 1 .. l + 1
        PROVE  g[k] = step[<<k, g[k - 1]>>]
    <3>1. k - 1 \in m .. l
      BY <2>2
    <3>2. CASE k = l + 1
      <4>1. k - 1 = l
        BY <2>2, <3>2
      <4> QED
        BY <2>3, <2>5, <3>1, <3>2, <4>1
    <3>3. CASE k # l + 1
      <4>1. k \in m + 1 .. l /\ k \in m .. l
        BY <2>2, <3>3
      <4>2. f[k] = step[<<k, f[k - 1]>>]
        BY <2>1, <4>1 DEF Iterated
      <4> HIDE DEF g
      <4> QED
        BY <2>5, <3>1, <4>1, <4>2
    <3> QED
      BY <3>2, <3>3
  <2>9. Iterated(m, l + 1, V, z, step, g)
    <3> HIDE DEF g
    <3> QED
      BY <2>6, <2>7, <2>8 DEF Iterated
  <2> QED
    BY <2>2, <2>9
<1>3. n \in P
  <2>1. n \in m .. n
    OBVIOUS
  <2> HIDE DEF P
  <2> QED
    BY <1>1, <1>2, <2>1, Upwards
<1> QED
  BY <1>3

-----------------------------------------------------------------------------
(* The concatenation of sequences: the k-th of them begins after the place *)
(* off[k - 1], and each place of the concatenation is in one of them.      *)

Blocks(ss, l, s, off) ==
  /\ off \in [0 .. l -> Nat] /\ off[0] = 0 /\ off[l] = Len(s)
  /\ \A k \in 1 .. l :
       /\ off[k] = off[k - 1] + Len(ss[k]) /\ off[k] <= Len(s)
       /\ \A i \in 1 .. Len(ss[k]) : s[off[k - 1] + i] = ss[k][i]
  /\ \A p \in 1 .. Len(s) :
       \E k \in 1 .. l : \E i \in 1 .. Len(ss[k]) : p = off[k - 1] + i

LEMMA BlockAppended ==
  ASSUME NEW S, NEW ss \in Seq(Seq(S)), NEW l \in 0 .. Len(ss) - 1,
         NEW s \in Seq(S), NEW off, Blocks(ss, l, s, off)
  PROVE  \E to : Blocks(ss, l + 1, s \o ss[l + 1], to)
<1>1. PICK b : b = ss[l + 1] /\ b \in Seq(S)
  OBVIOUS
<1>2. PICK t : t = s \o b
  OBVIOUS
<1>3. /\ t \in Seq(S) /\ Len(t) = Len(s) + Len(b)
      /\ \A i \in 1 .. Len(s) : t[i] = s[i]
      /\ \A i \in 1 .. Len(b) : t[Len(s) + i] = b[i]
  BY <1>1, <1>2
<1>4. Len(s) \in Nat /\ Len(b) \in Nat /\ l \in Nat
  BY <1>1
<1> DEFINE to == [k \in 0 .. l + 1 |-> IF k = l + 1 THEN Len(t) ELSE off[k]]
<1>5. to[l + 1] = Len(t) /\ \A k \in 0 .. l : to[k] = off[k] /\ off[k] \in Nat
  BY <1>4 DEF Blocks
<1>6. to \in [0 .. l + 1 -> Nat]
  <2>1. \A k \in 0 .. l + 1 : k = l + 1 \/ k \in 0 .. l
    BY <1>4
  <2>2. Len(t) \in Nat
    BY <1>3
  <2> QED
    BY <1>5, <2>1, <2>2
<1> HIDE DEF to
<1>7. to[0] = 0 /\ to[l] = Len(s)
  <2>1. 0 \in 0 .. l /\ l \in 0 .. l
    BY <1>4
  <2> QED
    BY <1>5, <2>1 DEF Blocks
<1>8. ASSUME NEW k \in 1 .. l + 1
      PROVE  /\ to[k] = to[k - 1] + Len(ss[k]) /\ to[k] <= Len(t)
             /\ \A i \in 1 .. Len(ss[k]) : t[to[k - 1] + i] = ss[k][i]
  <2>1. CASE k = l + 1
    <3>1. k - 1 = l /\ ss[k] = b
      BY <1>1, <1>4, <2>1
    <3>2. to[k - 1] = Len(s) /\ to[k] = Len(t)
      BY <1>5, <1>7, <2>1, <3>1
    <3>3. ASSUME NEW i \in 1 .. Len(ss[k]) PROVE t[to[k - 1] + i] = ss[k][i]
      BY <1>3, <3>1, <3>2
    <3> QED
      BY <1>3, <1>4, <3>1, <3>2, <3>3
  <2>2. CASE k # l + 1
    <3>1. k \in 1 .. l /\ k \in 0 .. l /\ k - 1 \in 0 .. l
      BY <1>4, <2>2
    <3>2. to[k] = off[k] /\ to[k - 1] = off[k - 1] /\ off[k - 1] \in Nat
      BY <1>5, <3>1
    <3>3. /\ off[k] = off[k - 1] + Len(ss[k]) /\ off[k] <= Len(s)
          /\ \A i \in 1 .. Len(ss[k]) : s[off[k - 1] + i] = ss[k][i]
      BY <3>1 DEF Blocks
    <3>4. Len(ss[k]) \in Nat
      OBVIOUS
    <3>5. ASSUME NEW i \in 1 .. Len(ss[k])
          PROVE  off[k - 1] + i \in 1 .. Len(s)
      BY <1>4, <3>2, <3>3, <3>4
    <3>6. ASSUME NEW i \in 1 .. Len(ss[k]) PROVE t[to[k - 1] + i] = ss[k][i]
      <4>1. PICK x : x = off[k - 1] + i /\ x \in 1 .. Len(s)
        BY <3>5
      <4>2. t[x] = s[x]
        BY <1>3, <4>1
      <4> QED
        BY <3>2, <3>3, <4>1, <4>2
    <3>7. off[k] <= Len(t)
      BY <1>3, <1>4, <3>2, <3>3, <3>4
    <3> QED
      BY <3>2, <3>3, <3>6, <3>7
  <2> QED
    BY <2>1, <2>2
<1>9. ASSUME NEW p \in 1 .. Len(t)
      PROVE  \E k \in 1 .. l + 1 :
               \E i \in 1 .. Len(ss[k]) : p = to[k - 1] + i
  <2>1. CASE p <= Len(s)
    <3>1. p \in 1 .. Len(s)
      BY <1>4, <2>1
    <3>2. PICK k \in 1 .. l : \E i \in 1 .. Len(ss[k]) : p = off[k - 1] + i
      BY <3>1 DEF Blocks
    <3>3. k \in 1 .. l + 1 /\ k - 1 \in 0 .. l
      BY <1>4
    <3> QED
      BY <1>5, <3>2, <3>3
  <2>2. CASE ~(p <= Len(s))
    <3>1. p - Len(s) \in 1 .. Len(b) /\ p = Len(s) + (p - Len(s))
      BY <1>3, <1>4, <2>2
    <3>2. l + 1 \in 1 .. l + 1 /\ (l + 1) - 1 = l
      BY <1>4
    <3> QED
      BY <1>1, <1>7, <3>1, <3>2
  <2> QED
    BY <2>1, <2>2
<1>10. Blocks(ss, l + 1, t, to)
  BY <1>5, <1>6, <1>7, <1>8, <1>9 DEF Blocks
<1> QED
  BY <1>1, <1>2, <1>10

IsFlatten(ss, f) ==
  f = [i \in 1 .. Len(ss) |-> IF i = 1 THEN ss[i] ELSE f[i - 1] \o ss[i]]

LEMMA FlattenExists ==
  ASSUME NEW S, NEW ss \in Seq(Seq(S)), ss # <<>>
  PROVE  \E f : IsFlatten(ss, f)
<1> DEFINE step == [p \in (2 .. Len(ss)) \X Seq(S) |-> p[2] \o ss[p[1]]]
<1>1. Len(ss) \in Nat /\ 1 <= Len(ss) /\ ss[1] \in Seq(S) /\ 1 + 1 = 2
  OBVIOUS
<1>2. \A k \in 2 .. Len(ss) : ss[k] \in Seq(S)
  OBVIOUS
<1>3. step \in [(1 + 1 .. Len(ss)) \X Seq(S) -> Seq(S)]
  <2>1. \A p \in (2 .. Len(ss)) \X Seq(S) : p[2] \o ss[p[1]] \in Seq(S)
    BY <1>2
  <2> QED
    BY <1>1, <2>1
<1>4. \A k \in 2 .. Len(ss) : \A v \in Seq(S) : step[<<k, v>>] = v \o ss[k]
  OBVIOUS
<1>5. PICK f : Iterated(1, Len(ss), Seq(S), ss[1], step, f)
  <2> HIDE DEF step
  <2> QED
    BY <1>1, <1>3, Iterates
<1> HIDE DEF step
<1>6. ASSUME NEW i \in 1 .. Len(ss)
      PROVE  f[i] = IF i = 1 THEN ss[i] ELSE f[i - 1] \o ss[i]
  <2>1. CASE i = 1
    BY <1>5, <2>1 DEF Iterated
  <2>2. CASE i # 1
    <3>1. i \in 2 .. Len(ss) /\ i \in 1 + 1 .. Len(ss) /\ i - 1 \in 1 .. Len(ss)
      BY <1>1, <2>2
    <3>2. f[i] = step[<<i, f[i - 1]>>] /\ f[i - 1] \in Seq(S)
      BY <1>5, <3>1 DEF Iterated
    <3> QED
      BY <1>4, <2>2, <3>1, <3>2
  <2> QED
    BY <2>1, <2>2
<1>7. f = [i \in 1 .. Len(ss) |-> f[i]]
  BY <1>5 DEF Iterated
<1> QED
  BY <1>6, <1>7 DEF IsFlatten

LEMMA FlattenIs ==
  ASSUME NEW S, NEW ss \in Seq(Seq(S)), NEW f, IsFlatten(ss, f),
         NEW l \in 1 .. Len(ss)
  PROVE  f[l] \in Seq(S) /\ \E off : Blocks(ss, l, f[l], off)
<1> DEFINE P == {k \in 1 .. Len(ss) :
                   f[k] \in Seq(S) /\ \E off : Blocks(ss, k, f[k], off)}
<1>0. Len(ss) \in Nat
  OBVIOUS
<1>1. 1 \in P
  <2>1. 1 \in 1 .. Len(ss) /\ ss[1] \in Seq(S) /\ 0 \in 0 .. Len(ss) - 1
    BY <1>0
  <2>2. f[1] = ss[1]
    BY <2>1 DEF IsFlatten
  <2>3. PICK off : Blocks(ss, 0, <<>>, off)
    <3> DEFINE off == [k \in 0 .. 0 |-> 0]
    <3>1. off \in [0 .. 0 -> Nat] /\ off[0] = 0 /\ 1 .. 0 = {}
      OBVIOUS
    <3>2. Len(<<>>) = 0
      OBVIOUS
    <3> HIDE DEF off
    <3>3. Blocks(ss, 0, <<>>, off)
      BY <3>1, <3>2 DEF Blocks
    <3> QED
      BY <3>3
  <2>4. <<>> \in Seq(S) /\ <<>> \o ss[0 + 1] = f[1] /\ 0 + 1 = 1
    BY <2>1, <2>2
  <2>5. \E to : Blocks(ss, 0 + 1, <<>> \o ss[0 + 1], to)
    BY <2>1, <2>3, <2>4, BlockAppended
  <2>6. \E to : Blocks(ss, 1, f[1], to)
    BY <2>4, <2>5
  <2> QED
    BY <2>1, <2>2, <2>6
<1>2. ASSUME NEW k \in 1 .. Len(ss) - 1, k \in P PROVE k + 1 \in P
  <2>1. /\ k + 1 \in 1 .. Len(ss) /\ k + 1 # 1 /\ k \in 0 .. Len(ss) - 1
        /\ (k + 1) - 1 = k
    BY <1>0
  <2>2. f[k + 1] = f[k] \o ss[k + 1]
    BY <2>1 DEF IsFlatten
  <2>3. f[k] \in Seq(S) /\ ss[k + 1] \in Seq(S)
    BY <1>2, <2>1
  <2>4. PICK off : Blocks(ss, k, f[k], off)
    BY <1>2
  <2>5. \E to : Blocks(ss, k + 1, f[k] \o ss[k + 1], to)
    BY <2>1, <2>3, <2>4, BlockAppended
  <2>6. f[k + 1] \in Seq(S)
    BY <2>2, <2>3
  <2>7. \E to : Blocks(ss, k + 1, f[k + 1], to)
    BY <2>2, <2>5
  <2> QED
    BY <2>1, <2>6, <2>7
<1>3. l \in P
  <2>1. 1 \in Nat
    OBVIOUS
  <2> HIDE DEF P
  <2> QED
    BY <1>0, <1>1, <1>2, <2>1, Upwards
<1> QED
  BY <1>3

LEMMA FlattenedIs ==
  ASSUME NEW S, NEW ss \in Seq(Seq(S))
  PROVE  /\ FlattenSeq(ss) \in Seq(S)
         /\ \E off : Blocks(ss, Len(ss), FlattenSeq(ss), off)
<1>1. CASE ss = <<>>
  <2>1. Len(ss) = 0
    BY <1>1
  <2>2. FlattenSeq(ss) = <<>>
    BY <1>1, <2>1, Zenon DEF FlattenSeq
  <2> DEFINE off == [k \in 0 .. 0 |-> 0]
  <2>3. off \in [0 .. 0 -> Nat] /\ off[0] = 0 /\ 1 .. 0 = {} /\ Len(<<>>) = 0
    OBVIOUS
  <2> HIDE DEF off
  <2>4. Blocks(ss, 0, <<>>, off)
    BY <2>3 DEF Blocks
  <2> QED
    BY <2>1, <2>2, <2>4
<1>2. CASE ss # <<>>
  <2>1. Len(ss) # 0 /\ Len(ss) \in 1 .. Len(ss)
    BY <1>2
  <2>2. PICK f : f = CHOOSE g : IsFlatten(ss, g)
    OBVIOUS
  <2>3. FlattenSeq(ss) = f[Len(ss)]
    BY <2>1, <2>2, Zenon DEF FlattenSeq, IsFlatten
  <2>4. IsFlatten(ss, f)
    BY <1>2, <2>2, FlattenExists
  <2> QED
    BY <2>1, <2>3, <2>4, FlattenIs
<1> QED
  BY <1>1, <1>2

-----------------------------------------------------------------------------
(* The levels of a subtree.                                                *)

Below(nb, level) == [i \in DOMAIN level |-> Children(nb, level[i])]

LEMMA NextLevelIs ==
  ASSUME NEW nb, NEW n, Sound(nb, n), NEW level \in Seq(1 .. n)
  PROVE  /\ Below(nb, level) \in Seq(Seq(1 .. n))
         /\ Len(Below(nb, level)) = Len(level)
         /\ \A i \in 1 .. Len(level) :
              Below(nb, level)[i] = Children(nb, level[i])
         /\ get_next_level(nb, level) \in Seq(1 .. n)
         /\ \E off : Blocks(Below(nb, level), Len(level),
                            get_next_level(nb, level), off)
<1>0. n \in Nat /\ Len(level) \in Nat /\ DOMAIN level = 1 .. Len(level)
  BY KidsAre
<1>1. PICK ss : ss = Below(nb, level)
  OBVIOUS
<1>2. /\ ss = [i \in 1 .. Len(level) |-> Children(nb, level[i])]
      /\ \A i \in 1 .. Len(level) : ss[i] = Children(nb, level[i])
  BY <1>0, <1>1 DEF Below
<1>3. ASSUME NEW i \in 1 .. Len(level) PROVE ss[i] \in Seq(1 .. n)
  <2>1. level[i] \in 0 .. n
    BY <1>0
  <2> QED
    BY <1>2, <2>1, ChildrenOf DEF Lists
<1>4. ss \in [1 .. Len(level) -> Seq(1 .. n)]
  BY <1>2, <1>3
<1>5. ss \in Seq(Seq(1 .. n)) /\ Len(ss) = Len(level)
  BY <1>0, <1>4, LengthIs
<1>6. get_next_level(nb, level) = FlattenSeq(ss)
  BY <1>1, Zenon DEF get_next_level, Below
<1>7. PICK S : S = 1 .. n
  OBVIOUS
<1>8. FlattenSeq(ss) \in Seq(S) /\ \E off : Blocks(ss, Len(ss), FlattenSeq(ss), off)
  <2>1. ss \in Seq(Seq(S))
    BY <1>5, <1>7
  <2> QED
    BY <2>1, FlattenedIs
<1> QED
  BY <1>1, <1>2, <1>5, <1>6, <1>7, <1>8

IsLevels(nb, root, f) ==
  f = [k \in 1 .. LastNode(nb) |->
         IF k = 1 THEN <<root>> ELSE get_next_level(nb, f[k - 1])]

LEMMA LevelsAre ==
  ASSUME NEW nb, NEW n, Sound(nb, n), NEW root \in 1 .. n
  PROVE  /\ LevelsFrom(nb, root) \in Seq(Seq(1 .. n))
         /\ Len(LevelsFrom(nb, root)) = n
         /\ LevelsFrom(nb, root)[1] = <<root>>
         /\ \A k \in 2 .. n : LevelsFrom(nb, root)[k]
              = get_next_level(nb, LevelsFrom(nb, root)[k - 1])
<1> DEFINE V == Seq(1 .. n)
           step == [p \in (2 .. n) \X V |-> get_next_level(nb, p[2])]
<1>0. n \in Nat /\ 1 <= n /\ LastNode(nb) = n
  <2>1. DOMAIN nb = 0 .. n /\ n \in Nat
    BY KidsAre
  <2> QED
    BY <2>1, Interval DEF LastNode
<1>1. <<root>> \in V /\ 1 \in Nat /\ 1 + 1 = 2
  OBVIOUS
<1>2. \A v \in V : get_next_level(nb, v) \in V
  BY NextLevelIs
<1>3. step \in [(1 + 1 .. n) \X V -> V]
  <2>1. \A p \in (2 .. n) \X V : p[2] \in V
    OBVIOUS
  <2> HIDE DEF V
  <2> QED
    BY <1>1, <1>2, <2>1
<1>4. \A k \in 2 .. n : \A v \in V : step[<<k, v>>] = get_next_level(nb, v)
  <2> HIDE DEF V
  <2> QED
    OBVIOUS
<1>5. PICK g : Iterated(1, n, V, <<root>>, step, g)
  <2> HIDE DEF step, V
  <2> QED
    BY <1>0, <1>1, <1>3, Iterates
<1>6. IsLevels(nb, root, g)
  <2> HIDE DEF step, V
  <2>1. ASSUME NEW k \in 1 .. n
        PROVE  g[k] = IF k = 1 THEN <<root>> ELSE get_next_level(nb, g[k - 1])
    <3>1. CASE k = 1
      BY <1>5, <3>1 DEF Iterated
    <3>2. CASE k # 1
      <4>1. k \in 2 .. n /\ k \in 1 + 1 .. n /\ k - 1 \in 1 .. n
        BY <1>0, <3>2
      <4>2. g[k] = step[<<k, g[k - 1]>>] /\ g[k - 1] \in V
        BY <1>5, <4>1 DEF Iterated
      <4> QED
        BY <1>4, <3>2, <4>1, <4>2
    <3> QED
      BY <3>1, <3>2
  <2>2. g = [k \in 1 .. n |-> g[k]]
    BY <1>5 DEF Iterated
  <2> QED
    BY <1>0, <2>1, <2>2 DEF IsLevels
<1>7. PICK f : f = CHOOSE h : IsLevels(nb, root, h)
  OBVIOUS
<1>8. IsLevels(nb, root, f) /\ LevelsFrom(nb, root) = f
  <2>1. IsLevels(nb, root, f)
    BY <1>6, <1>7
  <2>2. LevelsFrom(nb, root) = f
    BY <1>7, Zenon DEF LevelsFrom, IsLevels
  <2> QED
    BY <2>1, <2>2
<1> HIDE DEF step
<1>9. /\ f = [k \in 1 .. n |-> f[k]] /\ f[1] = <<root>>
      /\ \A k \in 2 .. n : f[k] = get_next_level(nb, f[k - 1])
  <2>1. \A k \in 1 .. n :
          f[k] = IF k = 1 THEN <<root>> ELSE get_next_level(nb, f[k - 1])
    BY <1>0, <1>8, Zenon DEF IsLevels
  <2>2. f = [k \in 1 .. n |-> f[k]]
    <3>1. \E e : f = [k \in 1 .. n |-> IF k = 1 THEN <<root>> ELSE get_next_level(nb, f[k - 1])]
      BY <1>0, <1>8, Zenon DEF IsLevels
    <3> QED
      BY <3>1
  <2>3. 1 \in 1 .. n /\ \A k \in 2 .. n : k \in 1 .. n /\ k # 1
    BY <1>0
  <2> QED
    BY <2>1, <2>2, <2>3
<1>10. \A k \in 1 .. n : f[k] \in V
  <2> DEFINE P == {k \in 1 .. n : f[k] \in V}
  <2> HIDE DEF V
  <2>1. 1 \in P
    BY <1>0, <1>1, <1>9
  <2>2. ASSUME NEW k \in 1 .. n - 1, k \in P PROVE k + 1 \in P
    <3>1. k + 1 \in 2 .. n /\ k + 1 \in 1 .. n /\ (k + 1) - 1 = k
      BY <1>0
    <3>2. f[k + 1] = get_next_level(nb, f[k])
      BY <1>9, <3>1
    <3>3. f[k] \in V
      BY <2>2
    <3> QED
      BY <1>2, <3>1, <3>2, <3>3
  <2>3. \A k \in 1 .. n : k \in P
    <3> HIDE DEF P
    <3> QED
      BY <1>0, <1>1, <2>1, <2>2, Upwards
  <2> QED
    BY <2>3
<1>11. f \in Seq(V) /\ Len(f) = n
  <2> HIDE DEF V
  <2>1. f \in [1 .. n -> V]
    BY <1>9, <1>10
  <2> QED
    BY <1>0, <2>1, LengthIs
<1> QED
  BY <1>8, <1>9, <1>11

LEMMA ChildIs ==
  ASSUME NEW nb, NEW n, Sound(nb, n), NEW i \in 0 .. n
  PROVE  LET list == Children(nb, i)
         IN /\ list \in Seq(1 .. n) /\ IsInjective(list)
            /\ \A j \in 1 .. Len(list) :
                 /\ list[j] \in 1 .. n /\ nb[list[j]].parent = i
                 /\ i < list[j]
            /\ list # <<>> <=> nb[i].first_child # 0
<1>1. PICK list : list = Children(nb, i)
  OBVIOUS
<1>2. /\ list \in Seq(1 .. n) /\ Range(list) = Kids(nb, i) /\ IsInjective(list)
      /\ list = <<>> <=> Kids(nb, i) = {}
  BY <1>1, ChildrenOf DEF Lists
<1>3. n \in Nat /\ Kids(nb, i) = {k \in 1 .. n : nb[k].parent = i}
  BY KidsAre
<1>4. ASSUME NEW j \in 1 .. Len(list)
      PROVE  list[j] \in 1 .. n /\ nb[list[j]].parent = i /\ i < list[j]
  <2>1. list[j] \in Kids(nb, i)
    BY <1>2 DEF Range
  <2>2. PICK x : x = list[j] /\ x \in 1 .. n /\ nb[x].parent = i
    BY <1>3, <2>1
  <2>3. nb[x].parent < x
    BY <2>2 DEF Sound
  <2> QED
    BY <2>2, <2>3
<1>5. list # <<>> <=> nb[i].first_child # 0
  <2>1. IsFirst(nb[i].first_child, Kids(nb, i))
    BY DEF Sound
  <2>2. 0 \notin Kids(nb, i)
    BY <1>3
  <2> QED
    BY <1>2, <2>1, <2>2 DEF IsFirst
<1> QED
  BY <1>1, <1>2, <1>4, <1>5

LEMMA NextLevelApart ==
  ASSUME NEW nb, NEW n, Sound(nb, n), NEW level \in Seq(1 .. n),
         IsInjective(level)
  PROVE  IsInjective(get_next_level(nb, level))
<1>0. n \in Nat
  BY KidsAre
<1>1. PICK s, ss : s = get_next_level(nb, level) /\ ss = Below(nb, level)
  OBVIOUS
<1>2. /\ s \in Seq(1 .. n)
      /\ \A i \in 1 .. Len(level) : ss[i] = Children(nb, level[i])
  BY <1>1, NextLevelIs
<1>3. PICK off : Blocks(ss, Len(level), s, off)
  BY <1>1, NextLevelIs
<1>4. ASSUME NEW p \in 1 .. Len(s)
      PROVE  \E k \in 1 .. Len(level) : \E i \in 1 .. Len(ss[k]) :
               /\ p = off[k - 1] + i /\ s[p] = ss[k][i]
               /\ nb[s[p]].parent = level[k]
  <2>0. PICK k \in 1 .. Len(level) : \E i \in 1 .. Len(ss[k]) : p = off[k - 1] + i
    BY <1>3 DEF Blocks
  <2>1. PICK i \in 1 .. Len(ss[k]) : p = off[k - 1] + i
    BY <2>0
  <2>2. s[p] = ss[k][i]
    BY <1>3, <2>1 DEF Blocks
  <2>3. level[k] \in 0 .. n /\ ss[k] = Children(nb, level[k])
    BY <1>0, <1>2
  <2>4. nb[ss[k][i]].parent = level[k]
    BY <2>3, ChildIs
  <2> QED
    BY <2>1, <2>2, <2>4
<1>5. ASSUME NEW p \in 1 .. Len(s), NEW q \in 1 .. Len(s), s[p] = s[q]
      PROVE  p = q
  <2>0. PICK k \in 1 .. Len(level), l \in 1 .. Len(level) :
          /\ \E i \in 1 .. Len(ss[k]) :
               /\ p = off[k - 1] + i /\ s[p] = ss[k][i]
               /\ nb[s[p]].parent = level[k]
          /\ \E j \in 1 .. Len(ss[l]) :
               /\ q = off[l - 1] + j /\ s[q] = ss[l][j]
               /\ nb[s[q]].parent = level[l]
    BY <1>4
  <2>1. PICK i \in 1 .. Len(ss[k]) :
          /\ p = off[k - 1] + i /\ s[p] = ss[k][i]
          /\ nb[s[p]].parent = level[k]
    BY <2>0
  <2>2. PICK j \in 1 .. Len(ss[l]) :
          /\ q = off[l - 1] + j /\ s[q] = ss[l][j]
          /\ nb[s[q]].parent = level[l]
    BY <2>0
  <2>3. k = l
    <3>1. level[k] = level[l]
      BY <1>5, <2>1, <2>2
    <3>2. k \in DOMAIN level /\ l \in DOMAIN level
      OBVIOUS
    <3> QED
      BY <3>1, <3>2 DEF IsInjective
  <2>4. i = j
    <3>1. level[k] \in 0 .. n /\ ss[k] = Children(nb, level[k])
      BY <1>0, <1>2, SMTT(30)
    <3>2. ss[k] \in Seq(1 .. n) /\ IsInjective(ss[k])
      BY <3>1, ChildIs
    <3>3. i \in DOMAIN ss[k] /\ j \in DOMAIN ss[k] /\ ss[k][i] = ss[k][j]
      BY <1>5, <2>1, <2>2, <2>3, <3>2
    <3> QED
      BY <3>2, <3>3 DEF IsInjective
  <2> QED
    BY <2>1, <2>2, <2>3, <2>4
<1>6. DOMAIN s = 1 .. Len(s)
  BY <1>2
<1> QED
  BY <1>1, <1>5, <1>6 DEF IsInjective

(* The k-th level is made of different nodes, none of which is less than k.*)
LEMMA LevelsDeep ==
  ASSUME NEW nb, NEW n, Sound(nb, n), NEW root \in 1 .. n,
         NEW ls, ls = LevelsFrom(nb, root), NEW k \in 1 .. n
  PROVE  IsInjective(ls[k]) /\ \A i \in 1 .. Len(ls[k]) : k <= ls[k][i]
<1> DEFINE P == {l \in 1 .. n : IsInjective(ls[l])
                                /\ \A i \in 1 .. Len(ls[l]) : l <= ls[l][i]}
<1>0. n \in Nat /\ 1 <= n /\ 1 \in Nat
  BY KidsAre
<1>1. /\ ls \in Seq(Seq(1 .. n)) /\ Len(ls) = n /\ ls[1] = <<root>>
      /\ \A l \in 2 .. n : ls[l] = get_next_level(nb, ls[l - 1])
  BY LevelsAre
<1>2. 1 \in P
  <2>1. IsInjective(<<root>>)
    BY DEF IsInjective
  <2>2. \A i \in 1 .. Len(<<root>>) : 1 <= <<root>>[i]
    OBVIOUS
  <2>3. IsInjective(ls[1]) /\ \A i \in 1 .. Len(ls[1]) : 1 <= ls[1][i]
    BY <1>1, <2>1, <2>2
  <2> QED
    BY <1>0, <2>3
<1>3. ASSUME NEW l \in 1 .. n - 1, l \in P PROVE l + 1 \in P
  <2>1. l + 1 \in 2 .. n /\ l + 1 \in 1 .. n /\ (l + 1) - 1 = l /\ l \in 1 .. n
    BY <1>0
  <2>2. PICK level, s, ss : /\ level = ls[l] /\ s = ls[l + 1]
                            /\ ss = Below(nb, level)
    OBVIOUS
  <2>3. s = get_next_level(nb, level) /\ level \in Seq(1 .. n)
    BY <1>1, <2>1, <2>2
  <2>4. IsInjective(level) /\ \A i \in 1 .. Len(level) : l <= level[i]
    BY <1>3, <2>2
  <2>5. IsInjective(s)
    BY <2>3, <2>4, NextLevelApart
  <2>6. /\ s \in Seq(1 .. n)
        /\ \A i \in 1 .. Len(level) : ss[i] = Children(nb, level[i])
    BY <2>2, <2>3, NextLevelIs
  <2>7. PICK off : Blocks(ss, Len(level), s, off)
    BY <2>2, <2>3, NextLevelIs
  <2>8. ASSUME NEW p \in 1 .. Len(s) PROVE l + 1 <= s[p]
    <3>0. PICK m \in 1 .. Len(level) :
            \E i \in 1 .. Len(ss[m]) : p = off[m - 1] + i
      BY <2>7 DEF Blocks
    <3>1. PICK i \in 1 .. Len(ss[m]) : p = off[m - 1] + i
      BY <3>0
    <3>2. s[p] = ss[m][i]
      BY <2>7, <3>1 DEF Blocks
    <3>3. level[m] \in 0 .. n /\ ss[m] = Children(nb, level[m]) /\ l <= level[m]
      BY <1>0, <2>3, <2>4, <2>6
    <3>4. level[m] < ss[m][i] /\ ss[m][i] \in 1 .. n
      BY <3>3, ChildIs
    <3> QED
      BY <3>2, <3>3, <3>4
  <2> QED
    BY <2>1, <2>2, <2>5, <2>8
<1>4. k \in P
  <2> HIDE DEF P
  <2> QED
    BY <1>0, <1>2, <1>3, Upwards
<1> QED
  BY <1>4

LEMMA NothingBefore ==
  ASSUME NEW ss, NEW l \in Nat, NEW s, NEW off, Blocks(ss, l, s, off),
         NEW m \in 0 .. l, \A i \in 1 .. m : Len(ss[i]) = 0
  PROVE  off[m] = 0
<1> DEFINE P == {k \in 0 .. m : off[k] = 0}
<1>1. 0 \in P /\ 0 \in Nat /\ m \in Nat /\ m \in 0 .. m
  BY DEF Blocks
<1>2. ASSUME NEW k \in 0 .. m - 1, k \in P PROVE k + 1 \in P
  <2>1. k + 1 \in 1 .. l /\ k + 1 \in 1 .. m /\ (k + 1) - 1 = k /\ k + 1 \in 0 .. m
    OBVIOUS
  <2>2. off[k + 1] = off[k] + Len(ss[k + 1]) /\ off[k] = 0 /\ Len(ss[k + 1]) = 0
    BY <1>2, <2>1 DEF Blocks
  <2> QED
    BY <2>1, <2>2
<1>3. m \in P
  <2> HIDE DEF P
  <2> QED
    BY <1>1, <1>2, Upwards
<1> QED
  BY <1>3

(* The subtree below root, level by level: the children of a node come     *)
(* after it; and right after it, if no node has children but the last of   *)
(* its level.                                                              *)
StraightFrom(nb, root) ==
  LET levels == LevelsFrom(nb, root)
  IN \A k \in DOMAIN levels : \A i \in Range(levels[k]) :
       nb[i].first_child # 0 => i = Last(levels[k])

Walked(nb, n, root, nodes) ==
  /\ nodes \in Seq(1 .. n) /\ 1 \in 1 .. Len(nodes) /\ nodes[1] = root
  /\ \A p \in 1 .. Len(nodes) :
       LET list == Children(nb, nodes[p])
       IN /\ p + Len(list) <= Len(nodes)
          /\ StraightFrom(nb, root)
               => \A j \in 1 .. Len(list) : nodes[p + j] = list[j]

LEMMA SubtreeWalked ==
  ASSUME NEW nb, NEW n, Sound(nb, n), NEW root \in 1 .. n,
         NEW nodes, nodes = FlattenSeq(LevelsFrom(nb, root))
  PROVE  Walked(nb, n, root, nodes)
<1>0. n \in Nat /\ 1 <= n
  BY KidsAre
<1>1. PICK ls : ls = LevelsFrom(nb, root)
  OBVIOUS
<1>2. /\ ls \in Seq(Seq(1 .. n)) /\ Len(ls) = n /\ ls[1] = <<root>>
      /\ \A k \in 2 .. n : ls[k] = get_next_level(nb, ls[k - 1])
  BY <1>1, LevelsAre
<1>3. \A k \in 1 .. n : ls[k] \in Seq(1 .. n)
  BY <1>2
<1>4. /\ nodes \in Seq(1 .. n)
      /\ \E off : Blocks(ls, n, nodes, off)
  <2>1. PICK S : S = 1 .. n
    OBVIOUS
  <2>2. ls \in Seq(Seq(S))
    BY <1>2, <2>1
  <2>3. FlattenSeq(ls) \in Seq(S)
        /\ \E off : Blocks(ls, Len(ls), FlattenSeq(ls), off)
    BY <2>2, FlattenedIs
  <2> QED
    BY <1>1, <1>2, <2>1, <2>3
<1>5. PICK off : Blocks(ls, n, nodes, off)
  BY <1>4
<1>6. 1 \in 1 .. Len(nodes) /\ nodes[1] = root
  <2>1. /\ off[0] = 0 /\ off[1] = off[0] + Len(ls[1]) /\ off[1] <= Len(nodes)
        /\ \A i \in 1 .. Len(ls[1]) : nodes[off[0] + i] = ls[1][i]
    <3>1. 1 \in 1 .. n /\ 1 - 1 = 0
      BY <1>0
    <3> QED
      BY <1>5, <3>1 DEF Blocks
  <2>2. Len(ls[1]) = 1 /\ ls[1][1] = root /\ 1 \in 1 .. Len(ls[1])
    BY <1>2
  <2>3. nodes[0 + 1] = root
    BY <2>1, <2>2
  <2> QED
    BY <1>4, <2>1, <2>2, <2>3
<1>7. ASSUME NEW p \in 1 .. Len(nodes)
      PROVE  LET list == Children(nb, nodes[p])
             IN /\ p + Len(list) <= Len(nodes)
                /\ StraightFrom(nb, root)
                     => \A j \in 1 .. Len(list) : nodes[p + j] = list[j]
  <2>0. PICK k \in 1 .. n : \E i \in 1 .. Len(ls[k]) : p = off[k - 1] + i
    BY <1>5 DEF Blocks
  <2>1. PICK i \in 1 .. Len(ls[k]) : p = off[k - 1] + i
    BY <2>0
  <2>2. nodes[p] = ls[k][i] /\ off[k] = off[k - 1] + Len(ls[k])
    BY <1>5, <2>1 DEF Blocks
  <2>3. PICK level, x : level = ls[k] /\ x = level[i]
    OBVIOUS
  <2>4. level \in Seq(1 .. n) /\ x \in 1 .. n /\ x \in 0 .. n
        /\ i \in 1 .. Len(level) /\ Len(level) \in Nat
    BY <1>0, <1>3, <2>3
  <2>5. PICK list : list = Children(nb, x)
    OBVIOUS
  <2>6. /\ list \in Seq(1 .. n)
        /\ \A j \in 1 .. Len(list) : list[j] \in 1 .. n /\ x < list[j]
        /\ list # <<>> <=> nb[x].first_child # 0
    BY <2>4, <2>5, ChildIs
  <2>7. list = Children(nb, nodes[p]) /\ Len(list) \in Nat
    BY <2>2, <2>3, <2>5, <2>6
  <2>8. CASE Len(list) = 0
    <3>1. p + Len(list) <= Len(nodes) /\ 1 .. Len(list) = {}
      BY <1>4, <2>8
    <3> QED
      BY <2>7, <3>1
  <2>9. CASE Len(list) # 0
    <3>1. IsInjective(level) /\ k <= x
      BY <1>1, <2>3, <2>4, LevelsDeep
    <3>2. 1 \in 1 .. Len(list) /\ list[1] \in 1 .. n /\ x < list[1]
      BY <2>6, <2>7, <2>9
    <3>3. k + 1 \in 1 .. n /\ k + 1 \in 2 .. n /\ (k + 1) - 1 = k
      BY <1>0, <2>4, <3>1, <3>2
    <3>4. PICK s, ss : s = ls[k + 1] /\ ss = Below(nb, level)
      OBVIOUS
    <3>5. s = get_next_level(nb, level)
      BY <1>2, <2>3, <3>3, <3>4
    <3>6. /\ s \in Seq(1 .. n) /\ ss[i] = list
          /\ \A l \in 1 .. Len(level) : ss[l] = Children(nb, level[l])
      BY <2>3, <2>4, <2>5, <3>4, <3>5, NextLevelIs
    <3>7. PICK to : Blocks(ss, Len(level), s, to)
      BY <2>4, <3>4, <3>5, NextLevelIs
    <3>8. /\ to[i] = to[i - 1] + Len(list) /\ to[i] <= Len(s)
          /\ to[i - 1] \in Nat
          /\ \A j \in 1 .. Len(list) : s[to[i - 1] + j] = list[j]
      <4>1. i - 1 \in 0 .. Len(level)
        BY <2>4
      <4> QED
        BY <2>4, <3>6, <3>7, <4>1 DEF Blocks
    <3>9. /\ off[k + 1] = off[k] + Len(s) /\ off[k + 1] <= Len(nodes)
          /\ \A j \in 1 .. Len(s) : nodes[off[k] + j] = s[j]
      BY <1>5, <3>3, <3>4 DEF Blocks
    <3>10. off[k - 1] \in Nat /\ off[k] \in Nat /\ Len(s) \in Nat
      <4>1. k - 1 \in 0 .. n /\ k \in 0 .. n
        BY <1>0
      <4>2. off \in [0 .. n -> Nat]
        BY <1>5 DEF Blocks
      <4>3. Len(s) \in Nat
        BY <3>6
      <4> QED
        BY <4>1, <4>2, <4>3
    <3>11. p + Len(list) <= Len(nodes)
      <4>1. Len(nodes) \in Nat /\ Len(ls[k]) = Len(level)
        BY <1>4, <2>3
      <4>2. PICK a, b, c, d, e, f : /\ a = off[k - 1] /\ b = Len(level)
                                   /\ c = Len(s) /\ d = Len(list)
                                   /\ e = Len(nodes) /\ f = off[k + 1]
        OBVIOUS
      <4>3. /\ a \in Nat /\ b \in Nat /\ c \in Nat /\ d \in Nat /\ e \in Nat
            /\ i \in 1 .. b /\ p = a + i
        BY <2>1, <2>4, <2>7, <3>10, <4>1, <4>2
      <4>4. d <= c
        BY <2>7, <3>8, <3>10, <4>2
      <4>5. f = (a + b) + c /\ f <= e
        BY <2>2, <3>9, <4>1, <4>2
      <4>6. p + d <= e
        BY <4>3, <4>4, <4>5
      <4> QED
        BY <4>2, <4>6
    <3>12. ASSUME StraightFrom(nb, root), NEW j \in 1 .. Len(list)
           PROVE  nodes[p + j] = list[j]
      <4>1. \A y \in Range(level) : nb[y].first_child # 0 => y = Last(level)
        BY <1>1, <1>2, <2>3, <3>12 DEF StraightFrom
      <4>2. Last(level) = level[Len(level)] /\ Len(level) \in 1 .. Len(level)
        BY <2>4 DEF Last
      <4>3. ASSUME NEW l \in 1 .. i - 1 PROVE Len(ss[l]) = 0
        <5>1. l \in 1 .. Len(level) /\ l # Len(level)
          BY <2>4
        <5>2. level[l] # Last(level)
          BY <2>4, <3>1, <4>2, <5>1 DEF IsInjective
        <5>3. level[l] \in Range(level) /\ level[l] \in 0 .. n
          BY <1>0, <2>4, <5>1 DEF Range
        <5>4. nb[level[l]].first_child = 0
          BY <4>1, <5>2, <5>3
        <5>5. Children(nb, level[l]) = <<>>
          BY <5>3, <5>4, ChildIs
        <5> QED
          BY <3>6, <5>1, <5>5
      <4>4. i = Len(level)
        <5>1. x \in Range(level)
          BY <2>3, <2>4 DEF Range
        <5>2. nb[x].first_child # 0
          BY <2>6, <2>9
        <5>3. level[i] = level[Len(level)]
          BY <2>3, <4>1, <4>2, <5>1, <5>2
        <5> QED
          BY <2>4, <3>1, <4>2, <5>3 DEF IsInjective
      <4>5. to[i - 1] = 0
        <5>1. i - 1 \in 0 .. Len(level)
          BY <2>4
        <5> QED
          BY <2>4, <3>7, <4>3, <5>1, NothingBefore
      <4>6. s[j] = list[j] /\ j \in 1 .. Len(s)
        <5>1. s[0 + j] = list[j] /\ 0 + j = j
          BY <3>8, <4>5
        <5>2. Len(list) <= Len(s)
          BY <2>7, <3>8, <4>5
        <5> QED
          BY <2>7, <3>10, <5>1, <5>2
      <4>7. p = off[k]
        BY <2>1, <2>2, <2>3, <4>4
      <4> QED
        BY <3>9, <4>6, <4>7
    <3> QED
      BY <2>7, <3>11, <3>12
  <2> QED
    BY <2>8, <2>9
<1> QED
  BY <1>4, <1>6, <1>7 DEF Walked

-----------------------------------------------------------------------------
(* The table: the p-th row is that of the node N[p].                       *)

Rows  == [jump_chars : Seq(Nat), code : Nat, first_state : Nat]
Inits == [st : Nat, c : Nat]

RowIs(nb, x, p, row) ==
  LET list == Children(nb, x)
  IN /\ row.jump_chars = [j \in DOMAIN list |-> nb[list[j]].c]
     /\ row.code = nb[x].attribute
     /\ list # <<>> => row.first_state = p

LEMMA SubtreeRows ==
  ASSUME NEW nb, NEW n, Sound(nb, n), NEW root \in 1 .. n, NEW current \in Nat,
         NEW rows, rows = jumps_for_subtrie(nb, root, current)
  PROVE  \E nodes :
           /\ Walked(nb, n, root, nodes)
           /\ rows \in Seq(Rows) /\ Len(rows) = Len(nodes)
           /\ \A k \in 1 .. Len(nodes) :
                RowIs(nb, nodes[k], current + k, rows[k])
<1>0. n \in Nat
  BY KidsAre
<1>1. PICK nodes : nodes = FlattenSeq(LevelsFrom(nb, root))
  OBVIOUS
<1>2. Walked(nb, n, root, nodes)
  BY <1>1, SubtreeWalked
<1>3. /\ nodes \in Seq(1 .. n) /\ DOMAIN nodes = 1 .. Len(nodes)
      /\ Len(nodes) \in Nat
  BY <1>2 DEF Walked
<1> DEFINE list(k) == Children(nb, nodes[k])
           row(k) == [jump_chars  |-> [j \in DOMAIN list(k) |-> nb[list(k)[j]].c],
                      code        |-> nb[nodes[k]].attribute,
                      first_state |-> IF list(k) = <<>> THEN 0
                                      ELSE first_state(current + k - 1)]
<1>4. rows = [k \in DOMAIN nodes |-> row(k)]
  BY <1>1, Zenon DEF jumps_for_subtrie
<1>5. ASSUME NEW k \in 1 .. Len(nodes)
      PROVE  row(k) \in Rows /\ RowIs(nb, nodes[k], current + k, row(k))
  <2>1. nodes[k] \in 1 .. n /\ nodes[k] \in 0 .. n
    BY <1>0, <1>3
  <2>2. list(k) \in Seq(1 .. n)
    BY <2>1, ChildIs
  <2>3. \A x \in 0 .. n : nb[x].c \in Nat /\ nb[x].attribute \in Nat
    BY DEF Sound, Sized
  <2>4. [j \in DOMAIN list(k) |-> nb[list(k)[j]].c] \in Seq(Nat)
    <3>1. PICK q, m : q = list(k) /\ m = Len(q)
      OBVIOUS
    <3>2. m \in Nat /\ DOMAIN q = 1 .. m /\ \A j \in 1 .. m : q[j] \in 0 .. n
      BY <1>0, <2>2, <3>1
    <3>3. \A j \in 1 .. m : nb[q[j]].c \in Nat
      BY <2>3, <3>2
    <3>4. [j \in 1 .. m |-> nb[q[j]].c] \in [1 .. m -> Nat]
      BY <3>3
    <3>5. [j \in 1 .. m |-> nb[q[j]].c] \in Seq(Nat)
      BY <3>2, <3>4
    <3> QED
      BY <3>1, <3>2, <3>5
  <2>5. first_state(current + k - 1) = current + k /\ current + k \in Nat
    BY <1>3 DEF first_state
  <2>6. row(k) \in Rows
    <3> HIDE DEF list
    <3>1. (IF list(k) = <<>> THEN 0 ELSE first_state(current + k - 1)) \in Nat
      BY <2>5
    <3> QED
      BY <2>1, <2>3, <2>4, <3>1 DEF Rows
  <2>7. RowIs(nb, nodes[k], current + k, row(k))
    <3>1. list(k) # <<>> => row(k).first_state = current + k
      BY <2>5
    <3> QED
      BY <3>1 DEF RowIs
  <2> QED
    BY <2>6, <2>7
<1> HIDE DEF list, row
<1>6. rows \in [1 .. Len(nodes) -> Rows]
  BY <1>3, <1>4, <1>5
<1>7. rows \in Seq(Rows) /\ Len(rows) = Len(nodes)
  BY <1>3, <1>6, LengthIs
<1>8. \A k \in 1 .. Len(nodes) : rows[k] = row(k)
  BY <1>3, <1>4
<1> QED
  BY <1>2, <1>5, <1>7, <1>8

AllStraight(nb) == \A root \in Range(Children(nb, 0)) : StraightFrom(nb, root)

(* The rows of the first l subtrees.                                       *)
Tabled(nb, n, l, rows, inits, N) ==
  /\ N \in Seq(1 .. n) /\ rows \in Seq(Rows) /\ Len(rows) = Len(N)
  /\ \A p \in 1 .. Len(N) :
       LET list == Children(nb, N[p])
       IN /\ RowIs(nb, N[p], p, rows[p])
          /\ p + Len(list) <= Len(N)
          /\ AllStraight(nb) => \A j \in 1 .. Len(list) : N[p + j] = list[j]
  /\ inits \in Seq(Inits) /\ Len(inits) = l
  /\ \A k \in 1 .. l :
       LET root == Children(nb, 0)[k]
       IN /\ inits[k].c = nb[root].c
          /\ inits[k].st + 1 \in 1 .. Len(N) /\ N[inits[k].st + 1] = root

LEMMA Joined ==
  ASSUME NEW S, NEW a \in Seq(S), NEW b \in Seq(S)
  PROVE  /\ a \o b \in Seq(S) /\ Len(a \o b) = Len(a) + Len(b)
         /\ \A i \in 1 .. Len(a) : (a \o b)[i] = a[i]
         /\ \A i \in 1 .. Len(b) : (a \o b)[Len(a) + i] = b[i]
OBVIOUS

LEMMA MemberIs ==
  ASSUME NEW S, NEW a \in Seq(S), NEW i \in 1 .. Len(a)
  PROVE  a[i] \in S
OBVIOUS

LEMMA SubtreeTabled ==
  ASSUME NEW nb, NEW n, Sound(nb, n), NEW l \in Nat,
         l + 1 \in 1 .. Len(Children(nb, 0)),
         NEW rows, NEW inits, NEW N, Tabled(nb, n, l, rows, inits, N),
         NEW root, root = Children(nb, 0)[l + 1],
         NEW current, current = Len(rows)
  PROVE  \E M : Tabled(nb, n, l + 1,
                       rows \o jumps_for_subtrie(nb, root, current),
                       Append(inits, [st |-> current, c |-> nb[root].c]), M)
<1>0. /\ n \in Nat /\ root \in 1 .. n /\ root \in Range(Children(nb, 0))
      /\ nb[root].c \in Nat /\ Len(Children(nb, 0)) \in Nat
  <2>1. n \in Nat /\ 0 \in 0 .. n
    BY KidsAre
  <2>2. PICK list : list = Children(nb, 0) /\ list \in Seq(1 .. n)
    BY <2>1, ChildIs
  <2>3. root \in 1 .. n /\ root \in Range(list)
    <3>1. root = list[l + 1] /\ l + 1 \in 1 .. Len(list)
      BY <2>2
    <3>2. l + 1 \in DOMAIN list
      BY <2>1, <2>2, <3>1
    <3>3. list[l + 1] \in 1 .. n
      BY <2>1, <2>2, <3>1
    <3> QED
      BY <3>1, <3>2, <3>3 DEF Range
  <2>4. root \in 0 .. n
    BY <2>1, <2>3
  <2>5. nb[root].c \in Nat
    BY <2>4 DEF Sound, Sized
  <2>6. Len(list) \in Nat
    BY <2>2
  <2> QED
    BY <2>1, <2>2, <2>3, <2>5, <2>6
<1>1. /\ N \in Seq(1 .. n) /\ rows \in Seq(Rows) /\ Len(rows) = Len(N)
      /\ inits \in Seq(Inits) /\ Len(inits) = l /\ current = Len(N)
      /\ current \in Nat
  BY DEF Tabled
<1>2. PICK more : more = jumps_for_subtrie(nb, root, current)
  OBVIOUS
<1>3. PICK nodes :
        /\ Walked(nb, n, root, nodes)
        /\ more \in Seq(Rows) /\ Len(more) = Len(nodes)
        /\ \A k \in 1 .. Len(nodes) :
             RowIs(nb, nodes[k], current + k, more[k])
  <2>1. root \in 1 .. n /\ current \in Nat
    BY <1>0, <1>1
  <2> QED
    BY <1>2, <2>1, SubtreeRows, SMTT(30)
<1>4. /\ nodes \in Seq(1 .. n) /\ 1 \in 1 .. Len(nodes) /\ nodes[1] = root
      /\ Len(nodes) \in Nat
  BY <1>3 DEF Walked
<1>5. PICK M, all : M = N \o nodes /\ all = rows \o more
  OBVIOUS
<1>6. /\ M \in Seq(1 .. n) /\ Len(M) = current + Len(nodes)
      /\ \A p \in 1 .. current : M[p] = N[p]
      /\ \A k \in 1 .. Len(nodes) : M[current + k] = nodes[k]
  BY <1>1, <1>4, <1>5
<1>7. /\ all \in Seq(Rows) /\ Len(all) = current + Len(nodes)
      /\ \A p \in 1 .. current : all[p] = rows[p]
      /\ \A k \in 1 .. Len(nodes) : all[current + k] = more[k]
  <2>1. PICK R : R = Rows
    OBVIOUS
  <2>2. /\ rows \in Seq(R) /\ more \in Seq(R) /\ Len(rows) = current
        /\ Len(more) = Len(nodes)
    BY <1>1, <1>3, <2>1
  <2>3. /\ all \in Seq(R) /\ Len(all) = current + Len(nodes)
        /\ \A p \in 1 .. current : all[p] = rows[p]
        /\ \A k \in 1 .. Len(nodes) : all[current + k] = more[k]
    <3>1. rows \o more \in Seq(R) /\ Len(rows \o more) = Len(rows) + Len(more)
      BY <2>2
    <3>2. ASSUME NEW i \in 1 .. Len(rows) PROVE (rows \o more)[i] = rows[i]
      BY <2>2
    <3>3. ASSUME NEW i \in 1 .. Len(more)
          PROVE  (rows \o more)[Len(rows) + i] = more[i]
      BY <2>2
    <3>4. all = rows \o more
      BY <1>5
    <3> QED
      BY <2>2, <3>1, <3>2, <3>3, <3>4, Zenon
  <2> QED
    BY <2>1, <2>3
<1>8. ASSUME NEW p \in 1 .. Len(M)
      PROVE  LET list == Children(nb, M[p])
             IN /\ RowIs(nb, M[p], p, all[p])
                /\ p + Len(list) <= Len(M)
                /\ AllStraight(nb) => \A j \in 1 .. Len(list) : M[p + j] = list[j]
  <2>0. M[p] \in 0 .. n /\ p \in Nat
    <3>1. M[p] \in 1 .. n
      BY <1>6, MemberIs
    <3> QED
      BY <1>0, <3>1
  <2>1. PICK list : list = Children(nb, M[p]) /\ Len(list) \in Nat
    BY <2>0, ChildIs
  <2>2. CASE p <= current
    <3>1. p \in 1 .. current /\ p \in 1 .. Len(N)
      BY <1>1, <2>0, <2>2
    <3>2. M[p] = N[p] /\ all[p] = rows[p]
      BY <1>6, <1>7, <3>1
    <3>3. /\ RowIs(nb, N[p], p, rows[p])
          /\ p + Len(list) <= Len(N)
          /\ AllStraight(nb) => \A j \in 1 .. Len(list) : N[p + j] = list[j]
      BY <2>1, <3>1, <3>2 DEF Tabled
    <3>4. p + Len(list) <= Len(M)
      BY <1>1, <1>4, <1>6, <2>0, <2>1, <3>3
    <3>5. ASSUME AllStraight(nb), NEW j \in 1 .. Len(list)
          PROVE  M[p + j] = list[j]
      <4>1. p + j \in 1 .. current
        BY <1>1, <2>0, <2>1, <3>1, <3>3
      <4> QED
        BY <1>6, <3>3, <3>5, <4>1
    <3> QED
      BY <2>1, <3>2, <3>3, <3>4, <3>5
  <2>3. CASE ~(p <= current)
    <3>1. PICK k \in 1 .. Len(nodes) : p = current + k
      <4>1. p - current \in 1 .. Len(nodes) /\ p = current + (p - current)
        BY <1>1, <1>4, <1>6, <2>0, <2>3
      <4> QED
        BY <4>1
    <3>2. M[p] = nodes[k] /\ all[p] = more[k]
      BY <1>6, <1>7, <3>1
    <3>3. /\ k + Len(list) <= Len(nodes)
          /\ StraightFrom(nb, root)
               => \A j \in 1 .. Len(list) : nodes[k + j] = list[j]
      BY <1>3, <2>1, <3>2 DEF Walked
    <3>4. RowIs(nb, M[p], p, all[p])
      BY <1>3, <3>1, <3>2
    <3>5. p + Len(list) <= Len(M)
      BY <1>1, <1>4, <1>6, <2>1, <3>1, <3>3
    <3>6. ASSUME AllStraight(nb), NEW j \in 1 .. Len(list)
          PROVE  M[p + j] = list[j]
      <4>1. k + j \in 1 .. Len(nodes) /\ p + j = current + (k + j)
        BY <1>1, <1>4, <2>1, <3>1, <3>3
      <4>2. StraightFrom(nb, root)
        BY <1>0, <3>6 DEF AllStraight
      <4>3. M[p + j] = nodes[k + j]
        BY <1>6, <4>1
      <4> QED
        BY <3>3, <4>2, <4>3
    <3> QED
      BY <2>1, <3>4, <3>5, <3>6
  <2> QED
    BY <2>2, <2>3
<1>9. PICK init, t : init = [st |-> current, c |-> nb[root].c]
                     /\ t = Append(inits, init)
  OBVIOUS
<1>10. /\ t \in Seq(Inits) /\ Len(t) = l + 1 /\ t[l + 1] = init
       /\ \A k \in 1 .. l : t[k] = inits[k]
  <2>1. init \in Inits
    BY <1>0, <1>1, <1>9 DEF Inits
  <2> QED
    BY <1>1, <1>9, <2>1
<1>11. ASSUME NEW k \in 1 .. l + 1
       PROVE  LET r == Children(nb, 0)[k]
              IN /\ t[k].c = nb[r].c
                 /\ t[k].st + 1 \in 1 .. Len(M) /\ M[t[k].st + 1] = r
  <2>1. CASE k = l + 1
    <3>1. t[k].c = nb[root].c /\ t[k].st = current
      BY <1>9, <1>10, <2>1
    <3>2. M[current + 1] = root
      BY <1>4, <1>6
    <3>3. current + 1 \in 1 .. Len(M)
      BY <1>1, <1>4, <1>6
    <3> QED
      BY <2>1, <3>1, <3>2, <3>3
  <2>2. CASE k # l + 1
    <3>1. k \in 1 .. l /\ t[k] = inits[k]
      BY <1>10, <2>2
    <3>2. LET r == Children(nb, 0)[k]
          IN /\ inits[k].c = nb[r].c
             /\ inits[k].st + 1 \in 1 .. Len(N) /\ N[inits[k].st + 1] = r
      BY <3>1 DEF Tabled
    <3>3. PICK x : x = inits[k].st + 1 /\ x \in 1 .. Len(N)
      BY <3>2
    <3>4. x \in 1 .. Len(M) /\ M[x] = N[x]
      BY <1>1, <1>4, <1>6, <3>3
    <3> QED
      BY <3>1, <3>2, <3>3, <3>4
  <2> QED
    BY <2>1, <2>2
<1>12. Tabled(nb, n, l + 1, all, t, M)
  <2>1. Len(all) = Len(M)
    BY <1>6, <1>7
  <2> QED
    BY <1>6, <1>7, <1>8, <1>10, <1>11, <2>1 DEF Tabled
<1> QED
  BY <1>2, <1>5, <1>9, <1>12

RowsAfter(nb, k, made) ==
  LET roots   == Children(nb, 0)
      rows    == made.jumps
      current == Len(rows)
  IN [jumps |-> rows \o jumps_for_subtrie(nb, roots[k], current),
      init_table |-> Append(made.init_table,
                            [st |-> current, c |-> nb[roots[k]].c])]

NoRows == [jumps |-> <<>>, init_table |-> <<>>]

IsMade(nb, f) ==
  f = [k \in 0 .. Len(Children(nb, 0)) |->
         IF k = 0 THEN NoRows ELSE RowsAfter(nb, k, f[k - 1])]

JumpTables == [jumps : Seq(Rows), init_table : Seq(Inits)]

LEMMA RowsTyped ==
  ASSUME NEW nb, NEW n, Sound(nb, n), NEW k \in 1 .. Len(Children(nb, 0)),
         NEW made \in JumpTables
  PROVE  RowsAfter(nb, k, made) \in JumpTables
<1>1. PICK root, rows, current, inits :
        /\ root = Children(nb, 0)[k] /\ rows = made.jumps
        /\ current = Len(rows) /\ inits = made.init_table
  OBVIOUS
<1>2. rows \in Seq(Rows) /\ inits \in Seq(Inits) /\ current \in Nat
  BY <1>1 DEF JumpTables
<1>3. root \in 1 .. n /\ nb[root].c \in Nat
  <2>1. n \in Nat /\ 0 \in 0 .. n
    BY KidsAre
  <2>2. Children(nb, 0) \in Seq(1 .. n)
    BY <2>1, ChildIs
  <2>3. root \in 1 .. n
    BY <1>1, <2>2, MemberIs
  <2>4. root \in 0 .. n
    BY <2>1, <2>3
  <2> QED
    BY <2>3, <2>4 DEF Sound, Sized
<1>4. PICK more : more = jumps_for_subtrie(nb, root, current)
  OBVIOUS
<1>5. more \in Seq(Rows)
  BY <1>2, <1>3, <1>4, SubtreeRows
<1>6. rows \o more \in Seq(Rows)
  BY <1>2, <1>5
<1>7. Append(inits, [st |-> current, c |-> nb[root].c]) \in Seq(Inits)
  BY <1>2, <1>3 DEF Inits
<1>8. RowsAfter(nb, k, made)
        = [jumps |-> rows \o more,
           init_table |-> Append(inits, [st |-> current, c |-> nb[root].c])]
  BY <1>1, <1>4 DEF RowsAfter
<1> QED
  BY <1>6, <1>7, <1>8 DEF JumpTables

LEMMA MadeExists ==
  ASSUME NEW nb, NEW n, Sound(nb, n)
  PROVE  \E f : IsMade(nb, f)
<1> DEFINE m == Len(Children(nb, 0))
           step == [p \in (1 .. m) \X JumpTables |-> RowsAfter(nb, p[1], p[2])]
<1>0. m \in Nat /\ 0 \in Nat /\ 0 <= m /\ 0 + 1 = 1
  <2>1. 0 \in 0 .. n
    BY KidsAre
  <2> QED
    BY <2>1, ChildIs
<1>1. NoRows \in JumpTables
  BY DEF NoRows, JumpTables
<1>2. \A k \in 1 .. m : \A v \in JumpTables : RowsAfter(nb, k, v) \in JumpTables
  BY RowsTyped
<1> HIDE DEF m
<1>3. step \in [(0 + 1 .. m) \X JumpTables -> JumpTables]
  <2>1. \A p \in (1 .. m) \X JumpTables : p[1] \in 1 .. m /\ p[2] \in JumpTables
    OBVIOUS
  <2> QED
    BY <1>0, <1>2, <2>1
<1>4. \A k \in 1 .. m : \A v \in JumpTables :
        step[<<k, v>>] = RowsAfter(nb, k, v)
  OBVIOUS
<1> HIDE DEF step
<1>5. PICK g : Iterated(0, m, JumpTables, NoRows, step, g)
  BY <1>0, <1>1, <1>3, Iterates
<1>6. ASSUME NEW k \in 0 .. m
      PROVE  g[k] = IF k = 0 THEN NoRows ELSE RowsAfter(nb, k, g[k - 1])
  <2>1. CASE k = 0
    BY <1>5, <2>1 DEF Iterated
  <2>2. CASE k # 0
    <3>1. k \in 1 .. m /\ k \in 0 + 1 .. m /\ k - 1 \in 0 .. m
      BY <1>0, <2>2
    <3>2. g[k] = step[<<k, g[k - 1]>>] /\ g[k - 1] \in JumpTables
      BY <1>5, <3>1 DEF Iterated
    <3> QED
      BY <1>4, <2>2, <3>1, <3>2
  <2> QED
    BY <2>1, <2>2
<1>7. g = [k \in 0 .. m |-> g[k]]
  BY <1>5 DEF Iterated
<1>8. IsMade(nb, g)
  BY <1>6, <1>7 DEF IsMade, m
<1> QED
  BY <1>8

LEMMA JumpsTabled ==
  ASSUME NEW nb, NEW n, Sound(nb, n)
  PROVE  jumps(nb) \in JumpTables /\
         \E N : Tabled(nb, n, Len(Children(nb, 0)),
                       jumps(nb).jumps, jumps(nb).init_table, N)
<1>1. PICK f : f = CHOOSE g : IsMade(nb, g)
  OBVIOUS
<1>2. IsMade(nb, f)
  BY <1>1, MadeExists
<1>3. PICK m : m = Len(Children(nb, 0))
  OBVIOUS
<1>4. jumps(nb) = f[m]
  BY <1>1, <1>3, Zenon DEF jumps, IsMade, RowsAfter, NoRows
<1>5. m \in Nat /\ 0 \in Nat
  <2>1. 0 \in 0 .. n
    BY KidsAre
  <2> QED
    BY <1>3, <2>1, ChildIs
<1>6. \A k \in 0 .. m : f[k] = IF k = 0 THEN NoRows ELSE RowsAfter(nb, k, f[k - 1])
  BY <1>2, <1>3, Zenon DEF IsMade
<1> DEFINE P == {k \in 0 .. m :
                   /\ f[k] \in JumpTables
                   /\ \E N : Tabled(nb, n, k, f[k].jumps, f[k].init_table, N)}
<1>7. 0 \in P
  <2>1. f[0].jumps = <<>> /\ f[0].init_table = <<>> /\ 0 \in 0 .. m
    BY <1>5, <1>6 DEF NoRows
  <2>2. /\ <<>> \in Seq(1 .. n) /\ <<>> \in Seq(Rows) /\ <<>> \in Seq(Inits)
        /\ Len(<<>>) = 0 /\ 1 .. 0 = {}
    OBVIOUS
  <2>3. Tabled(nb, n, 0, <<>>, <<>>, <<>>)
    BY <2>2, Zenon DEF Tabled
  <2>4. f[0] \in JumpTables
    <3>1. NoRows \in JumpTables
      BY DEF NoRows, JumpTables
    <3>2. f[0] = NoRows
      BY <1>6, <2>1, Zenon
    <3> QED
      BY <3>1, <3>2
  <2> QED
    BY <2>1, <2>3, <2>4
<1>8. ASSUME NEW k \in 0 .. m - 1, k \in P PROVE k + 1 \in P
  <2>1. k + 1 \in 0 .. m /\ k + 1 # 0 /\ (k + 1) - 1 = k /\ k \in Nat
        /\ k + 1 \in 1 .. Len(Children(nb, 0))
    BY <1>3, <1>5
  <2>2. PICK rows, inits : rows = f[k].jumps /\ inits = f[k].init_table
    OBVIOUS
  <2>3. PICK N : Tabled(nb, n, k, rows, inits, N)
    BY <1>8, <2>2
  <2>4. PICK root, current : root = Children(nb, 0)[k + 1] /\ current = Len(rows)
    OBVIOUS
  <2>5. \E M : Tabled(nb, n, k + 1,
                      rows \o jumps_for_subtrie(nb, root, current),
                      Append(inits, [st |-> current, c |-> nb[root].c]), M)
    BY <2>1, <2>3, <2>4, SubtreeTabled
  <2>6. f[k + 1] = RowsAfter(nb, k + 1, f[k])
    BY <1>6, <2>1
  <2>7. /\ f[k + 1].jumps = rows \o jumps_for_subtrie(nb, root, current)
        /\ f[k + 1].init_table = Append(inits, [st |-> current, c |-> nb[root].c])
    <3>1. RowsAfter(nb, k + 1, f[k])
            = [jumps |-> rows \o jumps_for_subtrie(nb, root, current),
               init_table |-> Append(inits, [st |-> current, c |-> nb[root].c])]
      BY <2>2, <2>4, Zenon DEF RowsAfter
    <3> QED
      BY <2>6, <3>1
  <2>8. \E M : Tabled(nb, n, k + 1, f[k + 1].jumps, f[k + 1].init_table, M)
    BY <2>5, <2>7, Zenon
  <2>9. f[k + 1] \in JumpTables
    BY <1>8, <2>1, <2>6, RowsTyped
  <2> QED
    BY <2>1, <2>8, <2>9
<1>9. m \in P
  <2>1. m \in 0 .. m
    BY <1>5
  <2> HIDE DEF P
  <2> QED
    BY <1>5, <1>7, <1>8, <2>1, Upwards
<1> QED
  BY <1>3, <1>4, <1>9

-----------------------------------------------------------------------------
(* The initial table, sorted by its characters, and the search in it.      *)

Increasing(t) == \A i, j \in DOMAIN t : i < j => t[i].c < t[j].c

SameInits(inits, t) ==
  /\ t \in Seq(Inits)
  /\ \A i \in 1 .. Len(t) : \E k \in 1 .. Len(inits) : t[i] = inits[k]
  /\ \A k \in 1 .. Len(inits) : \E i \in 1 .. Len(t) : t[i] = inits[k]

LEMMA OrderedUp ==
  ASSUME NEW s, s \subseteq Nat, IsFiniteSet(s), NEW q, q = Ordered(s)
  PROVE  \A i, j \in DOMAIN q : i < j => q[i] < q[j]
<1>1. PICK n : n = Cardinality(s) /\ n \in Nat
  BY FS_CardinalityType
<1>2. \E p \in [1 .. n -> s] :
        Range(p) = s /\ \A i, j \in DOMAIN p : i < j => p[i] < p[j]
  BY <1>1, ListedAll DEF Listed, Listing
<1> QED
  BY <1>1, <1>2, Zenon DEF Ordered

LEMMA SortedIs ==
  ASSUME NEW inits \in Seq(Inits),
         \A j, k \in 1 .. Len(inits) : inits[j].c = inits[k].c => j = k,
         NEW t, t = SortedInits(inits)
  PROVE  SameInits(inits, t) /\ Increasing(t)
<1>0. /\ Len(inits) \in Nat /\ DOMAIN inits = 1 .. Len(inits)
      /\ \A k \in 1 .. Len(inits) : inits[k] \in Inits /\ inits[k].c \in Nat
  <2>1. \A k \in 1 .. Len(inits) : inits[k] \in Inits
    BY MemberIs
  <2>2. \A i \in Inits : i.c \in Nat
    BY DEF Inits
  <2>3. Len(inits) \in Nat /\ DOMAIN inits = 1 .. Len(inits)
    OBVIOUS
  <2> QED
    BY <2>1, <2>2, <2>3
<1> DEFINE S == {inits[k].c : k \in DOMAIN inits}
           chars == Ordered(S)
           at(i) == CHOOSE k \in DOMAIN inits : inits[k].c = chars[i]
<1>1. S = {inits[k].c : k \in DOMAIN inits}
  OBVIOUS
<1>7. t = [i \in DOMAIN chars |-> inits[at(i)]]
  BY Zenon DEF SortedInits
<1>14. \A i : at(i) = CHOOSE k \in DOMAIN inits : inits[k].c = chars[i]
  OBVIOUS
<1>4. chars = Ordered(S)
  OBVIOUS
<1> HIDE DEF S, chars, at
<1>2. S \subseteq Nat
  BY <1>0, <1>1
<1>3. IsFiniteSet(S)
  <2>1. PICK firsts : firsts = [k \in 1 .. Len(inits) |-> inits[k].c]
    OBVIOUS
  <2>2. firsts \in Surjection(1 .. Len(inits), S)
    BY <1>0, <1>1, <2>1 DEF Surjection
  <2>3. IsFiniteSet(1 .. Len(inits))
    BY <1>0, FS_Interval
  <2> QED
    BY <2>2, <2>3, FS_Surjection
<1>5. /\ chars \in Seq(S) /\ Range(chars) = S /\ DOMAIN chars = 1 .. Len(chars)
      /\ Len(chars) \in Nat
  <2>1. chars \in Seq(S) /\ Range(chars) = S /\ DOMAIN chars = 1 .. Len(chars)
    BY <1>2, <1>3, <1>4, OrderedIs
  <2> QED
    BY <2>1
<1>6. \A i, j \in 1 .. Len(chars) : i < j => chars[i] < chars[j]
  BY <1>2, <1>3, <1>4, <1>5, OrderedUp
<1>8. ASSUME NEW i \in 1 .. Len(chars)
      PROVE  at(i) \in 1 .. Len(inits) /\ inits[at(i)].c = chars[i]
  <2>1. chars[i] \in S
    BY <1>5, MemberIs
  <2>2. \E k \in DOMAIN inits : inits[k].c = chars[i]
    BY <1>1, <2>1
  <2> QED
    BY <1>0, <1>14, <2>2
<1>9. \A i \in 1 .. Len(chars) : t[i] = inits[at(i)]
  BY <1>5, <1>7
<1>10. t \in Seq(Inits) /\ Len(t) = Len(chars)
  <2>1. t \in [1 .. Len(chars) -> Inits]
    BY <1>0, <1>5, <1>7, <1>8
  <2> QED
    BY <1>5, <2>1, LengthIs
<1>11. ASSUME NEW k \in 1 .. Len(inits)
       PROVE  \E i \in 1 .. Len(t) : t[i] = inits[k]
  <2>1. inits[k].c \in Range(chars)
    BY <1>0, <1>1, <1>5
  <2>2. PICK i \in 1 .. Len(chars) : chars[i] = inits[k].c
    BY <1>5, <2>1 DEF Range
  <2>3. at(i) = k
    BY <1>8, <2>2
  <2> QED
    BY <1>9, <1>10, <2>3
<1>12. Increasing(t)
  <2>1. DOMAIN t = 1 .. Len(chars)
    BY <1>5, <1>7
  <2>2. \A i \in 1 .. Len(chars) : t[i].c = chars[i]
    BY <1>8, <1>9
  <2> QED
    BY <1>6, <2>1, <2>2 DEF Increasing
<1>13. SameInits(inits, t)
  BY <1>8, <1>9, <1>10, <1>11 DEF SameInits
<1> QED
  BY <1>12, <1>13

(* A turn of the search, and what is true after k turns: the character is  *)
(* found, or it is in what is left of the table, which is shorter.         *)
MiddleOf(h) == (h.lower - 1 + h.upper - 1) \div 2 + 1

Turned(sym, sts, h) ==
  IF h.lower > h.upper \/ h.found # {} THEN h
  ELSE IF sym = sts[MiddleOf(h)].c
       THEN [h EXCEPT !.found = {sts[MiddleOf(h)].st}]
  ELSE IF sym > sts[MiddleOf(h)].c
       THEN [h EXCEPT !.lower = MiddleOf(h) + 1]
       ELSE [h EXCEPT !.upper = MiddleOf(h) - 1]

FirstTurn(sts) == [lower |-> 1, upper |-> Len(sts), found |-> {}]

Turning == [lower : Nat, upper : Nat, found : SUBSET Nat]

IsSearch(sym, sts, f) ==
  f = [k \in 0 .. Len(sts) |-> IF k = 0 THEN FirstTurn(sts)
                               ELSE Turned(sym, sts, f[k - 1])]

Searched(sym, sts, k, h) ==
  /\ h.lower \in 1 .. Len(sts) + 1 /\ h.upper \in 0 .. Len(sts)
  /\ h \in Turning
  /\ h.found = {}
       => /\ \A i \in 1 .. Len(sts) :
               sts[i].c = sym => h.lower <= i /\ i <= h.upper
          /\ h.lower > h.upper \/ h.upper - h.lower + 1 <= Len(sts) - k
  /\ h.found # {}
       => \E i \in 1 .. Len(sts) : sts[i].c = sym /\ h.found = {sts[i].st}

LEMMA HalfIs ==
  ASSUME NEW a \in Nat, NEW b \in Nat, 1 <= a, a <= b
  PROVE  (a - 1 + b - 1) \div 2 + 1 \in a .. b
OBVIOUS

LEMMA TurnSearched ==
  ASSUME NEW sts \in Seq(Inits), Increasing(sts), NEW sym \in Nat,
         NEW k \in 0 .. Len(sts) - 1, NEW h, Searched(sym, sts, k, h)
  PROVE  Searched(sym, sts, k + 1, Turned(sym, sts, h))
<1>0. /\ h.lower \in Nat /\ h.upper \in Nat /\ 1 <= h.lower
      /\ h.lower \in 1 .. Len(sts) + 1 /\ h.upper \in 0 .. Len(sts)
      /\ h.found \subseteq Nat /\ Len(sts) \in Nat
      /\ h = [lower |-> h.lower, upper |-> h.upper, found |-> h.found]
  <2>1. /\ h.lower \in 1 .. Len(sts) + 1 /\ h.upper \in 0 .. Len(sts)
        /\ h \in Turning /\ Len(sts) \in Nat
    BY DEF Searched
  <2> QED
    BY <2>1 DEF Turning
<1>1. PICK g : g = Turned(sym, sts, h)
  OBVIOUS
<1>2. CASE h.lower > h.upper \/ h.found # {}
  <2>1. g = h
    BY <1>1, <1>2 DEF Turned
  <2>2. Searched(sym, sts, k + 1, h)
    BY <1>2 DEF Searched
  <2> QED
    BY <1>1, <2>1, <2>2
<1>3. CASE ~(h.lower > h.upper \/ h.found # {})
  <2>1. PICK m : m = MiddleOf(h)
    OBVIOUS
  <2>2. m \in h.lower .. h.upper
    BY <1>0, <1>3, <2>1, HalfIs DEF MiddleOf
  <2>3. m \in 1 .. Len(sts) /\ m \in Nat
    BY <1>0, <2>2
  <2>4. sts[m] \in Inits /\ sts[m].st \in Nat /\ sts[m].c \in Nat
    <3>1. sts[m] \in Inits
      BY <2>3, MemberIs
    <3> QED
      BY <3>1 DEF Inits
  <2>5. /\ \A i \in 1 .. Len(sts) :
             sts[i].c = sym => h.lower <= i /\ i <= h.upper
        /\ h.upper - h.lower + 1 <= Len(sts) - k
    BY <1>0, <1>3 DEF Searched
  <2>6. \A i \in 1 .. Len(sts) : sts[i].c \in Nat
    <3>1. \A i \in 1 .. Len(sts) : sts[i] \in Inits
      BY MemberIs
    <3> QED
      BY <3>1 DEF Inits
  <2>7. \A i, j \in 1 .. Len(sts) : i < j => sts[i].c < sts[j].c
    BY DEF Increasing
  <2>8. CASE sym = sts[m].c
    <3>1. g = [h EXCEPT !.found = {sts[m].st}]
      BY <1>1, <1>3, <2>1, <2>8, Zenon DEF Turned
    <3>2. g = [lower |-> h.lower, upper |-> h.upper, found |-> {sts[m].st}]
      BY <1>0, <3>1
    <3>3. g \in Turning /\ g.lower = h.lower /\ g.upper = h.upper
          /\ g.found = {sts[m].st}
      BY <1>0, <2>4, <3>2 DEF Turning
    <3> QED
      BY <1>0, <1>1, <2>3, <2>8, <3>3 DEF Searched
  <2>9. CASE sym # sts[m].c /\ sym > sts[m].c
    <3>1. g = [h EXCEPT !.lower = m + 1]
      BY <1>1, <1>3, <2>1, <2>9, Zenon DEF Turned
    <3>2. g = [lower |-> m + 1, upper |-> h.upper, found |-> {}]
      BY <1>0, <1>3, <3>1
    <3>3. /\ g \in Turning /\ g.lower = m + 1 /\ g.upper = h.upper
          /\ g.found = {}
      BY <1>0, <2>3, <3>2 DEF Turning
    <3>4. ASSUME NEW i \in 1 .. Len(sts), sts[i].c = sym PROVE m + 1 <= i
      <4>1. i # m /\ ~(sts[i].c < sts[m].c)
        BY <2>4, <2>9, <3>4
      <4>2. ~(i < m)
        BY <2>3, <2>7, <4>1
      <4> QED
        BY <2>3, <4>1, <4>2
    <3>5. m + 1 > h.upper \/ h.upper - (m + 1) + 1 <= Len(sts) - (k + 1)
      BY <1>0, <2>2, <2>3, <2>5
    <3>6. m + 1 \in 1 .. Len(sts) + 1
      BY <1>0, <2>3
    <3> QED
      BY <1>0, <1>1, <2>5, <3>3, <3>4, <3>5, <3>6 DEF Searched
  <2>10. CASE sym # sts[m].c /\ ~(sym > sts[m].c)
    <3>1. g = [h EXCEPT !.upper = m - 1]
      BY <1>1, <1>3, <2>1, <2>10, Zenon DEF Turned
    <3>2. g = [lower |-> h.lower, upper |-> m - 1, found |-> {}]
      BY <1>0, <1>3, <3>1
    <3>3. /\ g \in Turning /\ g.lower = h.lower /\ g.upper = m - 1
          /\ g.found = {}
      BY <1>0, <2>3, <3>2 DEF Turning
    <3>4. ASSUME NEW i \in 1 .. Len(sts), sts[i].c = sym PROVE i <= m - 1
      <4>1. i # m /\ ~(sts[m].c < sts[i].c)
        BY <2>4, <2>10, <3>4
      <4>2. ~(m < i)
        BY <2>3, <2>7, <4>1
      <4> QED
        BY <2>3, <4>1, <4>2
    <3>5. h.lower > m - 1 \/ (m - 1) - h.lower + 1 <= Len(sts) - (k + 1)
      BY <1>0, <2>2, <2>3, <2>5
    <3>6. m - 1 \in 0 .. Len(sts)
      BY <1>0, <2>3
    <3> QED
      BY <1>0, <1>1, <2>5, <3>3, <3>4, <3>5, <3>6 DEF Searched
  <2> QED
    BY <2>8, <2>9, <2>10
<1> QED
  BY <1>2, <1>3

-----------------------------------------------------------------------------
LEMMA FirstSearched ==
  ASSUME NEW sts \in Seq(Inits), NEW sym
  PROVE  Searched(sym, sts, 0, FirstTurn(sts))
<1>1. Len(sts) \in Nat
  OBVIOUS
<1>2. FirstTurn(sts) = [lower |-> 1, upper |-> Len(sts), found |-> {}]
  BY DEF FirstTurn
<1> QED
  BY <1>1, <1>2 DEF Searched, Turning

LEMMA SearchExists ==
  ASSUME NEW sts \in Seq(Inits), Increasing(sts), NEW sym \in Nat
  PROVE  \E f : IsSearch(sym, sts, f)
<1> DEFINE m == Len(sts)
           V == {h \in Turning : Searched(sym, sts, 0, h)}
           step == [p \in (1 .. m) \X V |-> Turned(sym, sts, p[2])]
<1>0. m \in Nat /\ 0 \in Nat /\ 0 <= m /\ 0 + 1 = 1
  OBVIOUS
<1>1. FirstTurn(sts) \in V
  <2>1. PICK h : h = FirstTurn(sts) /\ Searched(sym, sts, 0, h)
    BY FirstSearched
  <2>2. h \in Turning
    BY <2>1 DEF Searched
  <2> QED
    BY <2>1, <2>2
<1>2. ASSUME NEW k \in 1 .. m, NEW h \in V
      PROVE  Turned(sym, sts, h) \in V
  <2>1. 0 \in 0 .. Len(sts) - 1 /\ 0 + 1 = 1
    BY <1>0
  <2>2. Searched(sym, sts, 1, Turned(sym, sts, h))
    BY <2>1, TurnSearched
  <2>3. PICK g : g = Turned(sym, sts, h)
    OBVIOUS
  <2>4. g \in Turning /\ g.lower \in Nat /\ g.upper \in Nat
    BY <2>2, <2>3 DEF Searched, Turning
  <2>5. Searched(sym, sts, 0, g)
    BY <1>0, <2>2, <2>3, <2>4 DEF Searched
  <2> QED
    BY <2>3, <2>4, <2>5
<1> HIDE DEF m, V
<1>3. step \in [(0 + 1 .. m) \X V -> V]
  <2>1. \A p \in (1 .. m) \X V : p[1] \in 1 .. m /\ p[2] \in V
    OBVIOUS
  <2> QED
    BY <1>0, <1>2, <2>1
<1>4. \A k \in 1 .. m : \A v \in V : step[<<k, v>>] = Turned(sym, sts, v)
  OBVIOUS
<1> HIDE DEF step
<1>5. PICK g : Iterated(0, m, V, FirstTurn(sts), step, g)
  BY <1>0, <1>1, <1>3, Iterates
<1>6. ASSUME NEW k \in 0 .. m
      PROVE  g[k] = IF k = 0 THEN FirstTurn(sts) ELSE Turned(sym, sts, g[k - 1])
  <2>1. CASE k = 0
    BY <1>5, <2>1 DEF Iterated
  <2>2. CASE k # 0
    <3>1. k \in 1 .. m /\ k \in 0 + 1 .. m /\ k - 1 \in 0 .. m
      BY <1>0, <2>2
    <3>2. g[k] = step[<<k, g[k - 1]>>] /\ g[k - 1] \in V
      BY <1>5, <3>1 DEF Iterated
    <3> QED
      BY <1>4, <2>2, <3>1, <3>2
  <2> QED
    BY <2>1, <2>2
<1>7. g = [k \in 0 .. m |-> g[k]]
  BY <1>5 DEF Iterated
<1>8. IsSearch(sym, sts, g)
  BY <1>6, <1>7 DEF IsSearch, m
<1> QED
  BY <1>8

(* The search by halves finds the character, if the table has it, and      *)
(* nothing else.                                                           *)
LEMMA SearchIs ==
  ASSUME NEW sts \in Seq(Inits), Increasing(sts), NEW sym \in Nat,
         NEW r, r = get_init_state(sym, sts)
  PROVE  /\ (\E i \in 1 .. Len(sts) : sts[i].c = sym) => r # {}
         /\ r # {} => \E i \in 1 .. Len(sts) :
                        sts[i].c = sym /\ r = {sts[i].st}
<1>1. PICK f : f = CHOOSE g : IsSearch(sym, sts, g)
  OBVIOUS
<1>2. IsSearch(sym, sts, f)
  BY <1>1, SearchExists
<1>3. r = f[Len(sts)].found
  BY <1>1, Zenon DEF get_init_state, IsSearch, Turned, FirstTurn, MiddleOf
<1>4. \A k \in 0 .. Len(sts) :
        f[k] = IF k = 0 THEN FirstTurn(sts) ELSE Turned(sym, sts, f[k - 1])
  BY <1>2, Zenon DEF IsSearch
<1>5. Len(sts) \in Nat /\ 0 \in Nat
  OBVIOUS
<1> DEFINE P == {k \in 0 .. Len(sts) : Searched(sym, sts, k, f[k])}
<1>6. 0 \in P
  <2>1. 0 \in 0 .. Len(sts) /\ f[0] = FirstTurn(sts)
    BY <1>4, <1>5
  <2> QED
    BY <2>1, FirstSearched
<1>7. ASSUME NEW k \in 0 .. Len(sts) - 1, k \in P PROVE k + 1 \in P
  <2>1. k + 1 \in 0 .. Len(sts) /\ k + 1 # 0 /\ (k + 1) - 1 = k
    BY <1>5
  <2>2. f[k + 1] = Turned(sym, sts, f[k])
    BY <1>4, <2>1
  <2>3. Searched(sym, sts, k, f[k])
    BY <1>7
  <2>4. Searched(sym, sts, k + 1, f[k + 1])
    BY <2>2, <2>3, TurnSearched
  <2> QED
    BY <2>1, <2>4
<1>8. Len(sts) \in P
  <2>1. Len(sts) \in 0 .. Len(sts)
    BY <1>5
  <2> HIDE DEF P
  <2> QED
    BY <1>5, <1>6, <1>7, <2>1, Upwards
<1>9. PICK h : h = f[Len(sts)] /\ Searched(sym, sts, Len(sts), h)
  BY <1>8
<1>10. ASSUME h.found = {}, NEW i \in 1 .. Len(sts), sts[i].c = sym PROVE FALSE
  <2>1. h.lower \in Nat /\ h.upper \in Nat
    BY <1>9 DEF Searched, Turning
  <2>2. h.lower <= i /\ i <= h.upper
    BY <1>9, <1>10 DEF Searched
  <2>3. h.lower > h.upper \/ h.upper - h.lower + 1 <= Len(sts) - Len(sts)
    BY <1>9, <1>10 DEF Searched
  <2> QED
    BY <1>5, <2>1, <2>2, <2>3
<1>11. h.found # {} => \E i \in 1 .. Len(sts) : sts[i].c = sym /\ h.found = {sts[i].st}
  BY <1>9 DEF Searched
<1> QED
  BY <1>3, <1>9, <1>10, <1>11

-----------------------------------------------------------------------------
(* Every prefix of a string of the trie has a node; the node after another *)
(* is its child.                                                           *)

LEMMA PrefixKept ==
  ASSUME NEW p \in Seq(Nat), NEW c \in Nat, NEW l \in Nat, l <= Len(p)
  PROVE  SubSeq(Append(p, c), 1, l) = SubSeq(p, 1, l)
OBVIOUS

LEMMA PrefixNode ==
  ASSUME NEW nb, NEW n, Sound(nb, n), NEW i \in 0 .. n, NEW u \in Seq(Nat),
         IsPrefix(u, get_string(nb, i))
  PROVE  \E j \in 0 .. n : get_string(nb, j) = u
<1> DEFINE Bad == {k \in 0 .. n : IsPrefix(u, get_string(nb, k))}
<1>0. n \in Nat
  BY KidsAre
<1>1. Bad \subseteq Nat /\ Bad # {}
  BY <1>0
<1>2. PICK k \in Bad : \A y \in Bad : k <= y
  <2> HIDE DEF Bad
  <2> QED
    BY <1>1, LeastOf
<1>3. PICK s : s = get_string(nb, k)
  OBVIOUS
<1>4. k \in 0 .. n /\ IsPrefix(u, s) /\ s \in Seq(Nat)
  BY <1>3, StringsAre
<1>5. Len(u) <= Len(s) /\ Len(u) \in Nat /\ Len(s) \in Nat
  BY <1>4 DEF IsPrefix
<1>8. /\ SubSeq(u, 1, Len(u)) = SubSeq(s, 1, Len(u))
      /\ SubSeq(u, 1, Len(u)) = u /\ SubSeq(s, 1, Len(s)) = s
  BY <1>4 DEF IsPrefix
<1> HIDE DEF Bad
<1>6. CASE Len(u) = Len(s)
  <2>1. u = s
    BY <1>6, <1>8
  <2> QED
    BY <1>3, <1>4, <2>1
<1>7. CASE Len(u) # Len(s)
  <2>1. k \in 1 .. n
    <3>1. CASE k = 0
      <4>1. s = <<>>
        BY <1>3, <3>1, StringIs
      <4>2. Len(s) = 0
        BY <4>1
      <4> QED
        BY <1>5, <1>7, <4>2
    <3> QED
      BY <1>0, <1>4, <3>1
  <2>2. PICK y, p, c : y = nb[k].parent /\ p = get_string(nb, y) /\ c = nb[k].c
    OBVIOUS
  <2>3. y \in 0 .. k - 1 /\ c \in Nat /\ y \in 0 .. n
    BY <1>0, <2>1, <2>2, ParentIs
  <2>4. s = Append(p, c) /\ p \in Seq(Nat)
    BY <1>3, <2>1, <2>2, <2>3, StringIs, StringsAre
  <2>5. Len(s) = Len(p) + 1 /\ Len(p) \in Nat
    BY <2>4
  <2>6. SubSeq(s, 1, Len(u)) = SubSeq(p, 1, Len(u))
    <3>1. Len(u) <= Len(p)
      BY <1>5, <1>7, <2>5
    <3> QED
      BY <1>5, <2>4, <3>1, PrefixKept
  <2>7. IsPrefix(u, p)
    <3>1. Len(u) <= Len(p)
      BY <1>5, <1>7, <2>5
    <3>2. SubSeq(u, 1, Len(u)) = SubSeq(p, 1, Len(u))
      BY <1>8, <2>6
    <3> QED
      BY <3>1, <3>2 DEF IsPrefix
  <2>8. y \in Bad
    BY <2>2, <2>3, <2>7 DEF Bad
  <2> QED
    BY <1>0, <1>2, <2>3, <2>8
<1> QED
  BY <1>6, <1>7

LEMMA NodeAfter ==
  ASSUME NEW nb, NEW n, Sound(nb, n), NEW x \in 0 .. n, NEW j \in 0 .. n,
         NEW c \in Nat,
         get_string(nb, j) = Append(get_string(nb, x), c)
  PROVE  j \in Kids(nb, x) /\ nb[j].c = c
<1>1. PICK u : u = get_string(nb, x) /\ u \in Seq(Nat)
  BY StringsAre
<1>2. n \in Nat /\ Kids(nb, x) = {k \in 1 .. n : nb[k].parent = x}
  BY KidsAre
<1>3. j \in 1 .. n
  <2>1. Append(u, c) # <<>>
    BY <1>1
  <2>2. j # 0
    BY <1>1, <2>1, StringIs
  <2> QED
    BY <1>2, <2>2
<1>4. PICK y, v : y = nb[j].parent /\ v = get_string(nb, y)
  OBVIOUS
<1>5. y \in 0 .. n /\ nb[j].c \in Nat
  <2>1. y \in 0 .. j - 1 /\ nb[j].c \in Nat
    BY <1>3, <1>4, ParentIs
  <2> QED
    BY <1>2, <1>3, <2>1
<1>6. get_string(nb, j) = Append(v, nb[j].c) /\ v \in Seq(Nat)
  BY <1>3, <1>4, <1>5, StringIs, StringsAre
<1>7. u = v /\ c = nb[j].c
  <2>1. PICK d : d = nb[j].c /\ d \in Nat
    BY <1>5
  <2>2. Append(u, c) = Append(v, d)
    BY <1>1, <1>6, <2>1
  <2>3. u \in Seq(Nat) /\ v \in Seq(Nat)
    BY <1>1, <1>6
  <2>4. u = v /\ c = d
    BY <1>5, <2>1, <2>2, <2>3, AppendedApart
  <2> QED
    BY <2>1, <2>4
<1>8. y = x
  BY <1>1, <1>4, <1>5, <1>7, StringsApart
<1> QED
  BY <1>2, <1>3, <1>4, <1>7, <1>8

-----------------------------------------------------------------------------
(* What is generated for the delimiters.                                   *)

Firsts == {d[1] : d \in Delimiters}

(* N are the nodes of the rows of the table.                               *)
Generated(n, N, inits) ==
  /\ WordsIn(atrie, n, Delimiters)
  /\ Tabled(atrie, n, Len(Children(atrie, 0)), ji.jumps, inits, N)
  /\ SameInits(inits, ji.init_table) /\ Increasing(ji.init_table)

Asked ==
  /\ <<Firsts, delimiter_begin_cat_name>> \in requests
  /\ \A d \in Delimiters : d \in Seq(Nat) /\ d # <<>>

(* The nodes below the root have different characters.                     *)
LEMMA InitsApart ==
  ASSUME NEW nb, NEW n, Sound(nb, n), NEW rows, NEW inits, NEW N,
         Tabled(nb, n, Len(Children(nb, 0)), rows, inits, N)
  PROVE  \A j, k \in 1 .. Len(inits) : inits[j].c = inits[k].c => j = k
<1>1. PICK list : list = Children(nb, 0)
  OBVIOUS
<1>2. 0 \in 0 .. n /\ n \in Nat
  BY KidsAre
<1>3. /\ list \in Seq(1 .. n) /\ IsInjective(list)
      /\ \A j \in 1 .. Len(list) :
           list[j] \in 1 .. n /\ nb[list[j]].parent = 0
  BY <1>1, <1>2, ChildIs
<1>4. /\ Len(inits) = Len(list)
      /\ \A k \in 1 .. Len(list) : inits[k].c = nb[list[k]].c
  BY <1>1 DEF Tabled
<1>5. ASSUME NEW j \in 1 .. Len(list), NEW k \in 1 .. Len(list),
             inits[j].c = inits[k].c
      PROVE  j = k
  <2>1. PICK x, y : x = list[j] /\ y = list[k]
    OBVIOUS
  <2>2. /\ x \in 1 .. n /\ y \in 1 .. n /\ nb[x].c = nb[y].c
        /\ nb[x].parent = 0 /\ nb[y].parent = 0
    BY <1>3, <1>4, <1>5, <2>1
  <2>3. y \in Siblings(nb, x)
    BY <2>2, KidsAre DEF Siblings
  <2>4. x = y
    BY <2>2, <2>3 DEF Sound
  <2>5. j \in DOMAIN list /\ k \in DOMAIN list
    BY <1>3
  <2> QED
    BY <1>3, <2>1, <2>4, <2>5 DEF IsInjective
<1> QED
  BY <1>4, <1>5

LEMMA TablesMade ==
  ASSUME NEW nb, NEW n, Sound(nb, n), NEW tables,
         tables = [jumps(nb) EXCEPT !.init_table = SortedInits(@)]
  PROVE  \E N, inits :
           /\ Tabled(nb, n, Len(Children(nb, 0)), tables.jumps, inits, N)
           /\ SameInits(inits, tables.init_table)
           /\ Increasing(tables.init_table)
<1>1. PICK made : made = jumps(nb) /\ made \in JumpTables
  BY JumpsTabled
<1>2. PICK inits, rows, t : inits = made.init_table /\ rows = made.jumps
                            /\ t = SortedInits(inits)
  OBVIOUS
<1>3. tables.jumps = rows /\ tables.init_table = t
  <2>1. tables = [made EXCEPT !.init_table = t]
    BY <1>1, <1>2
  <2> QED
    BY <1>1, <1>2, <2>1 DEF JumpTables
<1>4. PICK N : Tabled(nb, n, Len(Children(nb, 0)), rows, inits, N)
  BY <1>1, <1>2, JumpsTabled
<1>5. \A j, k \in 1 .. Len(inits) : inits[j].c = inits[k].c => j = k
  BY <1>4, InitsApart
<1>6. inits \in Seq(Inits)
  BY <1>1, <1>2 DEF JumpTables
<1>7. SameInits(inits, t) /\ Increasing(t)
  BY <1>2, <1>5, <1>6, SortedIs
<1> QED
  BY <1>3, <1>4, <1>7

LEMMA GeneratedStep ==
  ASSUME DelimIInv, CatIInv, generate_delim_automaton_impl
  PROVE  (\E n, N, inits : Generated(n, N, inits))' /\ Asked'
<1>1. UNCHANGED <<strs_trie, interned, strsc, del_repres>>
  BY Zenon DEF generate_delim_automaton_impl, defVars
<1>2. Delimiters' = Delimiters
  BY <1>1 DEF Delimiters
<1>3. \E n : WordsIn(atrie', n, Delimiters)
  BY TrieCoded, Zenon DEF DelimIInv
<1>4. PICK trie, n : trie = atrie' /\ WordsIn(trie, n, Delimiters)
  BY <1>3
<1>5. PICK tables : tables = ji'
  OBVIOUS
<1>6. tables = [jumps(trie) EXCEPT !.init_table = SortedInits(@)]
  <2>1. ji' = [jumps(atrie') EXCEPT !.init_table = SortedInits(@)]
    BY Zenon DEF generate_delim_automaton_impl
  <2> QED
    BY <1>4, <1>5, <2>1
<1>7. Sound(trie, n)
  BY <1>4 DEF WordsIn
<1>8. PICK N, inits :
        /\ Tabled(trie, n, Len(Children(trie, 0)), tables.jumps, inits, N)
        /\ SameInits(inits, tables.init_table)
        /\ Increasing(tables.init_table)
  BY <1>6, <1>7, TablesMade
<1>9. Generated(n, N, inits)'
  BY <1>2, <1>4, <1>5, <1>8, Zenon DEF Generated
<1>10. Asked'
  <2> DEFINE strings == [k \in DOMAIN del_repres |->
                           get_string(strs_trie, del_repres[k])]
             chars   == {strings[k][1] : k \in DOMAIN strings}
             name    == NameOf(char_cat, category_name, chars, DELIMITER_BEGIN)
  <2>1. delimiter_begin_cat_name' = name
    BY Zenon DEF generate_delim_automaton_impl
  <2>2. requests' = requests \cup {<<chars, name>>}
    BY Zenon DEF generate_delim_automaton_impl, add_category
  <2>3. DOMAIN strsc = {del_repres[k] : k \in DOMAIN del_repres}
    BY DEF DelimIInv, DelimInv
  <2>4. chars = {get_string(strs_trie, del_repres[k])[1] :
                   k \in DOMAIN del_repres}
    OBVIOUS
  <2> HIDE DEF strings, chars, name
  <2>5. chars = Firsts
    BY <2>3, <2>4 DEF Firsts, Delimiters
  <2>6. Firsts' = Firsts
    BY <1>2 DEF Firsts
  <2>7. ASSUME NEW d \in Delimiters PROVE d \in Seq(Nat) /\ d # <<>>
    <3>1. PICK k \in DOMAIN del_repres : d = get_string(strs_trie, del_repres[k])
      BY <2>3 DEF Delimiters
    <3>2. PICK nb, q : nb = strs_trie /\ Sound(nb, q)
      BY DEF DelimIInv, InternedInv
    <3>3. PICK i : i = del_repres[k] /\ i \in DOMAIN nb /\ i # 0
      BY <3>2 DEF DelimIInv, DelimInv, CatIInv, RealInv
    <3>4. i \in 0 .. q /\ 0 \in 0 .. q
      BY <3>2, <3>3, KidsAre
    <3>5. get_string(nb, i) \in Seq(Nat) /\ get_string(nb, 0) = <<>>
      BY <3>2, <3>4, StringsAre, StringIs
    <3>6. get_string(nb, i) # <<>>
      BY <3>2, <3>3, <3>4, <3>5, StringsApart
    <3> QED
      BY <3>1, <3>2, <3>3, <3>5, <3>6
  <2> QED
    BY <1>2, <2>1, <2>2, <2>5, <2>6, <2>7, Zenon DEF Asked
<1> QED
  BY <1>9, <1>10

-----------------------------------------------------------------------------
(* The scanner is at a row of the table, which is that of what was read if *)
(* no node has children but the last of its level.                         *)

ReadAt(x) ==
  /\ get_string(atrie, x) = read
  /\ over => /\ code = atrie[x].attribute
             /\ ch # 0 => \A k \in Kids(atrie, x) : atrie[k].c # ch

Walks(N) ==
  /\ read = <<>> => state = Initial
  /\ read # <<>> => /\ state \in Nat /\ state + 1 \in 1 .. Len(N)
                    /\ AllStraight(atrie) => ReadAt(N[state + 1])

(* The children of the p-th node come right after it.                      *)
ChildrenAfter(nb, N, p) ==
  LET list == Children(nb, N[p])
  IN \A j \in 1 .. Len(list) : N[p + j] = list[j]

LEMMA RowsAre ==
  ASSUME NEW n, NEW N, NEW inits, Generated(n, N, inits)
  PROVE  /\ n \in Nat /\ N \in Seq(1 .. n) /\ Len(N) \in Nat
         /\ DOMAIN ji.jumps = 1 .. Len(N)
         /\ \A p \in 1 .. Len(N) :
              /\ N[p] \in 1 .. n /\ RowIs(atrie, N[p], p, ji.jumps[p])
              /\ p + Len(Children(atrie, N[p])) <= Len(N)
              /\ AllStraight(atrie) => ChildrenAfter(atrie, N, p)
<1>1. Sound(atrie, n) /\ n \in Nat
  BY KidsAre DEF Generated, WordsIn
<1>2. /\ N \in Seq(1 .. n) /\ ji.jumps \in Seq(Rows)
      /\ Len(ji.jumps) = Len(N)
  BY DEF Generated, Tabled
<1>3. ASSUME NEW p \in 1 .. Len(N) PROVE N[p] \in 1 .. n
  BY <1>2, MemberIs
<1>4. \A p \in 1 .. Len(N) :
        /\ RowIs(atrie, N[p], p, ji.jumps[p])
        /\ p + Len(Children(atrie, N[p])) <= Len(N)
        /\ AllStraight(atrie) => ChildrenAfter(atrie, N, p)
  BY DEF Generated, Tabled, ChildrenAfter
<1>5. DOMAIN ji.jumps = 1 .. Len(N) /\ Len(N) \in Nat
  BY <1>2
<1> QED
  BY <1>1, <1>2, <1>3, <1>4, <1>5, Zenon

(* A character that begins a delimiter has an initial state.               *)
LEMMA BeginStep ==
  ASSUME NEW n, NEW N, NEW inits, Generated(n, N, inits), Asked,
         ch \in Firsts, delimiter_begin
  PROVE  Walks(N)'
<1>1. PICK nb : nb = atrie /\ Sound(nb, n) /\ WordsIn(nb, n, Delimiters)
  BY DEF Generated, WordsIn
<1>2. PICK d \in Delimiters : ch = d[1]
  BY DEF Firsts
<1>3. d \in Seq(Nat) /\ d # <<>>
  BY DEF Asked
<1>4. ch \in Nat /\ IsPrefix(<<ch>>, d)
  <2>1. Len(d) \in Nat /\ 1 <= Len(d) /\ d[1] \in Nat
    BY <1>3
  <2>2. SubSeq(<<ch>>, 1, 1) = SubSeq(d, 1, 1) /\ Len(<<ch>>) = 1
    BY <1>2, <1>3, <2>1
  <2> QED
    BY <1>2, <2>1, <2>2 DEF IsPrefix
<1>5. PICK j \in 0 .. n : get_string(nb, j) = <<ch>>
  <2>1. PICK i \in 0 .. n : get_string(nb, i) = d
    BY <1>1 DEF WordsIn
  <2>2. <<ch>> \in Seq(Nat)
    BY <1>4
  <2> QED
    BY <1>1, <1>4, <2>1, <2>2, PrefixNode
<1>6. 0 \in 0 .. n /\ get_string(nb, 0) = <<>>
  BY <1>1, KidsAre, StringIs
<1>7. j \in Kids(nb, 0) /\ nb[j].c = ch
  <2>1. get_string(nb, j) = Append(get_string(nb, 0), ch)
    BY <1>4, <1>5, <1>6
  <2> QED
    BY <1>1, <1>4, <1>6, <2>1, NodeAfter
<1>8. PICK list : list = Children(nb, 0) /\ list \in Seq(1 .. n)
                  /\ Range(list) = Kids(nb, 0)
  BY <1>1, <1>6, ChildrenOf DEF Lists
<1>9. PICK k \in 1 .. Len(list) : list[k] = j
  BY <1>7, <1>8 DEF Range
<1>10. PICK t : t = ji.init_table /\ SameInits(inits, t) /\ Increasing(t)
  BY DEF Generated
<1>11. /\ inits \in Seq(Inits) /\ Len(inits) = Len(list)
       /\ \A i \in 1 .. Len(list) :
            /\ inits[i].c = nb[list[i]].c
            /\ inits[i].st + 1 \in 1 .. Len(N) /\ N[inits[i].st + 1] = list[i]
  BY <1>1, <1>8 DEF Generated, Tabled
<1>12. t \in Seq(Inits) /\ \E i \in 1 .. Len(t) : t[i].c = ch
  <2>1. inits[k].c = ch
    BY <1>7, <1>9, <1>11
  <2>2. PICK i \in 1 .. Len(t) : t[i] = inits[k]
    BY <1>9, <1>10, <1>11 DEF SameInits
  <2> QED
    BY <1>10, <2>1, <2>2 DEF SameInits
<1>13. PICK r : r = get_init_state(ch, t)
  OBVIOUS
<1>14. r # {} /\ \E i \in 1 .. Len(t) : t[i].c = ch /\ r = {t[i].st}
  BY <1>4, <1>10, <1>12, <1>13, SearchIs
<1>15. PICK i \in 1 .. Len(t) : t[i].c = ch /\ r = {t[i].st}
  BY <1>14
<1>16. PICK l \in 1 .. Len(inits) : t[i] = inits[l]
  BY <1>10 DEF SameInits
<1>17. PICK x : x = inits[l].st
  OBVIOUS
<1>18. /\ x \in Nat /\ x + 1 \in 1 .. Len(N) /\ N[x + 1] = list[l]
       /\ nb[list[l]].c = ch /\ list[l] \in 1 .. n
  <2>1. inits[l] \in Inits
    BY <1>11, MemberIs
  <2>2. l \in 1 .. Len(list)
    BY <1>11
  <2>3. list[l] \in 1 .. n
    BY <1>8, <2>2, MemberIs
  <2> QED
    BY <1>11, <1>15, <1>16, <1>17, <2>1, <2>2, <2>3 DEF Inits
<1>19. state' = x
  <2>1. state' = CHOOSE s \in r : TRUE
    <3>1. state' = IF get_init_state(ch, ji.init_table) = {} THEN Initial
                   ELSE CHOOSE s \in get_init_state(ch, ji.init_table) : TRUE
      BY Zenon DEF delimiter_begin
    <3> QED
      BY <1>10, <1>13, <1>14, <3>1
  <2>2. r = {x}
    BY <1>15, <1>16, <1>17
  <2> QED
    BY <2>1, <2>2
<1>20. read' = <<ch>> /\ over' = FALSE /\ atrie' = atrie /\ ~over
  <2>1. read' = <<ch>> /\ UNCHANGED over /\ ~over /\ UNCHANGED genVars
    BY Zenon DEF delimiter_begin
  <2>2. over' = over
    BY <2>1
  <2> QED
    BY <2>1, <2>2 DEF genVars, Generated
<1>21. get_string(nb, list[l]) = <<ch>>
  <2>1. nb[list[l]].parent = 0
    BY <1>1, <1>6, <1>8, <1>11, ChildIs
  <2>2. get_string(nb, list[l]) = Append(get_string(nb, 0), ch)
    BY <1>1, <1>18, <2>1, StringIs
  <2>3. Append(<<>>, ch) = <<ch>>
    BY <1>4
  <2> QED
    BY <1>6, <2>2, <2>3, Zenon
<1> QED
  BY <1>1, <1>18, <1>19, <1>20, <1>21 DEF Walks, ReadAt

LEMMA ProcStep ==
  ASSUME NEW n, NEW N, NEW inits, Generated(n, N, inits), Walks(N),
         NEW c \in Nat, delimiter_proc(c)
  PROVE  Walks(N)'
<1>1. PICK nb : nb = atrie /\ Sound(nb, n)
  BY DEF Generated, WordsIn
<1>2. IsRow(state) /\ ~over /\ code' = CodeAt(state) /\ ch' = c /\ atrie' = nb
  <2>1. IsRow(state) /\ ~over /\ code' = CodeAt(state) /\ ch' = c
        /\ UNCHANGED genVars
    BY Zenon DEF delimiter_proc
  <2> QED
    BY <1>1, <2>1 DEF genVars
<1>3. /\ n \in Nat /\ N \in Seq(1 .. n) /\ Len(N) \in Nat
      /\ DOMAIN ji.jumps = 1 .. Len(N)
  BY RowsAre
<1>4. read # <<>> /\ state \in Nat /\ state + 1 \in 1 .. Len(N)
  <2>1. state # Initial
    BY <1>2, <1>3 DEF IsRow, Initial
  <2> QED
    BY <2>1 DEF Walks
<1>5. PICK p, x, row, list :
        /\ p = state + 1 /\ x = N[p] /\ row = ji.jumps[p]
        /\ list = Children(nb, x)
  OBVIOUS
<1>6. /\ p \in 1 .. Len(N) /\ x \in 1 .. n /\ RowIs(nb, x, p, row)
      /\ p + Len(list) <= Len(N)
      /\ AllStraight(nb) => \A j \in 1 .. Len(list) : N[p + j] = list[j]
  <2>1. p \in 1 .. Len(N)
    BY <1>4, <1>5
  <2>2. N[p] \in 1 .. n /\ RowIs(atrie, N[p], p, ji.jumps[p])
    BY <2>1, RowsAre, Zenon
  <2>3. p + Len(Children(atrie, N[p])) <= Len(N)
    BY <2>1, RowsAre, Zenon
  <2>4. AllStraight(atrie) => ChildrenAfter(atrie, N, p)
    BY <2>1, RowsAre, Zenon
  <2>5. AllStraight(nb) => \A j \in 1 .. Len(list) : N[p + j] = list[j]
    BY <1>1, <1>5, <2>4 DEF ChildrenAfter
  <2> QED
    BY <1>1, <1>5, <2>1, <2>2, <2>3, <2>5
<1>7. /\ row.jump_chars = [j \in DOMAIN list |-> nb[list[j]].c]
      /\ row.code = nb[x].attribute
      /\ list # <<>> => row.first_state = p
  BY <1>5, <1>6 DEF RowIs
<1>8. x \in 0 .. n /\ list \in Seq(1 .. n) /\ Range(list) = Kids(nb, x)
      /\ Len(list) \in Nat /\ DOMAIN list = 1 .. Len(list)
  <2>1. x \in 0 .. n
    BY <1>3, <1>6
  <2>2. list \in Seq(1 .. n) /\ Range(list) = Kids(nb, x)
    BY <1>1, <1>5, <2>1, ChildrenOf DEF Lists
  <2> QED
    BY <2>1, <2>2
<1>9. PICK y : y = search_char(c, row.jump_chars)
  OBVIOUS
<1>10. y = {k \in 0 .. Len(list) - 1 : nb[list[k + 1]].c = c}
  <2>1. PICK chars : chars = row.jump_chars
    OBVIOUS
  <2>2. chars = [j \in 1 .. Len(list) |-> nb[list[j]].c]
    BY <1>7, <1>8, <2>1
  <2>3. chars \in [1 .. Len(list) -> {nb[list[j]].c : j \in 1 .. Len(list)}]
    BY <2>2
  <2>4. Len(chars) = Len(list)
    BY <1>8, <2>3, LengthIs
  <2>5. y = {k \in 0 .. Len(chars) - 1 : chars[k + 1] = c}
    BY <1>9, <2>1 DEF search_char
  <2>6. \A k \in 0 .. Len(list) - 1 : k + 1 \in 1 .. Len(list)
    BY <1>8
  <2> QED
    BY <2>2, <2>4, <2>5, <2>6
<1>11. Row(state) = row
  BY <1>5 DEF Row
<1>12. CASE y # {}
  <2>1. PICK k : k = CHOOSE i \in y : TRUE
    OBVIOUS
  <2>2. k \in y
    BY <1>12, <2>1
  <2>3. state' = row.first_state + k /\ read' = Append(read, c) /\ over' = over
    <3>1. search_char(c, Row(state).jump_chars) = y
      BY <1>9, <1>11
    <3>2. /\ state' = Row(state).first_state
                        + CHOOSE i \in search_char(c, Row(state).jump_chars) : TRUE
          /\ read' = Append(read, c) /\ UNCHANGED over
      BY <1>12, <3>1, Zenon DEF delimiter_proc
    <3> QED
      BY <1>11, <2>1, <3>1, <3>2
  <2>4. /\ k \in 0 .. Len(list) - 1 /\ k + 1 \in 1 .. Len(list)
        /\ nb[list[k + 1]].c = c /\ list # <<>>
    BY <1>8, <1>10, <2>2
  <2>5. state' = p + k /\ state' \in Nat /\ state' + 1 = p + (k + 1)
        /\ state' + 1 \in 1 .. Len(N)
    <3>1. state' = p + k
      BY <1>7, <2>3, <2>4
    <3>2. p \in 1 .. Len(N) /\ p + Len(list) <= Len(N)
      BY <1>6
    <3>3. p + k \in Nat /\ (p + k) + 1 = p + (k + 1)
          /\ (p + k) + 1 \in 1 .. Len(N)
      BY <1>3, <1>8, <2>4, <3>2
    <3> QED
      BY <3>1, <3>3
  <2>6. ASSUME AllStraight(nb)
        PROVE  get_string(nb, N[state' + 1]) = Append(read, c)
    <3>1. N[state' + 1] = list[k + 1]
      BY <1>6, <2>4, <2>5, <2>6
    <3>2. PICK z : z = list[k + 1] /\ z \in 1 .. n /\ nb[z].parent = x
      BY <1>1, <1>5, <1>8, <2>4, ChildIs
    <3>3. get_string(nb, z) = Append(get_string(nb, x), nb[z].c)
      BY <1>1, <3>2, StringIs
    <3>4. get_string(nb, x) = read
      BY <1>1, <1>4, <1>5, <2>6 DEF Walks, ReadAt
    <3> QED
      BY <2>4, <3>1, <3>2, <3>3, <3>4
  <2>7. read' # <<>>
    BY <2>3
  <2>8. ~over'
    BY <1>2, <2>3
  <2> QED
    BY <1>1, <1>2, <2>3, <2>5, <2>6, <2>7, <2>8 DEF Walks, ReadAt
<1>13. CASE y = {}
  <2>1. over' = TRUE /\ state' = state /\ read' = read
    <3>1. search_char(c, Row(state).jump_chars) = y
      BY <1>9, <1>11
    <3>2. over' = TRUE /\ UNCHANGED <<state, read>>
      BY <1>13, <3>1, Zenon DEF delimiter_proc
    <3> QED
      BY <3>2
  <2>2. code' = nb[x].attribute
    BY <1>2, <1>7, <1>11 DEF CodeAt
  <2>3. ASSUME NEW k \in Kids(nb, x) PROVE nb[k].c # c
    <3>1. PICK j \in 1 .. Len(list) : list[j] = k
      BY <1>8 DEF Range
    <3>2. j - 1 \in 0 .. Len(list) - 1 /\ (j - 1) + 1 = j
      BY <1>8
    <3> QED
      BY <1>10, <1>13, <3>1, <3>2
  <2>4. AllStraight(nb) => get_string(nb, x) = read
    BY <1>1, <1>4, <1>5 DEF Walks, ReadAt
  <2> QED
    BY <1>1, <1>2, <1>4, <1>5, <2>1, <2>2, <2>3, <2>4 DEF Walks, ReadAt
<1> QED
  BY <1>12, <1>13

LEMMA FinalStep ==
  ASSUME NEW n, NEW N, NEW inits, Generated(n, N, inits), Walks(N),
         delimiter_final_proc
  PROVE  Walks(N)'
<1>1. /\ IsRow(state) /\ code' = CodeAt(state) /\ ch' = 0
      /\ state' = state /\ read' = read /\ atrie' = atrie
  <2>1. IsRow(state) /\ code' = CodeAt(state) /\ ch' = 0
        /\ UNCHANGED <<genVars, state, read>>
    BY Zenon DEF delimiter_final_proc
  <2> QED
    BY <2>1 DEF genVars
<1>2. PICK p, x : p = state + 1 /\ x = N[p]
  OBVIOUS
<1>3. read # <<>> => p \in 1 .. Len(N)
  BY <1>2 DEF Walks
<1>4. read # <<>> => RowIs(atrie, x, p, ji.jumps[p])
  BY <1>2, <1>3, RowsAre, Zenon
<1>5. read # <<>> => code' = atrie[x].attribute
  BY <1>1, <1>2, <1>4 DEF CodeAt, Row, RowIs
<1> QED
  BY <1>1, <1>2, <1>5 DEF Walks, ReadAt

-----------------------------------------------------------------------------
(* The scanner in the steps of Tables.                                     *)

ScanTyped ==
  /\ phase \in {"define", "generate", "scan"}
  /\ automaton \in {"A_start", "A_delimiter"}
  /\ ch \in Texts \cup {0} /\ over \in BOOLEAN
  /\ automaton = "A_start" => read = <<>> /\ state = Initial
  /\ automaton = "A_delimiter" => phase = "scan"
  /\ automaton = "A_delimiter" /\ read = <<>> => ch \in Firsts

WalkInv ==
  phase # "define" =>
    Asked /\ \E n, N, inits : Generated(n, N, inits) /\ Walks(N)

ScanIInv == ScanTyped /\ WalkInv

LEMMA KeptOn ==
  ASSUME UNCHANGED <<strs_trie, strsc, atrie, ji, delimiter_begin_cat_name>>,
         requests \subseteq requests'
  PROVE  /\ Firsts' = Firsts /\ (Asked => Asked')
         /\ \A n, N, inits : Generated(n, N, inits) => Generated(n, N, inits)'
<1>1. Delimiters' = Delimiters
  BY DEF Delimiters
<1>2. Firsts' = Firsts
  BY <1>1 DEF Firsts
<1>3. Asked => Asked'
  BY <1>1, <1>2 DEF Asked
<1>4. ASSUME NEW n, NEW N, NEW inits, Generated(n, N, inits)
      PROVE  Generated(n, N, inits)'
  BY <1>1, <1>4, Zenon DEF Generated
<1> QED
  BY <1>2, <1>3, <1>4

(* The scanner does not move.                                              *)
LEMMA WalkKept ==
  ASSUME ScanTyped, WalkInv, phase # "define",
         UNCHANGED <<strs_trie, strsc, atrie, ji, delimiter_begin_cat_name>>,
         UNCHANGED <<state, read>>, read = <<>>,
         requests \subseteq requests'
  PROVE  WalkInv'
<1>1. Asked /\ \E n, N, inits : Generated(n, N, inits) /\ Walks(N)
  BY DEF WalkInv
<1>2. PICK n, N, inits : Generated(n, N, inits) /\ Walks(N)
  BY <1>1
<1>3. Asked' /\ Generated(n, N, inits)'
  BY <1>1, <1>2, KeptOn
<1>4. Walks(N)'
  BY <1>2 DEF Walks
<1> QED
  BY <1>3, <1>4 DEF WalkInv

(* Before a character is read.                                             *)
LEMMA StillAtStart ==
  ASSUME ScanTyped, WalkInv, automaton = "A_start",
         phase' \in {"define", "generate", "scan"},
         UNCHANGED <<automaton, state, ch, code, read, over>>,
         phase # "define"
           => UNCHANGED <<strs_trie, strsc, atrie, ji,
                          delimiter_begin_cat_name>>
              /\ requests \subseteq requests',
         phase' # "define" => phase # "define"
  PROVE  ScanIInv'
<1>1. read = <<>> /\ state = Initial
  BY DEF ScanTyped
<1>2. ScanTyped'
  BY <1>1 DEF ScanTyped
<1>3. WalkInv'
  <2>1. CASE phase' = "define"
    BY <2>1 DEF WalkInv
  <2>2. CASE phase' # "define"
    BY <1>1, <2>2, WalkKept
  <2> QED
    BY <2>1, <2>2
<1> QED
  BY <1>2, <1>3 DEF ScanIInv

LEMMA StartStep ==
  ASSUME CatIInv, ScanIInv, NEW c \in Texts, start_proc(c)
  PROVE  ScanIInv'
<1>0. ScanTyped /\ WalkInv
  BY DEF ScanIInv
<1>1. /\ phase = "scan" /\ automaton = "A_start"
      /\ Enumerator(delimiter_begin_cat_name) \in get_categories_set(c)
      /\ automaton' = "A_delimiter" /\ state' = Initial /\ ch' = c
  BY Zenon DEF start_proc
<1>2. UNCHANGED <<phase, strs_trie, strsc, atrie, ji,
                  delimiter_begin_cat_name, requests, read, over>>
  BY Zenon DEF start_proc, defVars, genVars, catVars
<1>3. Asked
  BY <1>0, <1>1 DEF WalkInv
<1>4. TableRight(categories_info, categories_table, requests)
  BY <1>1 DEF CatIInv, TableInv
<1>5. c \in Firsts
  <2>1. PICK r : r = <<Firsts, delimiter_begin_cat_name>>
    OBVIOUS
  <2>2. r \in requests
    BY <1>3, <2>1 DEF Asked
  <2>3. Enumerator(r[2]) \in get_categories_set(c) <=> c \in r[1]
    BY <1>4, <2>2, ToldRight, Zenon
  <2>4. r[1] = Firsts /\ r[2] = delimiter_begin_cat_name
    BY <2>1
  <2> QED
    BY <1>1, <2>3, <2>4, Zenon
<1>6. read = <<>> /\ state = Initial
  BY <1>0, <1>1 DEF ScanTyped
<1>7. ScanTyped'
  <2>1. Firsts' = Firsts
    BY <1>2, KeptOn
  <2> QED
    BY <1>0, <1>1, <1>2, <1>5, <1>6, <2>1 DEF ScanTyped
<1>8. WalkInv'
  BY <1>0, <1>1, <1>2, <1>6, WalkKept
<1> QED
  BY <1>7, <1>8 DEF ScanIInv

LEMMA TextsAre ==
  ASSUME NEW c \in Texts \cup {0}
  PROVE  c \in Nat
BY TablesAssumption

(* A step of the automaton of delimiters that reads on.                    *)
LEMMA DelimiterStep ==
  ASSUME ScanIInv, automaton = "A_delimiter",
         UNCHANGED <<phase, strs_trie, strsc, atrie, ji,
                     delimiter_begin_cat_name, requests, automaton>>,
         read' # <<>>, ch' \in Texts \cup {0}, over' \in BOOLEAN,
         \A n, N, inits : Generated(n, N, inits) /\ Walks(N) => Walks(N)'
  PROVE  ScanIInv'
<1>0. ScanTyped /\ WalkInv
  BY DEF ScanIInv
<1>1. phase = "scan"
  BY <1>0 DEF ScanTyped
<1>2. Asked /\ \E n, N, inits : Generated(n, N, inits) /\ Walks(N)
  BY <1>0, <1>1 DEF WalkInv
<1>3. PICK n, N, inits : Generated(n, N, inits) /\ Walks(N)
  BY <1>2
<1>4. Asked' /\ Generated(n, N, inits)'
  BY <1>2, <1>3, KeptOn
<1>5. Walks(N)'
  BY <1>3
<1>6. WalkInv'
  BY <1>4, <1>5 DEF WalkInv
<1>7. ScanTyped'
  BY <1>0, <1>1 DEF ScanTyped
<1> QED
  BY <1>6, <1>7 DEF ScanIInv

(* generate_delim_automaton_impl and the generated scanner: the table has  *)
(* a row for each node below the root, and the scanner is at a row, that   *)
(* of what was read if no node has children but the last of its level.     *)
THEOREM ScanInvariant == Spec => []ScanIInv
<1>1. Init => ScanIInv
  <2> SUFFICES ASSUME Init PROVE ScanIInv
    OBVIOUS
  <2>1. /\ phase = "define" /\ automaton = "A_start" /\ state = Initial
        /\ ch = 0 /\ read = <<>> /\ over = FALSE
    BY DEF Init
  <2> QED
    BY <2>1 DEF ScanIInv, ScanTyped, WalkInv
<1>2. DelimIInv /\ CatIInv /\ ScanIInv /\ [Next]_vars => ScanIInv'
  <2> SUFFICES ASSUME DelimIInv, CatIInv, ScanIInv, [Next]_vars
               PROVE  ScanIInv'
    OBVIOUS
  <2>0. ScanTyped /\ WalkInv
    BY DEF ScanIInv
  <2>1. phase # "scan" => automaton = "A_start"
    BY <2>0 DEF ScanTyped
  <2>2. ASSUME NEW w \in Words, string_literal(w) PROVE ScanIInv'
    <3>1. phase = "define" /\ UNCHANGED <<phase, scanVars>>
      BY <2>2, Zenon DEF string_literal
    <3>2. UNCHANGED <<automaton, state, ch, code, read, over>>
      BY <3>1, Zenon DEF scanVars
    <3> QED
      BY <2>0, <2>1, <3>1, <3>2, StillAtStart
  <2>3. ASSUME NEW w \in Words, add_new_string(w) PROVE ScanIInv'
    <3>1. phase = "define" /\ UNCHANGED <<phase, scanVars>>
      BY <2>3, Zenon DEF add_new_string
    <3>2. UNCHANGED <<automaton, state, ch, code, read, over>>
      BY <3>1, Zenon DEF scanVars
    <3> QED
      BY <2>0, <2>1, <3>1, <3>2, StillAtStart
  <2>4. ASSUME NEW s \in CharSets, generate_automaton(s) PROVE ScanIInv'
    <3>1. phase \in {"define", "generate"}
          /\ UNCHANGED <<phase, defVars, genVars, scanVars>>
      BY <2>4, Zenon DEF generate_automaton
    <3>2. UNCHANGED <<automaton, state, ch, code, read, over>>
      BY <3>1, Zenon DEF scanVars
    <3>3. UNCHANGED <<strs_trie, strsc, atrie, ji, delimiter_begin_cat_name>>
      BY <3>1, Zenon DEF defVars, genVars
    <3>4. requests \subseteq requests'
      <4>1. \E x : requests' = requests \cup {x}
        BY <2>4, Zenon DEF generate_automaton, add_category
      <4> QED
        BY <4>1
    <3> QED
      BY <2>0, <2>1, <3>1, <3>2, <3>3, <3>4, StillAtStart
  <2>5. CASE generate_delim_automaton_impl
    <3>1. phase = "define" /\ phase' = "generate" /\ UNCHANGED scanVars
      BY <2>5, Zenon DEF generate_delim_automaton_impl
    <3>2. UNCHANGED <<automaton, state, ch, code, read, over>>
      BY <3>1, Zenon DEF scanVars
    <3>3. automaton = "A_start" /\ read = <<>> /\ state = Initial
      BY <2>0, <2>1, <3>1 DEF ScanTyped
    <3>4. ScanTyped'
      BY <2>0, <3>1, <3>2, <3>3 DEF ScanTyped
    <3>5. Asked' /\ (\E n, N, inits : Generated(n, N, inits))'
      BY <2>5, GeneratedStep
    <3>6. \A N : Walks(N)'
      BY <3>2, <3>3 DEF Walks
    <3>7. WalkInv'
      BY <3>5, <3>6 DEF WalkInv
    <3> QED
      BY <3>4, <3>7 DEF ScanIInv
  <2>6. CASE generate_category_table
    <3>1. phase = "generate" /\ phase' = "scan"
          /\ UNCHANGED <<defVars, genVars, catVars, scanVars>>
      BY <2>6, Zenon DEF generate_category_table
    <3>2. UNCHANGED <<automaton, state, ch, code, read, over>>
      BY <3>1, Zenon DEF scanVars
    <3>3. UNCHANGED <<strs_trie, strsc, atrie, ji, delimiter_begin_cat_name,
                      requests>>
      BY <3>1, Zenon DEF defVars, genVars, catVars
    <3> QED
      BY <2>0, <2>1, <3>1, <3>2, <3>3, StillAtStart
  <2>7. ASSUME NEW c \in Texts, start_proc(c) PROVE ScanIInv'
    BY <2>7, StartStep
  <2>8. CASE delimiter_begin
    <3>1. /\ automaton = "A_delimiter" /\ read = <<>> /\ read' = <<ch>>
          /\ UNCHANGED <<phase, strs_trie, strsc, atrie, ji,
                         delimiter_begin_cat_name, requests, automaton,
                         ch, over>>
      BY <2>8, Zenon DEF delimiter_begin, defVars, genVars, catVars
    <3>2. ch \in Firsts /\ phase = "scan"
          /\ ch \in Texts \cup {0} /\ over \in BOOLEAN
      BY <2>0, <3>1 DEF ScanTyped
    <3>3. Asked
      BY <2>0, <3>2 DEF WalkInv
    <3>4. ASSUME NEW n, NEW N, NEW inits, Generated(n, N, inits)
          PROVE  Walks(N)'
      BY <2>8, <3>2, <3>3, <3>4, BeginStep
    <3>5. read' # <<>> /\ ch' \in Texts \cup {0} /\ over' \in BOOLEAN
      BY <3>1, <3>2
    <3> QED
      BY <3>1, <3>4, <3>5, DelimiterStep
  <2>9. ASSUME NEW c \in Texts, delimiter_proc(c) PROVE ScanIInv'
    <3>1. /\ automaton = "A_delimiter" /\ IsRow(state) /\ ch' = c
          /\ UNCHANGED <<phase, strs_trie, strsc, atrie, ji,
                         delimiter_begin_cat_name, requests, automaton>>
      BY <2>9, Zenon DEF delimiter_proc, defVars, genVars, catVars
    <3>2. \/ over' = TRUE /\ UNCHANGED <<state, read>>
          \/ over' = over /\ read' = Append(read, c)
      BY <2>9, Zenon DEF delimiter_proc
    <3>3. c \in Nat
      BY TextsAre
    <3>4. ASSUME NEW n, NEW N, NEW inits, Generated(n, N, inits), Walks(N)
          PROVE  Walks(N)'
      BY <2>9, <3>3, <3>4, ProcStep
    <3>5. over' \in BOOLEAN
      BY <2>0, <3>2 DEF ScanTyped
    <3>6. read' # <<>>
      <4>1. PICK n, N, inits : Generated(n, N, inits) /\ Walks(N)
        <5>1. phase # "define"
          BY <2>0, <3>1 DEF ScanTyped
        <5> QED
          BY <2>0, <5>1 DEF WalkInv
      <4>2. read # <<>>
        BY <3>1, <4>1, RowsAre DEF Walks, IsRow, Initial
      <4> QED
        BY <3>2, <4>2
    <3> QED
      BY <3>1, <3>4, <3>5, <3>6, DelimiterStep
  <2>10. CASE delimiter_final_proc
    <3>1. /\ automaton = "A_delimiter" /\ IsRow(state) /\ ch' = 0
          /\ over' = TRUE
          /\ UNCHANGED <<phase, strs_trie, strsc, atrie, ji,
                         delimiter_begin_cat_name, requests, automaton, read>>
      BY <2>10, Zenon DEF delimiter_final_proc, defVars, genVars, catVars
    <3>2. ASSUME NEW n, NEW N, NEW inits, Generated(n, N, inits), Walks(N)
          PROVE  Walks(N)'
      BY <2>10, <3>2, FinalStep
    <3>3. PICK n, N, inits : Generated(n, N, inits) /\ Walks(N)
      <4>1. phase # "define"
        BY <2>0, <3>1 DEF ScanTyped
      <4> QED
        BY <2>0, <4>1 DEF WalkInv
    <3>4. read # <<>>
      BY <3>1, <3>3, RowsAre DEF Walks, IsRow, Initial
    <3> QED
      BY <3>1, <3>2, <3>4, DelimiterStep
  <2>11. CASE UNCHANGED vars
    <3>1. UNCHANGED <<phase, strs_trie, strsc, atrie, ji,
                      delimiter_begin_cat_name, requests, automaton, state,
                      ch, code, read, over>>
      BY <2>11, Zenon DEF vars, defVars, genVars, catVars, scanVars
    <3>2. Delimiters' = Delimiters
      BY <3>1 DEF Delimiters
    <3>3. Firsts' = Firsts /\ (Asked <=> Asked')
      BY <3>1, <3>2 DEF Asked, Firsts
    <3>4. ScanTyped'
      BY <2>0, <3>1, <3>3 DEF ScanTyped
    <3>5. \A n, N, inits : Generated(n, N, inits) => Generated(n, N, inits)'
      BY <3>1, KeptOn
    <3>6. \A N : Walks(N) => Walks(N)'
      BY <3>1 DEF Walks, ReadAt
    <3>7. WalkInv'
      BY <2>0, <3>1, <3>3, <3>5, <3>6 DEF WalkInv
    <3> QED
      BY <3>4, <3>7 DEF ScanIInv
  <2> QED
    BY <2>2, <2>3, <2>4, <2>5, <2>6, <2>7, <2>8, <2>9, <2>10, <2>11
       DEF Next
<1> QED
  BY <1>1, <1>2, DelimInvariant, CategoriesInvariant, PTL DEF Spec

(* A literal's index is a node, a code is that of a delimiter, a name that *)
(* of a set; and the state that current_lexem goes to is before the first  *)
(* character or a row of the jump table, whatever the delimiters are:      *)
(* get_init_state finds the character, and first_state is never too far.   *)
THEOREM TypeCorrect == Spec => []TypeOK
<1>1. DelimIInv /\ CatIInv /\ ScanIInv => TypeOK
  <2> SUFFICES ASSUME DelimIInv, CatIInv, ScanIInv PROVE TypeOK
    OBVIOUS
  <2>0. ScanTyped /\ WalkInv
    BY DEF ScanIInv
  <2>1. \A p \in interned : p[2] \in DOMAIN strs_trie
    BY DEF DelimIInv, InternedInv
  <2>2. DOMAIN strsc = Range(del_repres)
    BY DEF DelimIInv, DelimInv, Range
  <2>3. DOMAIN category_name \subseteq DOMAIN char_cat
    BY DEF CatIInv, CatInv, Named
  <2>4. state = Initial \/ IsRow(state)
    <3>1. CASE automaton = "A_start" \/ read = <<>>
      <4>1. CASE automaton = "A_start"
        BY <2>0, <4>1 DEF ScanTyped
      <4>2. CASE automaton # "A_start" /\ read = <<>>
        <5>1. phase # "define"
          BY <2>0, <4>2 DEF ScanTyped
        <5> QED
          BY <2>0, <4>2, <5>1 DEF WalkInv, Walks
      <4> QED
        BY <3>1, <4>1, <4>2
    <3>2. CASE automaton # "A_start" /\ read # <<>>
      <4>1. phase # "define"
        BY <2>0, <3>2 DEF ScanTyped
      <4>2. PICK n, N, inits : Generated(n, N, inits) /\ Walks(N)
        BY <2>0, <4>1 DEF WalkInv
      <4> QED
        BY <3>2, <4>2, RowsAre DEF Walks, IsRow
    <3> QED
      BY <3>1, <3>2
  <2> QED
    BY <2>0, <2>1, <2>2, <2>3, <2>4 DEF TypeOK, ScanTyped
<1> QED
  BY <1>1, DelimInvariant, CategoriesInvariant, ScanInvariant, PTL

LEMMA ReadRight ==
  ASSUME DelimIInv, ScanIInv, Straight, read # <<>>
  PROVE  ReadsDelimiters
<1>0. ScanTyped /\ WalkInv
  BY DEF ScanIInv
<1>1. phase # "define"
  BY <1>0 DEF ScanTyped
<1>2. PICK n, N, inits : Generated(n, N, inits) /\ Walks(N)
  BY <1>0, <1>1 DEF WalkInv
<1>3. PICK nb : nb = atrie /\ Sound(nb, n) /\ WordsIn(nb, n, Delimiters)
  BY <1>2 DEF Generated, WordsIn
<1>4. AllStraight(nb)
  BY <1>3, Zenon DEF Straight, AllStraight, StraightFrom
<1>5. PICK p, x : p = state + 1 /\ x = N[p]
  OBVIOUS
<1>6. state \in Nat /\ p \in 1 .. Len(N) /\ ReadAt(x)
  BY <1>2, <1>3, <1>4, <1>5 DEF Walks
<1>7. x \in 1 .. n /\ n \in Nat
  BY <1>2, <1>5, <1>6, RowsAre, Zenon
<1>8. x \in 0 .. n /\ DOMAIN nb = 0 .. n /\ x \in DOMAIN nb \ {0}
  BY <1>3, <1>7, KidsAre
<1>9. get_string(nb, x) = read /\ read \in Seq(Nat)
  BY <1>3, <1>6, <1>8, StringsAre DEF ReadAt
<1>10. /\ \E d \in Delimiters : IsPrefix(read, d)
       /\ nb[x].attribute = IF read \in Delimiters THEN DelimiterCode(read)
                                                   ELSE UnknownCode
  <2>1. CodesRight(atrie, strs_trie, strsc)
    BY <1>1 DEF DelimIInv, CodesInv
  <2>2. AttributesStay
    BY <2>1, Zenon DEF CodesRight, AttributesStay, Delimiters, DelimiterCode
  <2>3. LET w == get_string(atrie, x)
        IN /\ \E d \in Delimiters : IsPrefix(w, d)
           /\ atrie[x].attribute = IF w \in Delimiters THEN DelimiterCode(w)
                                                       ELSE UnknownCode
    BY <1>1, <1>3, <1>8, <2>2, Zenon DEF AttributesStay
  <2> QED
    BY <1>3, <1>9, <2>3, Zenon
<1>11. ASSUME over, ch # 0, NEW d \in Delimiters, IsPrefix(Append(read, ch), d)
       PROVE  FALSE
  <2>1. ch \in Nat
    BY <1>0, TextsAre DEF ScanTyped
  <2>2. PICK i \in 0 .. n : get_string(nb, i) = d
    BY <1>3 DEF WordsIn
  <2>3. PICK u : u = Append(read, ch) /\ u \in Seq(Nat)
    <3>1. read \in Seq(Nat)
      BY <1>9
    <3>2. Append(read, ch) \in Seq(Nat)
      BY <2>1, <3>1
    <3> QED
      BY <3>2
  <2>4. PICK j \in 0 .. n : get_string(nb, j) = u
    BY <1>3, <1>11, <2>2, <2>3, PrefixNode
  <2>5. j \in Kids(nb, x) /\ nb[j].c = ch
    BY <1>3, <1>8, <1>9, <2>1, <2>3, <2>4, NodeAfter
  <2> QED
    BY <1>3, <1>6, <1>11, <2>5 DEF ReadAt
<1>12. state # Initial
  BY <1>6 DEF Initial
<1>13. over => code = nb[x].attribute
  BY <1>3, <1>6 DEF ReadAt
<1> QED
  BY <1>10, <1>11, <1>12, <1>13, Zenon DEF ReadsDelimiters

(* Attributed_char_trie::jumps, current_lexem: if no node has children but *)
(* the last of its level, the scanner reads the longest beginning of a     *)
(* delimiter and gives its code: for all delimiters of which that is true, *)
(* wherever a subtrie is in the table, and whatever the text is.           *)
THEOREM StraightTablesAlwaysRead == Spec => []StraightTablesRead
<1>1. DelimIInv /\ ScanIInv => StraightTablesRead
  <2> SUFFICES ASSUME DelimIInv, ScanIInv, Straight PROVE ReadsDelimiters
    BY DEF StraightTablesRead
  <2>1. CASE read = <<>>
    BY <2>1, Zenon DEF ReadsDelimiters
  <2>2. CASE read # <<>>
    BY <2>2, ReadRight
  <2> QED
    BY <2>1, <2>2
<1> QED
  BY <1>1, DelimInvariant, ScanInvariant, PTL
=============================================================================
