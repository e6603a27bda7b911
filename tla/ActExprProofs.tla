---------------------------- MODULE ActExprProofs ----------------------------
(***************************************************************************)
(* Proofs about Act_expr_parser, for every set of actions, every length of *)
(* the text and every number of repairs.                                   *)
(***************************************************************************)
EXTENDS ActExprParser, FiniteSetTheorems, SequenceTheorems, TLAPS

-----------------------------------------------------------------------------
(* Trees of commands.  Only the operands of the commands lo .. hi matter.  *)

LEMMA TreeKept ==
  ASSUME NEW lo \in Nat, NEW hi \in Nat, Tree(lo, hi),
         \A n \in lo .. hi : buf'[n].args = buf[n].args
  PROVE  Tree(lo, hi)'
<1>1. \A n \in lo .. hi : Operands(n)' = Operands(n)
  BY DEF Operands
<1>2. lo <= hi /\ \A n \in lo .. hi : Operands(n)' \subseteq lo .. n - 1
  BY <1>1 DEF Tree
<1>3. ASSUME NEW m \in lo .. hi - 1
      PROVE  \E n \in m + 1 .. hi :
               \A p \in m + 1 .. hi : m \in Operands(p)' <=> p = n
  <2>1. PICK n \in m + 1 .. hi :
          \A p \in m + 1 .. hi : m \in Operands(p) <=> p = n
    BY DEF Tree
  <2>2. \A p \in m + 1 .. hi : m \in Operands(p)' <=> p = n
    BY <1>1, <2>1
  <2> QED
    BY <2>2
<1> QED
  BY <1>2, <1>3 DEF Tree

(* A command without operands, added to the buffer, is a tree, ...         *)
LEMMA LeafTree ==
  ASSUME NEW n \in Nat, buf'[n] = Command(<<>>)
  PROVE  Tree(n, n)'
<1>1. Operands(n)' = {}
  BY DEF Operands, Command
<1> QED
  BY <1>1 DEF Tree

(* ... so is one whose operand is the tree in front of it, ...             *)
LEMMA ClosureTree ==
  ASSUME NEW lo \in Nat, NEW hi \in Nat, Tree(lo, hi),
         \A n \in lo .. hi : buf'[n].args = buf[n].args,
         buf'[hi + 1] = Command(<<hi>>)
  PROVE  Tree(lo, hi + 1)'
<1>1. Operands(hi + 1)' = {hi}
  BY DEF Operands, Command
<1>2. \A n \in lo .. hi : Operands(n)' = Operands(n)
  BY DEF Operands
<1>3. lo <= hi /\ \A n \in lo .. hi : Operands(n)' \subseteq lo .. n - 1
  BY <1>2 DEF Tree
<1>4. ASSUME NEW m \in lo .. hi
      PROVE  \E n \in m + 1 .. hi + 1 :
               \A p \in m + 1 .. hi + 1 : m \in Operands(p)' <=> p = n
  <2>1. CASE m = hi
    BY <1>1, <2>1
  <2>2. CASE m < hi
    <3>0. m \in lo .. hi - 1
      BY <2>2
    <3>1. PICK n \in m + 1 .. hi :
            \A p \in m + 1 .. hi : m \in Operands(p) <=> p = n
      BY <3>0 DEF Tree
    <3>2. \A p \in m + 1 .. hi : m \in Operands(p)' <=> p = n
      BY <1>2, <3>1
    <3>3. m \notin Operands(hi + 1)'
      BY <1>1, <2>2
    <3>4. \A p \in m + 1 .. hi + 1 : p \in m + 1 .. hi \/ p = hi + 1
      OBVIOUS
    <3>5. n \in m + 1 .. hi + 1 /\ n # hi + 1
      OBVIOUS
    <3> QED
      BY <3>2, <3>3, <3>4, <3>5
  <2> QED
    BY <2>1, <2>2
<1> QED
  BY <1>1, <1>3, <1>4 DEF Tree

(* ... and so is one whose operands are the two trees in front of it.      *)
LEMMA JoinTree ==
  ASSUME NEW lo \in Nat, NEW mid \in Nat, NEW hi \in Nat,
         Tree(lo, mid), Tree(mid + 1, hi),
         \A n \in lo .. hi : buf'[n].args = buf[n].args,
         buf'[hi + 1] = Command(<<mid, hi>>)
  PROVE  Tree(lo, hi + 1)'
<1>0. lo <= mid /\ mid + 1 <= hi
  BY DEF Tree
<1>1. Operands(hi + 1)' = {mid, hi}
  <2>1. DOMAIN <<mid, hi>> = {1, 2}
    OBVIOUS
  <2> QED
    BY <2>1 DEF Operands, Command
<1>2. \A n \in lo .. hi : Operands(n)' = Operands(n)
  BY DEF Operands
<1>3. /\ \A n \in lo .. mid : Operands(n)' \subseteq lo .. n - 1
      /\ \A n \in mid + 1 .. hi : Operands(n)' \subseteq mid + 1 .. n - 1
  BY <1>0, <1>2 DEF Tree
<1>4. \A n \in lo .. hi + 1 : Operands(n)' \subseteq lo .. n - 1
  BY <1>0, <1>1, <1>3
<1>5. ASSUME NEW m \in lo .. hi
      PROVE  \E n \in m + 1 .. hi + 1 :
               \A p \in m + 1 .. hi + 1 : m \in Operands(p)' <=> p = n
  <2>1. CASE m = hi
    BY <1>1, <2>1
  <2>2. CASE m = mid
    <3>1. \A p \in mid + 1 .. hi : mid \notin Operands(p)'
      BY <1>3
    <3> QED
      BY <1>0, <1>1, <2>2, <3>1
  <2>3. CASE m < mid
    <3>0. m \in lo .. mid - 1
      BY <2>3
    <3>1. PICK n \in m + 1 .. mid :
            \A p \in m + 1 .. mid : m \in Operands(p) <=> p = n
      BY <3>0 DEF Tree
    <3>2. \A p \in m + 1 .. mid : m \in Operands(p)' <=> p = n
      BY <1>0, <1>2, <3>1
    <3>3. \A p \in mid + 1 .. hi : m \notin Operands(p)'
      BY <1>3, <2>3
    <3>4. m \notin Operands(hi + 1)'
      BY <1>0, <1>1, <2>3
    <3>5. \A p \in m + 1 .. hi + 1 :
            p \in m + 1 .. mid \/ p \in mid + 1 .. hi \/ p = hi + 1
      OBVIOUS
    <3>6. n \in m + 1 .. hi + 1 /\ n \notin mid + 1 .. hi /\ n # hi + 1
      BY <1>0
    <3> QED
      BY <3>2, <3>3, <3>4, <3>5, <3>6
  <2>4. CASE mid < m /\ m < hi
    <3>0. m \in mid + 1 .. hi - 1
      BY <2>4
    <3>1. PICK n \in m + 1 .. hi :
            \A p \in m + 1 .. hi : m \in Operands(p) <=> p = n
      BY <3>0 DEF Tree
    <3>2. \A p \in m + 1 .. hi : m \in Operands(p)' <=> p = n
      BY <1>2, <3>1
    <3>3. m \notin Operands(hi + 1)'
      BY <1>0, <1>1, <2>4
    <3>4. \A p \in m + 1 .. hi + 1 : p \in m + 1 .. hi \/ p = hi + 1
      OBVIOUS
    <3>5. n \in m + 1 .. hi + 1 /\ n # hi + 1
      OBVIOUS
    <3> QED
      BY <3>2, <3>3, <3>4, <3>5
  <2> QED
    BY <2>1, <2>2, <2>3, <2>4
<1> QED
  BY <1>0, <1>4, <1>5 DEF Tree

-----------------------------------------------------------------------------
(* The shape of the stack: which states may lie on which.  The states of   *)
(* nonterminals, and they alone, own commands; of the symbols S nothing is *)
(* said, for one may be left over from an earlier section.                 *)
Expecting    == {2, 4, 9, 10, 16}
Nonterminals == {3, 4, 5, 6, 7, 12, 15, 16}

Under(s) ==
  CASE s = 0            -> {1}
    [] s \in {1, 2}      -> {0}
    [] s \in {3}         -> {2}
    [] s = 4            -> {2, 9}
    [] s = 5            -> {2, 9, 10}
    [] s \in {6, 7, 8, 9} -> Expecting
    [] s = 10           -> {3, 15}
    [] s = 11           -> {3}
    [] s = 12           -> {4, 16}
    [] s = 13           -> {6}
    [] s = 14           -> {7}
    [] s = 15           -> {9}
    [] s = 16           -> {10}
    [] s = 17           -> {15}

Sound(e) ==
  /\ e.st \in Nonterminals => e.lo > 0
  /\ e.st \notin Nonterminals \cup {1} => e.lo = 0
  /\ e.st = 14 => e.val \in Acts \cup {0}

Shape ==
  /\ stack \in Seq(Elems) /\ Len(stack) > 0
  /\ stack[1].st = 0
  /\ \A k \in 2 .. Len(stack) : stack[k - 1].st \in Under(stack[k].st)
  /\ \A k \in 1 .. Len(stack) : stack[k].st = 0 => k \in {1, 3}
  /\ \A k \in 1 .. Len(stack) : Sound(stack[k])

(* A stack whose lower part is kept and that has one element on top.       *)
LEMMA NewTop ==
  ASSUME Shape, NEW kept \in 1 .. Len(stack), NEW e \in Elems,
         stack' = Append(SubSeq(stack, 1, kept), e),
         e.st # 0, stack[kept].st \in Under(e.st), Sound(e)
  PROVE  /\ Shape'
         /\ Len(stack') = kept + 1
         /\ stack'[kept + 1] = e
         /\ \A k \in 1 .. kept : stack'[k] = stack[k]
<1>1. /\ stack' \in Seq(Elems)
      /\ Len(stack') = kept + 1
      /\ stack'[kept + 1] = e
      /\ \A k \in 1 .. kept : stack'[k] = stack[k]
  BY DEF Shape
<1>2. stack'[1].st = 0
  BY <1>1 DEF Shape
<1>3. ASSUME NEW k \in 2 .. kept + 1
      PROVE  stack'[k - 1].st \in Under(stack'[k].st)
  <2>1. CASE k = kept + 1
    BY <1>1, <2>1
  <2>2. CASE k # kept + 1
    <3>1. k \in 2 .. Len(stack) /\ stack'[k] = stack[k]
          /\ stack'[k - 1] = stack[k - 1]
      BY <1>1, <2>2 DEF Shape
    <3> QED
      BY <3>1 DEF Shape
  <2> QED
    BY <2>1, <2>2
<1>4. ASSUME NEW k \in 1 .. kept + 1
      PROVE  /\ stack'[k].st = 0 => k \in {1, 3}
             /\ Sound(stack'[k])
  <2>1. CASE k = kept + 1
    BY <1>1, <2>1
  <2>2. CASE k # kept + 1
    <3>1. k \in 1 .. Len(stack) /\ stack'[k] = stack[k]
      BY <1>1, <2>2 DEF Shape
    <3> QED
      BY <3>1 DEF Shape
  <2> QED
    BY <2>1, <2>2
<1>5. \A k \in 1 .. Len(stack') : Sound(stack'[k])
  BY <1>1, <1>4
<1> QED
  BY <1>1, <1>2, <1>3, <1>4, <1>5 DEF Shape, Sound

(* Pushing a terminal.                                                     *)
Terminals == {2, 8, 9, 10, 11, 13, 14, 17}

LEMMA PushShape ==
  ASSUME Shape, NEW s \in Terminals, NEW v \in Acts \cup {0, 1},
         Top.st \in Under(s), s = 14 => v \in Acts \cup {0}, Push(s, v)
  PROVE  /\ Shape'
         /\ Len(stack') = Len(stack) + 1
         /\ stack'[Len(stack) + 1] = [st |-> s, lo |-> 0, hi |-> 0, val |-> v]
         /\ \A k \in 1 .. Len(stack) : stack'[k] = stack[k]
<1> DEFINE e == [st |-> s, lo |-> 0, hi |-> 0, val |-> v]
<1>1. e \in Elems /\ e.st # 0 /\ Sound(e)
  BY DEF Elems, Terminals, Nonterminals, Sound
<1>2. stack' = Append(SubSeq(stack, 1, Len(stack)), e)
  BY DEF Push, Shape
<1>3. Len(stack) \in 1 .. Len(stack)
  BY DEF Shape
<1> QED
  BY <1>1, <1>2, <1>3, NewTop DEF Top

(* It owns nothing.                                                        *)
LEMMA PushTrees ==
  ASSUME Shape, Trees, buf \in Seq(Commands),
         NEW s \in Terminals, NEW v \in Acts \cup {0, 1},
         Top.st \in Under(s), s = 14 => v \in Acts \cup {0}, Push(s, v)
  PROVE  Trees'
<1>0. /\ Len(stack') = Len(stack) + 1
      /\ stack'[Len(stack) + 1] = [st |-> s, lo |-> 0, hi |-> 0, val |-> v]
      /\ \A k \in 1 .. Len(stack) : stack'[k] = stack[k]
  BY PushShape
<1>1. /\ Len(stack') = Len(stack) + 1
      /\ stack'[Len(stack) + 1].lo = 0
      /\ \A k \in 1 .. Len(stack) : stack'[k] = stack[k]
  BY <1>0
<1>2. Len(stack) \in Nat
  BY DEF Shape
<1>3. Owners \subseteq 1 .. Len(stack)
  BY DEF Owners
<1>4. \A k \in Owners : stack'[k] = stack[k]
  BY <1>1, <1>3
<1>5. \A k \in 1 .. Len(stack') :
        k \in 1 .. Len(stack) \/ k = Len(stack) + 1
  BY <1>1, <1>2
<1>6. Owners' = Owners
  BY <1>1, <1>2, <1>5 DEF Owners
<1>7. buf' = buf
  BY DEF Push
<1>8. \A k \in Owners : Tree(stack[k].lo, stack[k].hi)
  BY DEF Trees
<1>9. ASSUME NEW lo, NEW hi, Tree(lo, hi) PROVE Tree(lo, hi)'
  BY <1>7, <1>9 DEF Tree, Operands
<1>10. \A k \in Owners' :
         stack'[k].hi <= Len(buf') /\ Tree(stack[k].lo, stack[k].hi)'
  BY <1>4, <1>6, <1>7, <1>8, <1>9 DEF Trees
<1>11. \A j, k \in Owners' : j < k => stack'[j].hi < stack'[k].lo
  BY <1>4, <1>6 DEF Trees
<1>12. \A n \in 1 .. Len(buf') :
         \E k \in Owners' : n \in stack'[k].lo .. stack'[k].hi
  BY <1>4, <1>6, <1>7 DEF Trees
<1> QED
  BY <1>10, <1>11, <1>12 DEF Trees

-----------------------------------------------------------------------------
(* What there is to count.                                                 *)
LEMMA Sizes ==
  ASSUME Shape, buf \in Seq(Commands)
  PROVE  /\ Owners \subseteq 1 .. Len(stack)
         /\ \A i \in 1 .. Len(stack) :
              /\ stack[i] \in Elems
              /\ stack[i].st \in 0 .. 17
              /\ stack[i].lo \in Nat /\ stack[i].hi \in Nat
         /\ Len(stack) \in Nat \ {0} /\ Len(buf) \in Nat
<1>1. stack \in Seq(Elems) /\ Len(stack) > 0
  BY DEF Shape
<1>2. Len(stack) \in Nat \ {0} /\ Len(buf) \in Nat
  BY <1>1
<1>3. \A i \in 1 .. Len(stack) : stack[i] \in Elems
  BY <1>1
<1>4. \A e \in Elems : e.st \in 0 .. 17 /\ e.lo \in Nat /\ e.hi \in Nat
  BY DEF Elems
<1>5. Owners \subseteq 1 .. Len(stack)
  BY DEF Owners
<1> QED
  BY <1>2, <1>3, <1>4, <1>5

(* What an owner is.                                                       *)
LEMMA OwnerFacts ==
  ASSUME Shape, Trees, NEW k \in Owners
  PROVE  /\ k \in 1 .. Len(stack)
         /\ stack[k].lo \in Nat /\ stack[k].hi \in Nat
         /\ 0 < stack[k].lo /\ stack[k].lo <= stack[k].hi
         /\ stack[k].hi <= Len(buf)
         /\ Tree(stack[k].lo, stack[k].hi)
<1>1. k \in 1 .. Len(stack) /\ stack[k].lo > 0
  BY DEF Owners
<1>2. stack[k] \in Elems
  BY <1>1 DEF Shape
<1>3. stack[k].lo \in Nat /\ stack[k].hi \in Nat
  BY <1>2 DEF Elems
<1>4. stack[k].hi <= Len(buf) /\ Tree(stack[k].lo, stack[k].hi)
  BY DEF Trees
<1>5. stack[k].lo <= stack[k].hi
  BY <1>4 DEF Tree
<1> QED
  BY <1>1, <1>3, <1>4, <1>5

(* Who owns what.  The commands between two neighbours are nobody's, so    *)
(* there are none, ...                                                     *)
LEMMA Adjacent ==
  ASSUME Shape, Trees, buf \in Seq(Commands), NEW j \in Owners, NEW k \in Owners,
         j < k, \A i \in Owners : i <= j \/ i >= k
  PROVE  stack[k].lo = stack[j].hi + 1
<1>1. /\ Owners \subseteq 1 .. Len(stack)
      /\ \A i \in 1 .. Len(stack) : stack[i].lo \in Nat /\ stack[i].hi \in Nat
      /\ Len(stack) \in Nat /\ Len(buf) \in Nat
  BY Sizes
<1>2. /\ stack[k].hi <= Len(buf) /\ stack[k].lo <= stack[k].hi
      /\ stack[j].lo <= stack[j].hi /\ 0 < stack[j].lo
  BY OwnerFacts
<1>4. stack[j].hi < stack[k].lo
  BY DEF Trees
<1>3. ASSUME stack[j].hi + 1 < stack[k].lo PROVE FALSE
  <2>1. stack[j].hi + 1 \in 1 .. Len(buf)
    BY <1>1, <1>2, <1>3, <1>4
  <2>2. PICK i \in Owners : stack[j].hi + 1 \in stack[i].lo .. stack[i].hi
    BY <2>1 DEF Trees
  <2>3. /\ i < j => stack[i].hi < stack[j].lo
        /\ k < i => stack[k].hi < stack[i].lo
    BY DEF Trees
  <2>4. CASE i < j
    BY <1>1, <1>2, <2>2, <2>3, <2>4
  <2>5. CASE i = j
    BY <1>1, <2>2, <2>5
  <2>6. CASE i = k
    BY <1>1, <1>3, <2>2, <2>6
  <2>7. CASE k < i
    BY <1>1, <1>2, <1>3, <2>2, <2>3, <2>7
  <2> QED
    BY <1>1, <2>4, <2>5, <2>6, <2>7
<1> QED
  BY <1>1, <1>3, <1>4

(* ... and the topmost owner has the last command.                         *)
LEMMA Topmost ==
  ASSUME Shape, Trees, buf \in Seq(Commands), NEW k \in Owners,
         \A i \in Owners : i <= k
  PROVE  stack[k].hi = Len(buf)
<1>1. /\ Owners \subseteq 1 .. Len(stack)
      /\ \A i \in 1 .. Len(stack) : stack[i].lo \in Nat /\ stack[i].hi \in Nat
      /\ Len(stack) \in Nat /\ Len(buf) \in Nat
  BY Sizes
<1>2. /\ stack[k].hi <= Len(buf)
      /\ stack[k].lo <= stack[k].hi
      /\ 0 < stack[k].lo
  BY OwnerFacts
<1>3. ASSUME stack[k].hi < Len(buf) PROVE FALSE
  <2>1. Len(buf) \in 1 .. Len(buf)
    BY <1>1, <1>3
  <2>2. PICK i \in Owners : Len(buf) \in stack[i].lo .. stack[i].hi
    BY <2>1 DEF Trees
  <2>3. i < k => stack[i].hi < stack[k].lo
    BY DEF Trees
  <2> QED
    BY <1>1, <1>2, <1>3, <2>2, <2>3
<1> QED
  BY <1>1, <1>2, <1>3

(* The upper part of the stack gives way to one symbol, which takes its    *)
(* commands over: a tree that begins behind those of the lower part.       *)
LEMMA Reowned ==
  ASSUME Shape, Trees, buf \in Seq(Commands), buf' \in Seq(Commands),
         NEW kept \in 1 .. Len(stack) - 1,
         NEW lo \in Nat \ {0}, NEW hi \in Nat,
         Len(stack') = kept + 1,
         \A k \in 1 .. kept : stack'[k] = stack[k],
         stack'[kept + 1].lo = lo, stack'[kept + 1].hi = hi,
         Len(buf) <= Len(buf'), hi = Len(buf'),
         \A n \in 1 .. Len(buf) : buf'[n].args = buf[n].args,
         Tree(lo, hi)',
         \A k \in Owners : k <= kept => stack[k].hi < lo,
         \A k \in Owners : k > kept => lo <= stack[k].lo,
         lo <= Len(buf) + 1
  PROVE  Trees'
<1>1. /\ Owners \subseteq 1 .. Len(stack)
      /\ \A i \in 1 .. Len(stack) : stack[i].lo \in Nat /\ stack[i].hi \in Nat
      /\ Len(stack) \in Nat /\ Len(buf) \in Nat /\ Len(buf') \in Nat
      /\ kept \in Nat
  BY Sizes
<1>0. /\ \A k \in 1 .. Len(stack') : k \in 1 .. kept \/ k = kept + 1
      /\ 1 .. kept \subseteq 1 .. Len(stack)
      /\ 1 .. kept \subseteq 1 .. Len(stack')
      /\ kept + 1 \in 1 .. Len(stack')
  BY <1>1
<1>2. \A k \in Owners' :
        \/ k = kept + 1
        \/ k \in 1 .. kept /\ k \in Owners /\ stack'[k] = stack[k]
  BY <1>0 DEF Owners
<1>3. /\ kept + 1 \in Owners'
      /\ \A k \in Owners : k \in 1 .. kept => k \in Owners'
  BY <1>0 DEF Owners
<1>4. ASSUME NEW k \in Owners'
      PROVE  stack'[k].hi <= Len(buf') /\ Tree(stack[k].lo, stack[k].hi)'
  <2>1. CASE k = kept + 1
    BY <1>1, <2>1
  <2>2. CASE k \in Owners /\ stack'[k] = stack[k]
    <3>1. /\ stack[k].lo \in Nat /\ stack[k].hi \in Nat
          /\ stack[k].hi <= Len(buf) /\ Tree(stack[k].lo, stack[k].hi)
          /\ stack[k].lo > 0
      BY <2>2, OwnerFacts
    <3>2. Tree(stack[k].lo, stack[k].hi) /\ stack'[k] = stack[k]
          /\ \A n \in stack[k].lo .. stack[k].hi : buf'[n].args = buf[n].args
      BY <1>1, <2>2, <3>1
    <3> DEFINE l == stack[k].lo
               h == stack[k].hi
    <3>3. ASSUME NEW a \in Nat, NEW b \in Nat, a = l, b = h PROVE Tree(a, b)'
      BY <3>2, <3>3, TreeKept
    <3>4. \E a, b \in Nat : a = l /\ b = h /\ Tree(a, b)'
      BY <3>1, <3>3
    <3> QED
      BY <1>1, <3>1, <3>2, <3>4
  <2> QED
    BY <1>2, <2>1, <2>2
<1>5. ASSUME NEW j \in Owners', NEW k \in Owners', j < k
      PROVE  stack'[j].hi < stack'[k].lo
  <2>1. j \in 1 .. kept /\ j \in Owners /\ stack'[j] = stack[j]
    BY <1>1, <1>2, <1>5
  <2>2. CASE k = kept + 1
    BY <2>1, <2>2
  <2>3. CASE k \in Owners /\ stack'[k] = stack[k]
    BY <1>5, <2>1, <2>3 DEF Trees
  <2> QED
    BY <1>2, <2>2, <2>3
<1>6. ASSUME NEW n \in 1 .. Len(buf')
      PROVE  \E k \in Owners' : n \in stack'[k].lo .. stack'[k].hi
  <2>1. CASE n >= lo
    <3>1. n \in stack'[kept + 1].lo .. stack'[kept + 1].hi
      BY <1>1, <2>1
    <3> QED
      BY <1>3, <3>1
  <2>2. CASE n < lo
    <3>1. n \in 1 .. Len(buf)
      BY <1>1, <2>2
    <3>2. PICK k \in Owners : n \in stack[k].lo .. stack[k].hi
      BY <3>1 DEF Trees
    <3>3. k \in 1 .. kept
      BY <1>1, <2>2, <3>2
    <3>4. k \in Owners' /\ stack'[k] = stack[k]
      BY <1>3, <3>3
    <3> QED
      BY <3>2, <3>4
  <2> QED
    BY <1>1, <2>1, <2>2
<1> QED
  BY <1>4, <1>5, <1>6 DEF Trees
-----------------------------------------------------------------------------
(* What each kind of rule does to the trees.  One symbol takes the place   *)
(* of those above kept:                                                    *)
Replaced(kept, lo, hi) ==
  /\ Len(stack') = kept + 1
  /\ \A k \in 1 .. kept : stack'[k] = stack[k]
  /\ stack'[kept + 1].lo = lo /\ stack'[kept + 1].hi = hi

ArgsKept ==
  /\ buf' \in Seq(Commands) /\ Len(buf) <= Len(buf')
  /\ \A n \in 1 .. Len(buf) : buf'[n].args = buf[n].args

(* it keeps the commands of the only operand, ...                          *)
LEMMA SameTrees ==
  ASSUME Shape, Trees, buf \in Seq(Commands),
         NEW kept \in 1 .. Len(stack) - 1, NEW j \in Owners, j > kept,
         \A i \in Owners : i <= kept \/ i = j,
         Replaced(kept, stack[j].lo, stack[j].hi),
         ArgsKept, Len(buf') = Len(buf)
  PROVE  Trees'
<1>0. PICK lo \in Nat, hi \in Nat : lo = stack[j].lo /\ hi = stack[j].hi
  BY OwnerFacts
<1>1. /\ lo # 0 /\ lo <= hi /\ hi <= Len(buf)
      /\ Tree(lo, hi)
  BY <1>0, OwnerFacts
<1>2. \A i \in Owners : i <= j
  <2>1. Owners \subseteq Nat /\ kept \in Nat
    BY Sizes
  <2> QED
    BY <2>1
<1>3. hi = Len(buf)
  BY <1>0, <1>2, Topmost
<1>4. /\ \A k \in Owners : k <= kept => stack[k].hi < lo
      /\ \A k \in Owners : k > kept => lo <= stack[k].lo
  <2>1. Owners \subseteq Nat /\ kept \in Nat
    BY Sizes
  <2>2. \A k \in Owners : k <= kept => stack[k].hi < lo
    BY <1>0, <2>1 DEF Trees
  <2>3. \A k \in Owners : k > kept => k = j
    BY <2>1
  <2> QED
    BY <1>0, <1>1, <2>2, <2>3
<1>5. Tree(lo, hi)'
  <2>1. \A n \in lo .. hi : buf'[n].args = buf[n].args
    BY <1>1 DEF ArgsKept
  <2> QED
    BY <1>1, <2>1, TreeKept
<1>6. /\ lo \in Nat \ {0} /\ lo <= Len(buf) + 1
      /\ hi = Len(buf')
  BY <1>1, <1>3, Sizes
<1>7. /\ Len(stack') = kept + 1
      /\ \A k \in 1 .. kept : stack'[k] = stack[k]
      /\ stack'[kept + 1].lo = lo /\ stack'[kept + 1].hi = hi
  BY <1>0 DEF Replaced
<1>8. /\ buf' \in Seq(Commands) /\ Len(buf) <= Len(buf')
      /\ \A n \in 1 .. Len(buf) : buf'[n].args = buf[n].args
  BY DEF ArgsKept
<1> QED
  BY <1>4, <1>5, <1>6, <1>7, <1>8, Reowned
(* it brings a command of its own, ...                                     *)
LEMMA LeafTrees ==
  ASSUME Shape, Trees, buf \in Seq(Commands),
         NEW kept \in 1 .. Len(stack) - 1,
         \A i \in Owners : i <= kept,
         Replaced(kept, Len(buf) + 1, Len(buf) + 1),
         ArgsKept, Len(buf') = Len(buf) + 1,
         buf'[Len(buf) + 1] = Command(<<>>)
  PROVE  Trees'
<1>0. PICK n \in Nat \ {0} : n = Len(buf) + 1
  BY Sizes
<1>1. Tree(n, n)'
  BY <1>0, LeafTree
<1>2. /\ \A k \in Owners : k <= kept => stack[k].hi < n
      /\ \A k \in Owners : k > kept => n <= stack[k].lo
  <2>1. Owners \subseteq Nat /\ kept \in Nat /\ Len(buf) \in Nat
    BY Sizes
  <2>2. \A k \in Owners : stack[k].hi \in Nat /\ stack[k].hi <= Len(buf)
    BY OwnerFacts
  <2> QED
    BY <1>0, <2>1, <2>2
<1>3. n <= Len(buf) + 1 /\ n = Len(buf')
  BY <1>0
<1>4. /\ Len(stack') = kept + 1
      /\ \A k \in 1 .. kept : stack'[k] = stack[k]
      /\ stack'[kept + 1].lo = n /\ stack'[kept + 1].hi = n
  BY <1>0 DEF Replaced
<1>5. /\ buf' \in Seq(Commands) /\ Len(buf) <= Len(buf')
      /\ \A k \in 1 .. Len(buf) : buf'[k].args = buf[k].args
  BY DEF ArgsKept
<1> QED
  BY <1>1, <1>2, <1>3, <1>4, <1>5, Reowned

(* it adds one to those of the only operand, ...                           *)
LEMMA ClosureTrees ==
  ASSUME Shape, Trees, buf \in Seq(Commands),
         NEW kept \in 1 .. Len(stack) - 1, NEW j \in Owners, j > kept,
         \A i \in Owners : i <= kept \/ i = j,
         Replaced(kept, stack[j].lo, Len(buf) + 1),
         ArgsKept, Len(buf') = Len(buf) + 1,
         buf'[Len(buf) + 1] = Command(<<stack[j].hi>>)
  PROVE  Trees'
<1>0. PICK lo \in Nat, hi \in Nat, new \in Nat :
        lo = stack[j].lo /\ hi = stack[j].hi /\ new = hi + 1
  BY OwnerFacts
<1>1. /\ lo # 0 /\ lo <= hi /\ hi <= Len(buf)
      /\ Tree(lo, hi)
  BY <1>0, OwnerFacts
<1>2. /\ Owners \subseteq Nat /\ kept \in Nat /\ Len(buf) \in Nat
      /\ \A i \in Owners : i <= j
  <2>1. Owners \subseteq Nat /\ kept \in Nat /\ Len(buf) \in Nat
    BY Sizes
  <2> QED
    BY <2>1
<1>3. hi = Len(buf)
  BY <1>0, <1>2, Topmost
<1>4. Tree(lo, new)'
  <2>1. \A n \in lo .. hi : buf'[n].args = buf[n].args
    BY <1>1 DEF ArgsKept
  <2>2. buf'[hi + 1] = Command(<<hi>>)
    BY <1>0, <1>3
  <2> QED
    BY <1>0, <1>1, <2>1, <2>2, ClosureTree
<1>5. /\ \A k \in Owners : k <= kept => stack[k].hi < lo
      /\ \A k \in Owners : k > kept => lo <= stack[k].lo
  <2>1. \A k \in Owners : k <= kept => stack[k].hi < lo
    BY <1>0, <1>2 DEF Trees
  <2>2. \A k \in Owners : k > kept => k = j
    BY <1>2
  <2> QED
    BY <1>0, <2>1, <2>2
<1>6. /\ lo \in Nat \ {0} /\ lo <= Len(buf) + 1
      /\ new = Len(buf')
  BY <1>0, <1>1, <1>2, <1>3
<1>7. /\ Len(stack') = kept + 1
      /\ \A k \in 1 .. kept : stack'[k] = stack[k]
      /\ stack'[kept + 1].lo = lo /\ stack'[kept + 1].hi = new
  BY <1>0, <1>3 DEF Replaced
<1>8. /\ buf' \in Seq(Commands) /\ Len(buf) <= Len(buf')
      /\ \A n \in 1 .. Len(buf) : buf'[n].args = buf[n].args
  BY DEF ArgsKept
<1> QED
  BY <1>4, <1>5, <1>6, <1>7, <1>8, Reowned

(* or it joins those of its two operands by one more.                      *)
LEMMA JoinTrees ==
  ASSUME Shape, Trees, buf \in Seq(Commands),
         NEW kept \in 1 .. Len(stack) - 1,
         NEW i \in Owners, NEW j \in Owners, kept < i, i < j,
         \A k \in Owners : k <= kept \/ k \in {i, j},
         Replaced(kept, stack[i].lo, Len(buf) + 1),
         ArgsKept, Len(buf') = Len(buf) + 1,
         buf'[Len(buf) + 1] = Command(<<stack[i].hi, stack[j].hi>>)
  PROVE  Trees'
<1>0. PICK lo \in Nat, mid \in Nat, hi \in Nat, new \in Nat :
        /\ lo = stack[i].lo /\ mid = stack[i].hi
        /\ hi = stack[j].hi /\ new = hi + 1
  BY OwnerFacts
<1>1. /\ lo # 0 /\ lo <= mid /\ mid <= Len(buf)
      /\ Tree(lo, mid) /\ Tree(stack[j].lo, hi)
  BY <1>0, OwnerFacts
<1>2. /\ Owners \subseteq Nat /\ kept \in Nat /\ Len(buf) \in Nat
      /\ \A k \in Owners : k <= j /\ (k <= i \/ k >= j)
  <2>1. Owners \subseteq Nat /\ kept \in Nat /\ Len(buf) \in Nat
    BY Sizes
  <2> QED
    BY <2>1
<1>3. hi = Len(buf) /\ stack[j].lo = mid + 1
  BY <1>0, <1>2, Topmost, Adjacent
<1>4. Tree(lo, new)'
  <2>1. \A n \in lo .. hi : buf'[n].args = buf[n].args
    BY <1>1, <1>2, <1>3 DEF ArgsKept
  <2>2. buf'[hi + 1] = Command(<<mid, hi>>)
    BY <1>0, <1>3
  <2>3. Tree(mid + 1, hi)
    BY <1>1, <1>3
  <2> QED
    BY <1>0, <1>1, <2>1, <2>2, <2>3, JoinTree
<1>5. /\ \A k \in Owners : k <= kept => stack[k].hi < lo
      /\ \A k \in Owners : k > kept => lo <= stack[k].lo
  <2>1. \A k \in Owners : k <= kept => stack[k].hi < lo
    BY <1>0, <1>2 DEF Trees
  <2>2. \A k \in Owners : k > kept => k \in {i, j}
    BY <1>2
  <2>3. lo <= stack[j].lo
    BY <1>0, <1>1, <1>3
  <2> QED
    BY <1>0, <2>1, <2>2, <2>3
<1>6. /\ lo \in Nat \ {0} /\ lo <= Len(buf) + 1
      /\ new = Len(buf')
  BY <1>0, <1>1, <1>2, <1>3
<1>7. /\ Len(stack') = kept + 1
      /\ \A k \in 1 .. kept : stack'[k] = stack[k]
      /\ stack'[kept + 1].lo = lo /\ stack'[kept + 1].hi = new
  BY <1>0, <1>3 DEF Replaced
<1>8. /\ buf' \in Seq(Commands) /\ Len(buf) <= Len(buf')
      /\ \A n \in 1 .. Len(buf) : buf'[n].args = buf[n].args
  BY DEF ArgsKept
<1> QED
  BY <1>4, <1>5, <1>6, <1>7, <1>8, Reowned
-----------------------------------------------------------------------------
(* Actions.  An operand comes before its operator, in the same tree.       *)
LEMMA OperandsBefore ==
  ASSUME Shape, Trees, buf \in Seq(Commands), NEW n \in 1 .. Len(buf)
  PROVE  /\ Operands(n) \subseteq 1 .. n - 1
         /\ \A k \in Owners :
              n \in stack[k].lo .. stack[k].hi =>
                Operands(n) \subseteq stack[k].lo .. n - 1
<1>1. ASSUME NEW k \in Owners, n \in stack[k].lo .. stack[k].hi
      PROVE  Operands(n) \subseteq stack[k].lo .. n - 1
  BY <1>1 DEF Trees, Tree
<1>2. PICK k \in Owners : n \in stack[k].lo .. stack[k].hi
  BY DEF Trees
<1>3. stack[k].lo \in Nat /\ 0 < stack[k].lo
  BY OwnerFacts
<1>4. Operands(n) \subseteq stack[k].lo .. n - 1
  BY <1>1, <1>2
<1> QED
  BY <1>1, <1>3, <1>4

(* A new command has no action, ...                                        *)
LEMMA GrownActions ==
  ASSUME Shape, Trees, buf \in Seq(Commands), ActionsCoverOperands,
         NEW args \in Seq(Nat), buf' = Append(buf, Command(args))
  PROVE  ActionsCoverOperands'
<1>1. /\ Len(buf) \in Nat /\ Len(buf') = Len(buf) + 1
      /\ buf'[Len(buf) + 1].act = 0
      /\ \A n \in 1 .. Len(buf) : buf'[n] = buf[n]
  BY Sizes DEF Command
<1>2. ASSUME NEW n \in 1 .. Len(buf'), buf'[n].act # 0
      PROVE  \A m \in Operands(n)' : buf'[m].act = buf'[n].act
  <2>1. n \in 1 .. Len(buf)
    BY <1>1, <1>2
  <2>2. Operands(n)' = Operands(n) /\ buf'[n] = buf[n]
    BY <1>1, <2>1 DEF Operands
  <2>3. \A m \in Operands(n) : m \in 1 .. Len(buf)
    BY <1>1, <2>1, OperandsBefore
  <2> QED
    BY <1>1, <1>2, <2>1, <2>2, <2>3 DEF ActionsCoverOperands
<1> QED
  BY <1>2 DEF ActionsCoverOperands

(* ... and an action is set on all of the topmost tree.                    *)
Marked(e, v) ==
  [n \in DOMAIN buf |->
     IF n \in e.lo .. e.hi THEN [buf[n] EXCEPT !.act = v] ELSE buf[n]]

LEMMA MarkedActions ==
  ASSUME Shape, Trees, buf \in Seq(Commands), ActionsCoverOperands,
         NEW j \in Owners, \A i \in Owners : i <= j,
         NEW v \in Acts,
         buf' = Marked(stack[j], v)
  PROVE  /\ ActionsCoverOperands'
         /\ ArgsKept /\ Len(buf') = Len(buf)
<1>0. PICK lo \in Nat, hi \in Nat : lo = stack[j].lo /\ hi = stack[j].hi
  BY OwnerFacts
<1>1. /\ lo # 0 /\ lo <= hi /\ hi = Len(buf) /\ Len(buf) \in Nat
      /\ DOMAIN buf = 1 .. Len(buf)
  BY <1>0, OwnerFacts, Topmost, Sizes
<1>2. \A n \in 1 .. Len(buf) :
        /\ n \in lo .. hi => buf'[n] = [buf[n] EXCEPT !.act = v]
        /\ n \notin lo .. hi => buf'[n] = buf[n]
  BY <1>0, <1>1 DEF Marked
<1>7. \A n \in 1 .. Len(buf) : buf[n] \in Commands
  OBVIOUS
<1>3. \A c \in Commands :
        /\ [c EXCEPT !.act = v] \in Commands
        /\ [c EXCEPT !.act = v].args = c.args
        /\ [c EXCEPT !.act = v].act = v
  BY DEF Commands
<1>4. ASSUME NEW n \in 1 .. Len(buf)
      PROVE  /\ buf'[n] \in Commands
             /\ buf'[n].args = buf[n].args
             /\ n \in lo .. hi => buf'[n].act = v
             /\ n \notin lo .. hi => buf'[n].act = buf[n].act
  <2>1. CASE n \in lo .. hi
    <3>1. buf'[n] = [buf[n] EXCEPT !.act = v] /\ buf[n] \in Commands
      BY <1>2, <1>7, <2>1
    <3> QED
      BY <1>3, <2>1, <3>1
  <2>2. CASE n \notin lo .. hi
    BY <1>2, <1>7, <2>2
  <2> QED
    BY <2>1, <2>2
<1>5. buf' \in Seq(Commands) /\ Len(buf') = Len(buf)
  <2>1. buf' \in [1 .. Len(buf) -> Commands]
    BY <1>1, <1>4 DEF Marked
  <2> QED
    BY <1>1, <2>1
<1>6. ASSUME NEW n \in 1 .. Len(buf'), buf'[n].act # 0
      PROVE  \A m \in Operands(n)' : buf'[m].act = buf'[n].act
  <2>1. n \in 1 .. Len(buf) /\ Operands(n)' = Operands(n)
    BY <1>4, <1>5 DEF Operands
  <2>2. Operands(n) \subseteq 1 .. n - 1
    BY <2>1, OperandsBefore
  <2>3. CASE n \in lo .. hi
    <3>1. Operands(n) \subseteq lo .. n - 1
      BY <1>0, <2>1, <2>3, OperandsBefore
    <3>2. \A m \in Operands(n) : m \in lo .. hi /\ m \in 1 .. Len(buf)
      BY <1>1, <2>1, <2>3, <3>1
    <3> QED
      BY <1>4, <2>1, <2>3, <3>2
  <2>4. CASE n \notin lo .. hi
    <3>1. \A m \in Operands(n) : m \notin lo .. hi /\ m \in 1 .. Len(buf)
      BY <1>1, <2>1, <2>2, <2>4
    <3>2. buf[n].act # 0
      BY <1>4, <1>6, <2>1, <2>4
    <3> QED
      BY <1>4, <2>1, <2>4, <3>1, <3>2 DEF ActionsCoverOperands
  <2> QED
    BY <2>3, <2>4
<1> QED
  BY <1>4, <1>5, <1>6 DEF ActionsCoverOperands, ArgsKept
-----------------------------------------------------------------------------
(* The body of the rule a state is reduced by.                             *)
Reduced == {4, 5, 6, 7, 8, 11, 12, 13, 14, 16, 17}

Nonterminal(s) ==
  CASE s \in {4, 16} -> "T" [] s \in {5, 12} -> "E" [] s \in {6, 13} -> "F"
    [] s \in {7, 14} -> "G" [] s \in {8, 17} -> "H" [] s = 11       -> "S"

Length(s) ==
  CASE s \in {4, 5, 6, 7, 8} -> 1 [] s \in {12, 13, 14} -> 2
    [] s \in {11, 16, 17}    -> 3

LEMMA RuleOf ==
  ASSUME NEW s \in Reduced
  PROVE  /\ rules[reduce_rules[s]].nt = Nonterminal(s)
         /\ rules[reduce_rules[s]].len = Length(s)
<1>1. CASE s = 4
  BY <1>1 DEF reduce_rules, rules, Nonterminal, Length
<1>2. CASE s = 5
  BY <1>2 DEF reduce_rules, rules, Nonterminal, Length
<1>3. CASE s = 6
  BY <1>3 DEF reduce_rules, rules, Nonterminal, Length
<1>4. CASE s = 7
  BY <1>4 DEF reduce_rules, rules, Nonterminal, Length
<1>5. CASE s = 8
  BY <1>5 DEF reduce_rules, rules, Nonterminal, Length
<1>6. CASE s = 11
  BY <1>6 DEF reduce_rules, rules, Nonterminal, Length
<1>7. CASE s = 12
  BY <1>7 DEF reduce_rules, rules, Nonterminal, Length
<1>8. CASE s = 13
  BY <1>8 DEF reduce_rules, rules, Nonterminal, Length
<1>9. CASE s = 14
  BY <1>9 DEF reduce_rules, rules, Nonterminal, Length
<1>10. CASE s = 16
  BY <1>10 DEF reduce_rules, rules, Nonterminal, Length
<1>11. CASE s = 17
  BY <1>11 DEF reduce_rules, rules, Nonterminal, Length
<1> QED
  BY <1>1, <1>2, <1>3, <1>4, <1>5, <1>6, <1>7, <1>8, <1>9, <1>10, <1>11
     DEF Reduced

LEMMA Beneath ==
  ASSUME Shape, NEW k \in 1 .. Len(stack), stack[k].st # 0
  PROVE  k - 1 \in 1 .. Len(stack) /\ stack[k - 1].st \in Under(stack[k].st)
<1>1. k # 1 /\ Len(stack) \in Nat
  BY DEF Shape
<1>2. k \in 2 .. Len(stack) /\ k - 1 \in 1 .. Len(stack)
  BY <1>1
<1> QED
  BY <1>2 DEF Shape

LEMMA UnderOf ==
  /\ Under(0) = {1} /\ Under(1) = {0} /\ Under(2) = {0} /\ Under(3) = {2}
  /\ Under(4) = {2, 9}
  /\ Under(5) = {2, 9, 10} /\ Under(10) = {3, 15} /\ Under(11) = {3}
  /\ Under(6) = Expecting /\ Under(7) = Expecting /\ Under(8) = Expecting
  /\ Under(9) = Expecting /\ Under(12) = {4, 16} /\ Under(13) = {6}
  /\ Under(14) = {7} /\ Under(15) = {9} /\ Under(16) = {10}
  /\ Under(17) = {15}
  BY DEF Under

(* The states of the body, from the top down.                              *)
LEMMA Bodies ==
  ASSUME Shape, NEW L \in Nat, L = Len(stack), NEW s \in Reduced, Top.st = s
  PROVE  /\ stack[L].st = s
         /\ L - 1 \in 1 .. L /\ stack[L - 1].st \in Under(s)
         /\ s \in {11, 12, 13, 14, 16, 17} =>
              L - 2 \in 1 .. L /\ stack[L - 2].st \in Under(stack[L - 1].st)
         /\ s \in {11, 16, 17} =>
              L - 3 \in 1 .. L /\ stack[L - 3].st \in Under(stack[L - 2].st)
<1>1. L \in 1 .. Len(stack) /\ stack[L].st = s /\ s # 0
  BY DEF Shape, Top, Reduced
<1>2. L - 1 \in 1 .. L /\ stack[L - 1].st \in Under(s)
  BY <1>1, Beneath
<1>3. ASSUME s \in {11, 12, 13, 14, 16, 17}
      PROVE  /\ L - 2 \in 1 .. L /\ stack[L - 2].st \in Under(stack[L - 1].st)
             /\ stack[L - 1].st # 0
  <2>1. stack[L - 1].st # 0
    BY <1>2, <1>3 DEF Under
  <2>2. L - 1 \in 1 .. Len(stack) /\ (L - 1) - 1 = L - 2
    BY <1>2
  <2> QED
    BY <2>1, <2>2, Beneath
<1>4. ASSUME s \in {11, 16, 17}
      PROVE  L - 3 \in 1 .. L /\ stack[L - 3].st \in Under(stack[L - 2].st)
  <2>1. stack[L - 2].st # 0
    BY <1>2, <1>3, <1>4, UnderOf, SMTT(30)
  <2>2. L - 2 \in 1 .. Len(stack) /\ (L - 2) - 1 = L - 3
    BY <1>3, <1>4
  <2> QED
    BY <2>1, <2>2, Beneath
<1> QED
  BY <1>1, <1>2, <1>3, <1>4

(* What is left fits under the nonterminal, ...                            *)
LEMMA BodyPlace ==
  ASSUME Shape, NEW s \in Reduced, Top.st = s,
         NEW kept, kept = Len(stack) - Length(s)
  PROVE  /\ kept \in 1 .. Len(stack) - 1
         /\ stack[kept].st \in
              Under(next_state(stack[kept].st, Nonterminal(s)))
<1>0. Len(stack) \in Nat
  BY DEF Shape
<1>1. CASE s \in {4, 5, 6, 7, 8}
  <2>1. kept = Len(stack) - 1
    BY <1>1 DEF Length
  <2>2. kept \in 1 .. Len(stack) - 1 /\ stack[kept].st \in Under(s)
    BY <1>0, <2>1, Bodies
  <2>3. \A p \in Under(s) : p \in Under(next_state(p, Nonterminal(s)))
    BY <1>1, UnderOf DEF next_state, Nonterminal, Expecting
  <2> QED
    BY <2>2, <2>3
<1>2. CASE s \in {12, 13, 14}
  <2>1. kept = Len(stack) - 2
    BY <1>2 DEF Length
  <2>2. /\ kept \in 1 .. Len(stack) - 1
        /\ \E p \in Under(s) : stack[kept].st \in Under(p)
    BY <1>0, <1>2, <2>1, Bodies
  <2>3. \A o \in Under(s) :
          \A p \in Under(o) : p \in Under(next_state(p, Nonterminal(s)))
    BY <1>2, UnderOf DEF next_state, Nonterminal, Expecting
  <2> QED
    BY <2>2, <2>3
<1>3. CASE s \in {11, 16, 17}
  <2>1. kept = Len(stack) - 3
    BY <1>3 DEF Length
  <2>2. /\ kept \in 1 .. Len(stack) - 1
        /\ \E n \in Under(s) : \E o \in Under(n) : stack[kept].st \in Under(o)
    BY <1>0, <1>3, <2>1, Bodies
  <2>3. \A n \in Under(s) : \A o \in Under(n) :
          \A p \in Under(o) : p \in Under(next_state(p, Nonterminal(s)))
    BY <1>3, UnderOf DEF next_state, Nonterminal, Expecting
  <2> QED
    BY <2>2, <2>3
<1> QED
  BY <1>1, <1>2, <1>3 DEF Reduced
(* ... and of the body the nonterminals are the owners.                    *)
LEMMA Ownership ==
  ASSUME Shape, NEW k \in 1 .. Len(stack)
  PROVE  /\ stack[k].st \in Nonterminals => k \in Owners
         /\ stack[k].st \notin Nonterminals \cup {1} => k \notin Owners
<1>1. Sound(stack[k])
  BY DEF Shape
<1> QED
  BY <1>1 DEF Sound, Owners

LEMMA BodyOwners ==
  ASSUME Shape, NEW s \in Reduced, Top.st = s,
         NEW kept, kept = Len(stack) - Length(s)
  PROVE  /\ s = 8 => \A i \in Owners : i <= kept
         /\ s \in {4, 5, 6, 7, 13, 14} =>
              /\ kept + 1 \in Owners
              /\ \A i \in Owners : i <= kept \/ i = kept + 1
         /\ s \in {11, 17} =>
              /\ kept + 2 \in Owners
              /\ \A i \in Owners : i <= kept \/ i = kept + 2
         /\ s = 12 =>
              /\ kept + 1 \in Owners /\ kept + 2 \in Owners
              /\ \A i \in Owners : i <= kept \/ i \in {kept + 1, kept + 2}
         /\ s = 16 =>
              /\ kept + 1 \in Owners /\ kept + 3 \in Owners
              /\ \A i \in Owners : i <= kept \/ i \in {kept + 1, kept + 3}
<1>0. PICK L \in Nat : L = Len(stack)
  BY DEF Shape
<1>1. \A i \in Owners : i \in 1 .. L
  BY <1>0 DEF Owners
<1>2. /\ stack[L].st = s /\ L \in 1 .. Len(stack)
      /\ L - 1 \in 1 .. L /\ stack[L - 1].st \in Under(s)
  BY <1>0, Bodies
<1>3. CASE s \in {4, 5, 6, 7, 8}
  <2>1. kept = L - 1
    BY <1>0, <1>3 DEF Length
  <2>2. \A i \in Owners : i <= kept \/ i = L
    BY <1>1, <2>1
  <2>3. s = 8 => L \notin Owners
    BY <1>2, Ownership DEF Nonterminals
  <2>4. s # 8 => L \in Owners
    BY <1>2, <1>3, Ownership DEF Nonterminals
  <2>5. kept + 1 = L
    BY <2>1
  <2> QED
    BY <1>3, <2>2, <2>3, <2>4, <2>5
<1>4. CASE s \in {12, 13, 14}
  <2>1. kept = L - 2
    BY <1>0, <1>4 DEF Length
  <2>2. \A i \in Owners : i <= kept \/ i = L - 1 \/ i = L
    BY <1>1, <2>1
  <2>3. s # 12 => L \notin Owners
    BY <1>2, <1>4, Ownership DEF Nonterminals
  <2>4. s = 12 => L \in Owners
    BY <1>2, Ownership DEF Nonterminals
  <2>5. stack[L - 1].st \in Nonterminals
    BY <1>2, <1>4, UnderOf DEF Nonterminals
  <2>6. L - 1 \in Owners
    BY <1>0, <1>2, <2>5, Ownership
  <2>7. kept + 1 = L - 1 /\ kept + 2 = L
    BY <2>1
  <2> QED
    BY <1>4, <2>2, <2>3, <2>4, <2>6, <2>7
<1>5. CASE s \in {11, 16, 17}
  <2>1. kept = L - 3
    BY <1>0, <1>5 DEF Length
  <2>2. \A i \in Owners : i <= kept \/ i = L - 2 \/ i = L - 1 \/ i = L
    BY <1>1, <2>1
  <2>3. L - 2 \in 1 .. L /\ stack[L - 2].st \in Under(stack[L - 1].st)
    BY <1>0, <1>5, Bodies
  <2>4. CASE s = 16
    <3>1. L \in Owners
      BY <1>2, <2>4, Ownership DEF Nonterminals
    <3>2. stack[L - 1].st = 10 /\ stack[L - 2].st \in {3, 15}
      BY <1>2, <2>3, <2>4, UnderOf
    <3>3. L - 1 \notin Owners
      BY <1>0, <1>2, <3>2, Ownership, SMTT(30) DEF Nonterminals
    <3>4. L - 2 \in Owners
      BY <1>0, <2>3, <3>2, Ownership DEF Nonterminals
    <3>5. kept + 1 = L - 2 /\ kept + 3 = L
      BY <2>1
    <3> QED
      BY <2>2, <2>4, <3>1, <3>3, <3>4, <3>5
  <2>5. CASE s \in {11, 17}
    <3>1. L \notin Owners
      BY <1>2, <2>5, Ownership DEF Nonterminals
    <3>2. stack[L - 1].st \in {3, 15} /\ stack[L - 2].st \in {2, 9}
      BY <1>2, <2>3, <2>5, UnderOf
    <3>3. L - 1 \in Owners
      BY <1>0, <1>2, <3>2, Ownership DEF Nonterminals
    <3>4. L - 2 \notin Owners
      BY <1>0, <2>3, <3>2, Ownership DEF Nonterminals
    <3>5. kept + 2 = L - 1
      BY <2>1
    <3> QED
      BY <2>2, <2>5, <3>1, <3>3, <3>4, <3>5
  <2> QED
    BY <1>5, <2>4, <2>5
<1> QED
  BY <1>3, <1>4, <1>5 DEF Reduced
-----------------------------------------------------------------------------
(* What a reduction writes on the stack and into the buffer.               *)
Lowest(s, kept) ==
  CASE s = 8          -> Len(buf) + 1
    [] s \in {11, 17} -> stack[kept + 2].lo
    [] s \in Reduced \ {8, 11, 17} -> stack[kept + 1].lo

Highest(s, kept) ==
  CASE s \in {8, 12, 13, 16}  -> Len(buf) + 1
    [] s \in {11, 17}         -> stack[kept + 2].hi
    [] s \in {4, 5, 6, 7, 14} -> stack[kept + 1].hi

Appended(s, kept) ==
  CASE s = 8  -> <<>>
    [] s = 12 -> <<stack[kept + 1].hi, stack[kept + 2].hi>>
    [] s = 13 -> <<stack[kept + 1].hi>>
    [] s = 16 -> <<stack[kept + 1].hi, stack[kept + 3].hi>>

LEMMA Attributes ==
  ASSUME Shape, NEW s \in Reduced, Top.st = s,
         NEW kept, kept = Len(stack) - Length(s),
         reduce_without_back(reduce_rules[s])
  PROVE  /\ stack' = Append(SubSeq(stack, 1, kept),
                            [st  |-> next_state(stack[kept].st, Nonterminal(s)),
                             lo  |-> Lowest(s, kept),
                             hi  |-> Highest(s, kept), val |-> 0])
         /\ s \in {8, 12, 13, 16} =>
              buf' = Append(buf, Command(Appended(s, kept)))
         /\ s \in {4, 5, 6, 7, 11, 17} => buf' = buf
         /\ s = 14 /\ stack[kept + 2].val = 0 => buf' = buf
         /\ s = 14 /\ stack[kept + 2].val # 0 =>
              buf' = Marked(stack[kept + 1], stack[kept + 2].val)
         /\ done' = done
<1> DEFINE r    == reduce_rules[s]
           body == SubSeq(stack, kept + 1, Len(stack))
           size == IF r \in {"T_is_TbE", "E_is_EF", "F_is_Gc", "H_is_d"}
                   THEN Len(buf) + 1 ELSE Len(buf)
           attr == attrib_calc(r, body, size)
<1>1. /\ buf' = Generated(r, body)
      /\ stack' = Append(SubSeq(stack, 1, kept),
                         [st |-> next_state(stack[kept].st, Nonterminal(s)),
                          lo |-> attr[1], hi |-> attr[2], val |-> 0])
      /\ done' = done
  BY RuleOf DEF reduce_without_back
<1>2. \A i \in 1 .. Length(s) : body[i] = stack[kept + i]
  <2>1. Len(stack) \in Nat /\ Length(s) \in {1, 2, 3} /\ kept \in Nat
    BY BodyPlace DEF Shape, Length, Reduced
  <2>2. stack \in Seq(Elems) /\ kept <= Len(stack)
    BY <2>1 DEF Shape
  <2>3. \A i \in 1 .. Length(s) :
          i \in 1 .. Len(stack) - (kept + 1) + 1 /\ (kept + 1) + i - 1 = kept + i
    BY <2>1
  <2>4. \A i \in 1 .. Len(stack) - (kept + 1) + 1 :
          body[i] = stack[(kept + 1) + i - 1]
    <3>1. \A i \in kept + 1 .. Len(stack) : stack[i] \in Elems
      BY <2>1, <2>2
    <3>2. kept + 1 \in Int /\ Len(stack) \in Int
      BY <2>1
    <3> QED
      BY <3>1, <3>2, SubSeqProperties
  <2> QED
    BY <2>3, <2>4
<1> HIDE DEF body
<1> SUFFICES
      /\ attr[1] = Lowest(s, kept) /\ attr[2] = Highest(s, kept)
      /\ s \in {8, 12, 13, 16} =>
           Generated(r, body) = Append(buf, Command(Appended(s, kept)))
      /\ s \in {4, 5, 6, 7, 11, 17} => Generated(r, body) = buf
      /\ s = 14 /\ stack[kept + 2].val = 0 => Generated(r, body) = buf
      /\ s = 14 /\ stack[kept + 2].val # 0 =>
           Generated(r, body) =
             Marked(stack[kept + 1], stack[kept + 2].val)
  BY <1>1
<1>3. CASE s = 4
  <2>1. r = "T_is_E" /\ Length(s) = 1
    BY <1>3 DEF reduce_rules, Length
  <2>2. body[1] = stack[kept + 1]
    BY <1>2, <2>1
  <2>3. attr[1] = Lowest(s, kept) /\ attr[2] = Highest(s, kept)
    BY <1>3, <2>1, <2>2 DEF attrib_calc, Lowest, Highest, Reduced
  <2>4. Generated(r, body) = buf
    BY <1>3, <2>1 DEF Generated
  <2> HIDE DEF attr, r
  <2> QED
    BY <1>3, <2>3, <2>4
<1>4. CASE s = 5
  <2>1. r = "E_is_F" /\ Length(s) = 1
    BY <1>4 DEF reduce_rules, Length
  <2>2. body[1] = stack[kept + 1]
    BY <1>2, <2>1
  <2>3. attr[1] = Lowest(s, kept) /\ attr[2] = Highest(s, kept)
    BY <1>4, <2>1, <2>2 DEF attrib_calc, Lowest, Highest, Reduced
  <2>4. Generated(r, body) = buf
    BY <1>4, <2>1 DEF Generated
  <2> HIDE DEF attr, r
  <2> QED
    BY <1>4, <2>3, <2>4
<1>5. CASE s = 6
  <2>1. r = "F_is_G" /\ Length(s) = 1
    BY <1>5 DEF reduce_rules, Length
  <2>2. body[1] = stack[kept + 1]
    BY <1>2, <2>1
  <2>3. attr[1] = Lowest(s, kept) /\ attr[2] = Highest(s, kept)
    BY <1>5, <2>1, <2>2 DEF attrib_calc, Lowest, Highest, Reduced
  <2>4. Generated(r, body) = buf
    BY <1>5, <2>1 DEF Generated
  <2> HIDE DEF attr, r
  <2> QED
    BY <1>5, <2>3, <2>4
<1>6. CASE s = 7
  <2>1. r = "G_is_H" /\ Length(s) = 1
    BY <1>6 DEF reduce_rules, Length
  <2>2. body[1] = stack[kept + 1]
    BY <1>2, <2>1
  <2>3. attr[1] = Lowest(s, kept) /\ attr[2] = Highest(s, kept)
    BY <1>6, <2>1, <2>2 DEF attrib_calc, Lowest, Highest, Reduced
  <2>4. Generated(r, body) = buf
    BY <1>6, <2>1 DEF Generated
  <2> HIDE DEF attr, r
  <2> QED
    BY <1>6, <2>3, <2>4
<1>7. CASE s = 8
  <2>1. r = "H_is_d" /\ Length(s) = 1
    BY <1>7 DEF reduce_rules, Length
  <2>3. attr[1] = Lowest(s, kept) /\ attr[2] = Highest(s, kept)
    BY <1>7, <2>1 DEF attrib_calc, Lowest, Highest, Reduced
  <2>4. Generated(r, body) = Append(buf, Command(Appended(s, kept)))
    BY <1>7, <2>1 DEF Generated, Appended
  <2> HIDE DEF attr, r
  <2> QED
    BY <1>7, <2>3, <2>4
<1>8. CASE s = 11
  <2>1. r = "S_is_pTq" /\ Length(s) = 3
    BY <1>8 DEF reduce_rules, Length
  <2>2. body[2] = stack[kept + 2]
    BY <1>2, <2>1
  <2>3. attr[1] = Lowest(s, kept) /\ attr[2] = Highest(s, kept)
    BY <1>8, <2>1, <2>2 DEF attrib_calc, Lowest, Highest, Reduced
  <2>4. Generated(r, body) = buf
    BY <1>8, <2>1 DEF Generated
  <2> HIDE DEF attr, r
  <2> QED
    BY <1>8, <2>3, <2>4
<1>9. CASE s = 12
  <2>1. r = "E_is_EF" /\ Length(s) = 2
    BY <1>9 DEF reduce_rules, Length
  <2>2. body[1] = stack[kept + 1] /\ body[2] = stack[kept + 2]
    BY <1>2, <2>1
  <2>3. attr[1] = Lowest(s, kept) /\ attr[2] = Highest(s, kept)
    BY <1>9, <2>1, <2>2 DEF attrib_calc, Lowest, Highest, Reduced
  <2>4. Generated(r, body) = Append(buf, Command(Appended(s, kept)))
    BY <1>9, <2>1, <2>2 DEF Generated, Appended
  <2> HIDE DEF attr, r
  <2> QED
    BY <1>9, <2>3, <2>4
<1>10. CASE s = 13
  <2>1. r = "F_is_Gc" /\ Length(s) = 2
    BY <1>10 DEF reduce_rules, Length
  <2>2. body[1] = stack[kept + 1]
    BY <1>2, <2>1
  <2>3. attr[1] = Lowest(s, kept) /\ attr[2] = Highest(s, kept)
    BY <1>10, <2>1, <2>2 DEF attrib_calc, Lowest, Highest, Reduced
  <2>4. Generated(r, body) = Append(buf, Command(Appended(s, kept)))
    BY <1>10, <2>1, <2>2 DEF Generated, Appended
  <2> HIDE DEF attr, r
  <2> QED
    BY <1>10, <2>3, <2>4
<1>11. CASE s = 14
  <2>1. r = "G_is_Ha" /\ Length(s) = 2
    BY <1>11 DEF reduce_rules, Length
  <2>2. body[1] = stack[kept + 1] /\ body[2] = stack[kept + 2]
    BY <1>2, <2>1
  <2>3. attr[1] = Lowest(s, kept) /\ attr[2] = Highest(s, kept)
    BY <1>11, <2>1, <2>2 DEF attrib_calc, Lowest, Highest, Reduced
  <2>4. /\ stack[kept + 2].val = 0 => Generated(r, body) = buf
        /\ stack[kept + 2].val # 0 =>
             Generated(r, body) =
               Marked(stack[kept + 1], stack[kept + 2].val)
    BY <1>11, <2>1, <2>2 DEF Generated, Marked
  <2> HIDE DEF attr, r
  <2> QED
    BY <1>11, <2>3, <2>4
<1>12. CASE s = 16
  <2>1. r = "T_is_TbE" /\ Length(s) = 3
    BY <1>12 DEF reduce_rules, Length
  <2>2. body[1] = stack[kept + 1] /\ body[3] = stack[kept + 3]
    BY <1>2, <2>1
  <2>3. attr[1] = Lowest(s, kept) /\ attr[2] = Highest(s, kept)
    BY <1>12, <2>1, <2>2 DEF attrib_calc, Lowest, Highest, Reduced
  <2>4. Generated(r, body) = Append(buf, Command(Appended(s, kept)))
    BY <1>12, <2>1, <2>2 DEF Generated, Appended
  <2> HIDE DEF attr, r
  <2> QED
    BY <1>12, <2>3, <2>4
<1>13. CASE s = 17
  <2>1. r = "H_is_LP_T_RP" /\ Length(s) = 3
    BY <1>13 DEF reduce_rules, Length
  <2>2. body[2] = stack[kept + 2]
    BY <1>2, <2>1
  <2>3. attr[1] = Lowest(s, kept) /\ attr[2] = Highest(s, kept)
    BY <1>13, <2>1, <2>2 DEF attrib_calc, Lowest, Highest, Reduced
  <2>4. Generated(r, body) = buf
    BY <1>13, <2>1 DEF Generated
  <2> HIDE DEF attr, r
  <2> QED
    BY <1>13, <2>3, <2>4
<1> QED
  BY <1>3, <1>4, <1>5, <1>6, <1>7, <1>8, <1>9, <1>10, <1>11, <1>12, <1>13
     DEF Reduced
-----------------------------------------------------------------------------
(* A reduction, whole.                                                     *)
LEMMA Reducing ==
  ASSUME Shape, Trees, buf \in Seq(Commands), ActionsCoverOperands,
         NEW s \in Reduced, Top.st = s,
         NEW kept, kept = Len(stack) - Length(s),
         reduce_without_back(reduce_rules[s])
  PROVE  /\ Shape' /\ Trees' /\ ActionsCoverOperands'
         /\ buf' \in Seq(Commands)
         /\ kept \in 1 .. Len(stack) - 1
         /\ Len(stack') = kept + 1
         /\ \A k \in 1 .. kept : stack'[k] = stack[k]
         /\ stack'[kept + 1].st = next_state(stack[kept].st, Nonterminal(s))
         /\ done' = done
<1> DEFINE to == next_state(stack[kept].st, Nonterminal(s))
           e  == [st |-> to, lo |-> Lowest(s, kept),
                  hi |-> Highest(s, kept), val |-> 0]
<1>1. /\ kept \in 1 .. Len(stack) - 1
      /\ stack[kept].st \in Under(to)
  BY BodyPlace
<1>2. /\ Len(stack) \in Nat \ {0} /\ Len(buf) \in Nat /\ kept \in Nat
      /\ kept \in 1 .. Len(stack)
  BY <1>1, Sizes
<1>3. to \in Nonterminals \cup {1} /\ to # 8
  BY DEF next_state, Nonterminal, Nonterminals, Reduced
<1>4. Lowest(s, kept) \in Nat \ {0} /\ Highest(s, kept) \in Nat
  <2>1. \A k \in Owners : stack[k].lo \in Nat \ {0} /\ stack[k].hi \in Nat
    BY OwnerFacts
  <2>2. CASE s = 8
    BY <1>2, <2>2 DEF Lowest, Highest
  <2>3. CASE s \in {11, 17}
    <3>1. kept + 2 \in Owners
      BY <2>3, BodyOwners
    <3> QED
      BY <2>1, <2>3, <3>1 DEF Lowest, Highest
  <2>4. CASE s \in {4, 5, 6, 7, 12, 13, 14, 16}
    <3>1. kept + 1 \in Owners
      BY <2>4, BodyOwners
    <3> QED
      BY <1>2, <2>1, <2>4, <3>1 DEF Lowest, Highest, Reduced
  <2> QED
    BY <2>2, <2>3, <2>4 DEF Reduced
<1>5. stack' = Append(SubSeq(stack, 1, kept), e) /\ done' = done
  BY Attributes
<1>6. e \in Elems /\ e.st # 0 /\ Sound(e)
  <2>1. to \in 0 .. 17
    BY <1>3 DEF Nonterminals
  <2> QED
    BY <1>3, <1>4, <2>1 DEF Elems, Sound, Nonterminals
<1>7. /\ Shape'
      /\ Len(stack') = kept + 1 /\ stack'[kept + 1] = e
      /\ \A k \in 1 .. kept : stack'[k] = stack[k]
  <2>1. stack[kept].st \in Under(e.st)
    BY <1>1
  <2> HIDE DEF e
  <2> QED
    BY <1>2, <1>5, <1>6, <2>1, NewTop
<1>8. Replaced(kept, Lowest(s, kept), Highest(s, kept))
  BY <1>7 DEF Replaced
<1> HIDE DEF e, to
<1>9. CASE s \in {8, 12, 13, 16}
  <2>1. buf' = Append(buf, Command(Appended(s, kept)))
    BY <1>9, Attributes
  <2>2. Appended(s, kept) \in Seq(Nat)
    <3>1. s # 8 => kept + 1 \in Owners /\ stack[kept + 1].hi \in Nat
      BY <1>9, BodyOwners, OwnerFacts
    <3>2. s = 12 => kept + 2 \in Owners /\ stack[kept + 2].hi \in Nat
      BY BodyOwners, OwnerFacts
    <3>3. s = 16 => kept + 3 \in Owners /\ stack[kept + 3].hi \in Nat
      BY BodyOwners, OwnerFacts
    <3> QED
      BY <1>9, <3>1, <3>2, <3>3 DEF Appended
  <2>3. Command(Appended(s, kept)) \in Commands
    BY <2>2 DEF Command, Commands
  <2>4. /\ buf' \in Seq(Commands) /\ Len(buf') = Len(buf) + 1
        /\ buf'[Len(buf) + 1] = Command(Appended(s, kept))
        /\ \A n \in 1 .. Len(buf) : buf'[n] = buf[n]
    BY <2>1, <2>3
  <2>5. ArgsKept
    BY <1>2, <2>4 DEF ArgsKept
  <2>6. ActionsCoverOperands'
    BY <2>1, <2>2, GrownActions
  <2>7. Trees'
    <3>1. CASE s = 8
      <4>1. /\ \A i \in Owners : i <= kept
            /\ Appended(s, kept) = <<>>
            /\ Lowest(s, kept) = Len(buf) + 1 /\ Highest(s, kept) = Len(buf) + 1
        BY <3>1, BodyOwners DEF Appended, Lowest, Highest
      <4> QED
        BY <1>1, <1>8, <2>4, <2>5, <4>1, LeafTrees
    <3>2. CASE s = 13
      <4>1. /\ kept + 1 \in Owners
            /\ \A i \in Owners : i <= kept \/ i = kept + 1
        BY <3>2, BodyOwners
      <4>2. /\ Appended(s, kept) = <<stack[kept + 1].hi>>
            /\ Lowest(s, kept) = stack[kept + 1].lo
            /\ Highest(s, kept) = Len(buf) + 1
            /\ kept + 1 > kept
        BY <1>2, <3>2 DEF Appended, Lowest, Highest, Reduced
      <4> QED
        BY <1>1, <1>8, <2>4, <2>5, <4>1, <4>2, ClosureTrees
    <3>3. CASE s = 12
      <4>1. /\ kept + 1 \in Owners /\ kept + 2 \in Owners
            /\ \A i \in Owners : i <= kept \/ i \in {kept + 1, kept + 2}
        BY <3>3, BodyOwners
      <4>2. /\ Appended(s, kept) = <<stack[kept + 1].hi, stack[kept + 2].hi>>
            /\ Lowest(s, kept) = stack[kept + 1].lo
            /\ Highest(s, kept) = Len(buf) + 1
            /\ kept < kept + 1 /\ kept + 1 < kept + 2
        BY <1>2, <3>3 DEF Appended, Lowest, Highest, Reduced
      <4>3. /\ Replaced(kept, stack[kept + 1].lo, Len(buf) + 1)
            /\ Len(buf') = Len(buf) + 1
            /\ buf'[Len(buf) + 1] =
                 Command(<<stack[kept + 1].hi, stack[kept + 2].hi>>)
        BY <1>8, <2>4, <4>2
      <4> QED
        BY <1>1, <2>5, <4>1, <4>2, <4>3, JoinTrees
    <3>4. CASE s = 16
      <4>1. /\ kept + 1 \in Owners /\ kept + 3 \in Owners
            /\ \A i \in Owners : i <= kept \/ i \in {kept + 1, kept + 3}
        BY <3>4, BodyOwners
      <4>2. /\ Appended(s, kept) = <<stack[kept + 1].hi, stack[kept + 3].hi>>
            /\ Lowest(s, kept) = stack[kept + 1].lo
            /\ Highest(s, kept) = Len(buf) + 1
            /\ kept < kept + 1 /\ kept + 1 < kept + 3
        BY <1>2, <3>4 DEF Appended, Lowest, Highest, Reduced
      <4>3. /\ Replaced(kept, stack[kept + 1].lo, Len(buf) + 1)
            /\ Len(buf') = Len(buf) + 1
            /\ buf'[Len(buf) + 1] =
                 Command(<<stack[kept + 1].hi, stack[kept + 3].hi>>)
        BY <1>8, <2>4, <4>2
      <4> QED
        BY <1>1, <2>5, <4>1, <4>2, <4>3, JoinTrees
    <3> QED
      BY <1>9, <3>1, <3>2, <3>3, <3>4
  <2> QED
    BY <1>1, <1>5, <1>7, <2>4, <2>6, <2>7 DEF e, to
<1>10. CASE s \in {4, 5, 6, 7, 11, 14, 17}
  <2>1. PICK j \in Owners :
          /\ j > kept
          /\ \A i \in Owners : i <= kept \/ i = j
          /\ Lowest(s, kept) = stack[j].lo /\ Highest(s, kept) = stack[j].hi
          /\ s = 14 => j = kept + 1
    <3>1. CASE s \in {11, 17}
      <4>1. /\ kept + 2 \in Owners /\ kept + 2 > kept
            /\ \A i \in Owners : i <= kept \/ i = kept + 2
        BY <1>2, <3>1, BodyOwners
      <4>2. /\ Lowest(s, kept) = stack[kept + 2].lo
            /\ Highest(s, kept) = stack[kept + 2].hi
        BY <3>1 DEF Lowest, Highest
      <4> QED
        BY <3>1, <4>1, <4>2
    <3>2. CASE s \in {4, 5, 6, 7, 14}
      <4>1. /\ kept + 1 \in Owners /\ kept + 1 > kept
            /\ \A i \in Owners : i <= kept \/ i = kept + 1
        BY <1>2, <3>2, BodyOwners
      <4>2. /\ Lowest(s, kept) = stack[kept + 1].lo
            /\ Highest(s, kept) = stack[kept + 1].hi
        BY <3>2 DEF Lowest, Highest, Reduced
      <4> QED
        BY <4>1, <4>2
    <3> QED
      BY <1>10, <3>1, <3>2
  <2>2. ArgsKept /\ Len(buf') = Len(buf) /\ ActionsCoverOperands'
    <3>1. CASE s # 14 \/ stack[kept + 2].val = 0
      <4>1. buf' = buf
        BY <1>10, <3>1, Attributes
      <4>2. \A n \in 1 .. Len(buf) : Operands(n)' = Operands(n)
        BY <4>1 DEF Operands
      <4> QED
        BY <1>2, <4>1, <4>2 DEF ArgsKept, ActionsCoverOperands
    <3>2. CASE s = 14 /\ stack[kept + 2].val # 0
      <4>1. buf' = Marked(stack[j], stack[kept + 2].val)
        BY <2>1, <3>2, Attributes
      <4>2. stack[kept + 2].val \in Acts
        <5>1. kept + 2 = Len(stack) /\ kept + 2 \in 1 .. Len(stack)
          BY <1>2, <3>2 DEF Length
        <5>2. stack[kept + 2].st = 14 /\ Sound(stack[kept + 2])
          BY <3>2, <5>1 DEF Top, Shape
        <5> QED
          BY <3>2, <5>2 DEF Sound
      <4>3. \A i \in Owners : i <= j
        <5>1. Owners \subseteq Nat
          BY Sizes
        <5> QED
          BY <1>2, <2>1, <5>1
      <4> QED
        BY <4>1, <4>2, <4>3, MarkedActions
    <3> QED
      BY <3>1, <3>2
  <2>3. Trees'
    <3>1. Replaced(kept, stack[j].lo, stack[j].hi)
      BY <1>8, <2>1
    <3> QED
      BY <1>1, <2>1, <2>2, <3>1, SameTrees
  <2> QED
    BY <1>1, <1>5, <1>7, <2>2, <2>3 DEF e, to, ArgsKept
<1> QED
  BY <1>9, <1>10 DEF Reduced
-----------------------------------------------------------------------------
(* The steps.                                                              *)
Core ==
  /\ Shape /\ Trees /\ ActionsCoverOperands
  /\ buf \in Seq(Commands)

LEMMA CorePushed ==
  ASSUME Core, NEW s \in Terminals, NEW v \in Acts \cup {0, 1},
         Top.st \in Under(s), s = 14 => v \in Acts \cup {0}, Push(s, v)
  PROVE  Core' /\ Top'.st = s /\ Top'.val = v
<1>1. /\ Shape' /\ Trees'
      /\ Len(stack') = Len(stack) + 1
      /\ stack'[Len(stack) + 1] = [st |-> s, lo |-> 0, hi |-> 0, val |-> v]
  BY PushShape, PushTrees DEF Core
<1>2. buf' = buf
  BY DEF Push
<1>3. \A n \in 1 .. Len(buf) : Operands(n)' = Operands(n)
  BY <1>2 DEF Operands
<1>4. ActionsCoverOperands'
  BY <1>2, <1>3 DEF Core, ActionsCoverOperands
<1> QED
  BY <1>1, <1>2, <1>4 DEF Core, Top

LEMMA CoreReduced ==
  ASSUME Core, NEW s \in Reduced, Top.st = s,
         reduce_without_back(reduce_rules[s])
  PROVE  /\ Core' /\ done' = done
         /\ \E p \in 0 .. 17 : Top'.st = next_state(p, Nonterminal(s))
<1>1. PICK kept : kept = Len(stack) - Length(s)
  OBVIOUS
<1>2. /\ Core'
      /\ kept \in 1 .. Len(stack)
      /\ Len(stack') = kept + 1
      /\ stack'[kept + 1].st = next_state(stack[kept].st, Nonterminal(s))
      /\ done' = done
  BY <1>1, Reducing DEF Core
<1>3. stack[kept].st \in 0 .. 17
  BY <1>2, Sizes DEF Core
<1> QED
  BY <1>2, <1>3 DEF Top

LEMMA CoreStays ==
  ASSUME Core, UNCHANGED <<stack, buf>>
  PROVE  Core'
<1>1. Shape'
  BY DEF Core, Shape
<1>2. Owners' = Owners /\ \A n : Operands(n)' = Operands(n)
  BY DEF Owners, Operands
<1>3. ASSUME NEW lo, NEW hi, Tree(lo, hi) PROVE Tree(lo, hi)'
  BY <1>2, <1>3 DEF Tree
<1>4. Trees'
  BY <1>2, <1>3 DEF Core, Trees
<1>5. ActionsCoverOperands'
  BY <1>2 DEF Core, ActionsCoverOperands
<1> QED
  BY <1>1, <1>4, <1>5 DEF Core

(* What can be shifted.                                                    *)
LEMMA ActionTable ==
  ASSUME NEW m \in action_table
  PROVE  /\ m[3] \in Terminals /\ m[1] \in Under(m[3])
         /\ m[3] = 14 => m[2] = "a"
  BY DEF action_table, Terminals, Under, Expecting

LEMMA StepCore ==
  ASSUME Core, NEW l \in Lexems \cup {Eof}, Step(l)
  PROVE  Core'
<1>1. CASE shift(l)
  <2>1. PICK m \in action_table :
          m[1] = Top.st /\ m[2] = l.t /\ Push(m[3], l.val)
    BY <1>1 DEF shift
  <2>2. m[3] \in Terminals /\ Top.st \in Under(m[3]) /\ (m[3] = 14 => l.t = "a")
    BY <2>1, ActionTable
  <2>3. l.val \in Acts \cup {0, 1} /\ (l.t = "a" => l.val \in Acts \cup {0})
    BY DEF Lexems, Eof
  <2> QED
    BY <2>1, <2>2, <2>3, CorePushed
<1>2. CASE reduce(l)
  <2>1. Top.st \in Reduced /\ reduce_without_back(reduce_rules[Top.st])
    BY <1>2 DEF reduce, Lookaheads, Reduced
  <2> QED
    BY <2>1, CoreReduced
<1>3. CASE accept(l)
  BY <1>3, CoreStays DEF accept
<1>4. CASE state00_error_handler(l)
  <2>1. Top.st = 0 /\ Push(2, 1)
    BY <1>4 DEF state00_error_handler
  <2>2. Top.st \in Under(2)
    BY <2>1, UnderOf
  <2> QED
    BY <2>1, <2>2, CorePushed DEF Terminals
<1>5. CASE state02_error_handler(l)
  <2>1. Top.st \in {2, 9, 10} /\ Push(8, 1)
    BY <1>5 DEF state02_error_handler
  <2>2. Top.st \in Under(8)
    BY <2>1, UnderOf DEF Expecting
  <2> QED
    BY <2>1, <2>2, CorePushed DEF Terminals
<1>6. CASE state03_error_handler(l)
  <2>1. Top.st \in {3, 15} /\ Push(10, 1)
    BY <1>6 DEF state03_error_handler
  <2>2. Top.st \in Under(10)
    BY <2>1, UnderOf
  <2> QED
    BY <2>1, <2>2, CorePushed DEF Terminals
<1>7. CASE state04_error_handler(l)
  <2>1. Top.st \in Reduced /\ reduce_without_back(reduce_rules[Top.st])
    BY <1>7 DEF state04_error_handler, Reduced
  <2> QED
    BY <2>1, CoreReduced
<1>8. CASE state06_error_handler(l)
  <2>1. Top.st \in Reduced /\ reduce_without_back(reduce_rules[Top.st])
    BY <1>8 DEF state06_error_handler, Reduced
  <2> QED
    BY <2>1, CoreReduced
<1>9. CASE state07_error_handler(l)
  <2>1. Top.st \in Reduced /\ reduce_without_back(reduce_rules[Top.st])
    BY <1>9 DEF state07_error_handler, Reduced
  <2> QED
    BY <2>1, CoreReduced
<1>10. CASE state11_error_handler(l)
  <2>1. Top.st = 11 /\ reduce_without_back("S_is_pTq")
    BY <1>10 DEF state11_error_handler
  <2>2. Top.st \in Reduced /\ reduce_rules[Top.st] = "S_is_pTq"
    BY <2>1 DEF Reduced, reduce_rules
  <2> QED
    BY <2>1, <2>2, CoreReduced
<1> QED
  BY <1>1, <1>2, <1>3, <1>4, <1>5, <1>6, <1>7, <1>8, <1>9, <1>10 DEF Step
(* A stack of one expression, or of two.                                   *)
LEMMA InitStack ==
  ASSUME Init
  PROVE  /\ stack \in Seq(Elems) /\ Len(stack) \in {1, 3}
         /\ \A k \in 1 .. Len(stack) :
              /\ stack[k].st = IF k = 2 THEN 1 ELSE 0
              /\ stack[k].lo = 0
<1>1. Bottom \in Elems /\ [Bottom EXCEPT !.st = 1] \in Elems
  BY DEF Bottom, Elems
<1>2. Bottom.st = 0 /\ Bottom.lo = 0
      /\ [Bottom EXCEPT !.st = 1].st = 1 /\ [Bottom EXCEPT !.st = 1].lo = 0
  BY DEF Bottom
<1>3. CASE stack = <<Bottom>>
  BY <1>1, <1>2, <1>3
<1>4. CASE stack = <<Bottom, [Bottom EXCEPT !.st = 1], Bottom>>
  <2>1. PICK a \in Elems, b \in Elems :
          /\ a = Bottom /\ a.st = 0 /\ a.lo = 0
          /\ b = [Bottom EXCEPT !.st = 1] /\ b.st = 1 /\ b.lo = 0
    BY <1>1, <1>2
  <2>2. stack = <<a, b, a>>
    BY <1>4, <2>1
  <2>3. /\ Len(stack) = 3 /\ stack[1] = a /\ stack[2] = b /\ stack[3] = a
        /\ stack \in Seq(Elems)
    BY <2>2
  <2>4. \A k \in 1 .. Len(stack) : k = 1 \/ k = 2 \/ k = 3
    BY <2>3
  <2>5. stack[1].st = 0 /\ stack[1].lo = 0 /\ stack[2].st = 1
        /\ stack[2].lo = 0 /\ stack[3].st = 0 /\ stack[3].lo = 0
    BY <2>1, <2>3
  <2> QED
    BY <2>3, <2>4, <2>5
<1> QED
  BY <1>3, <1>4 DEF Init

LEMMA InitCore == Init => Core
<1> SUFFICES ASSUME Init PROVE Core
  OBVIOUS
<1>1. /\ stack \in Seq(Elems) /\ Len(stack) \in {1, 3}
      /\ \A k \in 1 .. Len(stack) :
           /\ stack[k].st = IF k = 2 THEN 1 ELSE 0
           /\ stack[k].lo = 0
  BY InitStack
<1>2. \A k \in 2 .. Len(stack) : stack[k - 1].st \in Under(stack[k].st)
  BY <1>1, UnderOf
<1>3. \A k \in 1 .. Len(stack) : Sound(stack[k])
  BY <1>1 DEF Sound, Nonterminals
<1>4. Shape
  BY <1>1, <1>2, <1>3 DEF Shape
<1>5. Owners = {} /\ buf = <<>>
  BY <1>1 DEF Owners, Init
<1> QED
  BY <1>4, <1>5 DEF Core, Trees, ActionsCoverOperands

LEMMA StepType ==
  ASSUME TypeOK, NEW l \in Upcoming, Step(l), Core'
  PROVE  TypeOK'
<1>0. l \in Lexems \cup {Eof}
  BY DEF Upcoming, TypeOK
<1>1. stack' \in Seq(Elems) /\ Len(stack') > 0 /\ buf' \in Seq(Commands)
  BY DEF Core, Shape
<1>2. eli' = l /\ fed' = IF look = NoLexem /\ l # Eof THEN fed + 1 ELSE fed
  BY DEF Step, Read, shift, reduce, accept, state00_error_handler,
         state02_error_handler, state03_error_handler, state04_error_handler,
         state06_error_handler, state07_error_handler, state11_error_handler
<1>3. look' \in {l, Eof, NoLexem}
  BY DEF Step, Swallow, back, shift, reduce, accept, state00_error_handler,
         state02_error_handler, state03_error_handler, state04_error_handler,
         state06_error_handler, state07_error_handler, state11_error_handler
<1>4. printed' \in BOOLEAN /\ erroneous' \in BOOLEAN
  BY DEF TypeOK, Step, Say, shift, reduce, accept, state00_error_handler,
         state02_error_handler, state03_error_handler, state04_error_handler,
         state06_error_handler, state07_error_handler, state11_error_handler
<1>5. done' \in BOOLEAN
  BY DEF TypeOK, Step, Push, reduce_without_back, shift, reduce, accept,
         state00_error_handler, state02_error_handler, state03_error_handler,
         state04_error_handler, state06_error_handler, state07_error_handler,
         state11_error_handler
<1>6. fed' \in 0 .. MaxLexems
  <2>1. CASE look = NoLexem /\ l # Eof
    <3>1. fed < MaxLexems
      BY <2>1, ActExprAssumption DEF Upcoming, TypeOK
    <3> QED
      BY <1>2, <2>1, <3>1, ActExprAssumption DEF TypeOK
  <2>2. CASE ~(look = NoLexem /\ l # Eof)
    BY <1>2, <2>2 DEF TypeOK
  <2> QED
    BY <2>1, <2>2
<1> QED
  BY <1>0, <1>1, <1>2, <1>3, <1>4, <1>5, <1>6 DEF TypeOK

(* The shape of the stack is what makes the rest inductive: a reduction    *)
(* takes its operands from where the grammar says they are.                *)
IInv == TypeOK /\ Core

(* TypeOK, Trees and ActionsCoverOperands are kept together.               *)
THEOREM Invariant == Spec => []IInv
<1>1. Init => IInv
  <2>1. Init => Core
    BY InitCore
  <2>2. Init => TypeOK
    <3>1. ASSUME Core
          PROVE  /\ stack \in Seq(Elems) /\ Len(stack) > 0
                 /\ buf \in Seq(Commands)
      BY <3>1 DEF Core, Shape
    <3>2. 0 \in 0 .. MaxLexems
      BY ActExprAssumption
    <3> QED
      BY <2>1, <3>1, <3>2 DEF Init, TypeOK
  <2> QED
    BY <2>1, <2>2 DEF IInv
<1>2. IInv /\ [Next]_vars => IInv'
  <2> SUFFICES ASSUME IInv, [Next]_vars PROVE IInv'
    OBVIOUS
  <2>1. CASE Next
    <3>1. PICK l \in Upcoming : Step(l)
      BY <2>1 DEF Next
    <3>2. l \in Lexems \cup {Eof}
      BY DEF Upcoming, IInv, TypeOK
    <3>3. Core'
      BY <3>1, <3>2, StepCore DEF IInv
    <3> QED
      BY <3>1, <3>3, StepType DEF IInv
  <2>2. CASE UNCHANGED vars
    <3>1. Core'
      BY <2>2, CoreStays DEF vars, IInv
    <3> QED
      BY <2>2, <3>1 DEF vars, IInv, TypeOK
  <2> QED
    BY <2>1, <2>2
<1> QED
  BY <1>1, <1>2, PTL DEF Spec
(* The parser's state is typed, at every step.                             *)
THEOREM TypeCorrect == Spec => []TypeOK
<1>1. IInv => TypeOK
  BY DEF IInv
<1> QED
  BY Invariant, <1>1, PTL

(* However many errors are repaired and whatever the repairs are, the      *)
(* commands in the buffer are shared out among the symbols on the stack,   *)
(* and each symbol has one tree of them (attrib_calc, generate_command).   *)
THEOREM TreesAlways == Spec => []Trees
<1>1. IInv => Trees
  BY DEF IInv, Core
<1> QED
  BY Invariant, <1>1, PTL

(* An action marks its operand whole, and stays with all of it             *)
(* (generate_command, case G_is_Ha).                                       *)
THEOREM ActionsAlwaysCover == Spec => []ActionsCoverOperands
<1>1. IInv => ActionsCoverOperands
  BY DEF IInv, Core
<1> QED
  BY Invariant, <1>1, PTL

-----------------------------------------------------------------------------
(* The grammar.  As long as nothing has been diagnosed, the state on top   *)
(* tells which lexeme was the last, and the state of a nonterminal, which  *)
(* was given back: it is one its rule was reduced on.                      *)
LastAt(s) ==
  CASE s = 0       -> {"start"}
    [] s \in {1, 11} -> {"q"}
    [] s = 2       -> {"p"}
    [] s = 8       -> {"d"}
    [] s = 9       -> {"LP"}
    [] s = 10      -> {"b"}
    [] s = 13      -> {"c"}
    [] s = 14      -> {"a"}
    [] s = 17      -> {"RP"}
    [] s = 7       -> {"d", "RP"}
    [] s = 6       -> {"d", "RP", "a"}
    [] s \in {3, 4, 5, 12, 15, 16} -> {"d", "RP", "a", "c"}

Awaited(s) ==
  CASE s \in {3, 15}        -> {"b", "q", "RP"}
    [] s \in {4, 5, 12, 16} -> {"b", "q", "RP", "d", "LP"}
    [] s = 6                -> {"b", "q", "RP", "d", "LP", "c"}
    [] s = 7                -> {"b", "q", "RP", "d", "LP", "c", "a"}

Reading ==
  ~printed => /\ last \in LastAt(Top.st)
              /\ Top.st \in Nonterminals => look.t \in Awaited(Top.st)

LEMMA ReducedReading ==
  ASSUME NEW s \in Reduced, NEW p \in 0 .. 17
  PROVE  LET n == next_state(p, Nonterminal(s))
         IN  /\ LastAt(s) \subseteq LastAt(n)
             /\ n \in Nonterminals => Lookaheads(s) \subseteq Awaited(n)
<1> DEFINE n == next_state(p, Nonterminal(s))
<1>1. CASE s \in {4, 16}
  <2>1. n \in {3, 15}
    BY <1>1 DEF next_state, Nonterminal
  <2> QED
    BY <1>1, <2>1 DEF LastAt, Awaited, Lookaheads
<1>2. CASE s \in {5, 12}
  <2>1. n \in {4, 16}
    BY <1>2 DEF next_state, Nonterminal
  <2> QED
    BY <1>2, <2>1 DEF LastAt, Awaited, Lookaheads
<1>3. CASE s \in {6, 13}
  <2>1. n \in {5, 12}
    BY <1>3 DEF next_state, Nonterminal
  <2> QED
    BY <1>3, <2>1 DEF LastAt, Awaited, Lookaheads
<1>4. CASE s \in {7, 14}
  <2>1. n = 6
    BY <1>4 DEF next_state, Nonterminal
  <2> QED
    BY <1>4, <2>1 DEF LastAt, Awaited, Lookaheads
<1>5. CASE s \in {8, 17}
  <2>1. n = 7
    BY <1>5 DEF next_state, Nonterminal
  <2> QED
    BY <1>5, <2>1 DEF LastAt, Awaited, Lookaheads
<1>6. CASE s = 11
  <2>1. n = 1
    BY <1>6 DEF next_state, Nonterminal
  <2> QED
    BY <1>6, <2>1 DEF LastAt, Nonterminals
<1> QED
  BY <1>1, <1>2, <1>3, <1>4, <1>5, <1>6 DEF Reduced

(* What may be shifted follows what was last.                              *)
LEMMA ShiftedReading ==
  ASSUME NEW m \in action_table
  PROVE  /\ LastAt(m[3]) = {m[2]} /\ m[3] \notin Nonterminals
         /\ m[2] # "eof"
         /\ \A x \in LastAt(m[1]) : m[2] \in Grammar!After(x)
         /\ m[2] = "RP" <=> m[3] = 17
         /\ m[2] = "LP" <=> m[3] = 9
         /\ m[2] = "RP" => m[1] = 15
         /\ m[2] = "q" => m[1] = 3
         /\ m[1] # 17
<1>1. /\ LastAt(m[3]) = {m[2]} /\ m[3] \notin Nonterminals
      /\ m[2] # "eof"
  BY DEF action_table, LastAt, Nonterminals
<1>2. /\ m[2] = "RP" <=> m[3] = 17
      /\ m[2] = "LP" <=> m[3] = 9
      /\ m[2] = "RP" => m[1] = 15
      /\ m[2] = "q" => m[1] = 3
      /\ m[1] # 17
  BY DEF action_table
<1>3. \A x \in LastAt(m[1]) : m[2] \in Grammar!After(x)
  BY DEF action_table, LastAt, Grammar!After, Grammar!Operand
<1> QED
  BY <1>1, <1>2, <1>3

(* The handlers that print a message.                                      *)
LEMMA Repairing ==
  ASSUME NEW l,
         \/ state00_error_handler(l) \/ state02_error_handler(l)
         \/ state03_error_handler(l) \/ state04_error_handler(l)
         \/ state06_error_handler(l) \/ state07_error_handler(l)
  PROVE  printed'
  BY DEF Say, state00_error_handler, state02_error_handler,
         state03_error_handler, state04_error_handler, state06_error_handler,
         state07_error_handler

LEMMA StepReading ==
  ASSUME Core, Reading, NEW l \in Upcoming, Step(l)
  PROVE  Reading'
<1> SUFFICES ASSUME ~printed'
             PROVE  /\ last' \in LastAt(Top'.st)
                    /\ Top'.st \in Nonterminals => look'.t \in Awaited(Top'.st)
  BY DEF Reading
<1>1. CASE shift(l)
  <2>1. PICK m \in action_table :
          /\ m[1] = Top.st /\ m[2] = l.t
          /\ Swallow(l) /\ Push(m[3], l.val)
    BY <1>1 DEF shift
  <2>2. Top'.st = m[3]
    BY <2>1 DEF Push, Top, Core, Shape
  <2>3. last' = m[2]
    BY <2>1, ShiftedReading DEF Swallow, Eof
  <2> QED
    BY <2>2, <2>3, ShiftedReading
<1>2. CASE reduce(l)
  <2>1. /\ Top.st \in Reduced /\ reduce_without_back(reduce_rules[Top.st])
        /\ l.t \in Lookaheads(Top.st)
        /\ look' = l /\ last' = last /\ ~printed
    BY <1>2 DEF reduce, Lookaheads, Reduced, back, Say
  <2>2. PICK p \in 0 .. 17 : Top'.st = next_state(p, Nonterminal(Top.st))
    BY <2>1, CoreReduced
  <2> QED
    BY <2>1, <2>2, ReducedReading DEF Reading
<1>3. CASE accept(l)
  BY <1>3 DEF accept, back, Top, Reading, Nonterminals
<1>4. CASE state11_error_handler(l)
  <2>1. /\ Top.st = 11 /\ reduce_without_back("S_is_pTq")
        /\ last' = last /\ ~printed
    BY <1>4 DEF state11_error_handler, back
  <2>2. Top.st \in Reduced /\ reduce_rules[Top.st] = "S_is_pTq"
    BY <2>1 DEF Reduced, reduce_rules
  <2>3. PICK p \in 0 .. 17 : Top'.st = next_state(p, Nonterminal(Top.st))
    BY <2>1, <2>2, CoreReduced
  <2>4. Top'.st = 1
    BY <2>1, <2>3 DEF next_state, Nonterminal
  <2> QED
    BY <2>1, <2>4 DEF Reading, LastAt, Nonterminals
<1> QED
  BY <1>1, <1>2, <1>3, <1>4, Repairing DEF Step
-----------------------------------------------------------------------------
(* The parentheses that are open.                                          *)
Opens == {k \in 1 .. Len(stack) : stack[k].st = 9}

LEMMA OpensFinite ==
  ASSUME Len(stack) \in Nat
  PROVE  IsFiniteSet(Opens) /\ Cardinality(Opens) \in Nat
<1>1. IsFiniteSet(1 .. Len(stack))
  BY FS_Interval
<1>2. Opens \subseteq 1 .. Len(stack)
  BY DEF Opens
<1> QED
  BY <1>1, <1>2, FS_Subset, FS_CardinalityType

LEMMA DepthPushed ==
  ASSUME Shape, NEW s \in Terminals, NEW v, Top.st # 17, Push(s, v)
  PROVE  Depth' = CASE s = 9  -> Depth + 1
                    [] s = 17 -> Depth - 1
                    [] OTHER  -> Depth
<1> DEFINE L == Len(stack)
<1>1. /\ L \in Nat /\ Len(stack') = L + 1 /\ Len(stack') \in Nat
      /\ stack'[L + 1].st = s
      /\ \A k \in 1 .. L : stack'[k] = stack[k]
  BY DEF Push, Shape
<1>2. Top'.st = s
  BY <1>1 DEF Top
<1>3. /\ Depth = Cardinality(Opens)
      /\ Depth' = Cardinality(Opens') - (IF s = 17 THEN 1 ELSE 0)
  BY <1>1, <1>2, OpensFinite DEF Depth, Opens
<1>4. \A k : k \in 1 .. L + 1 <=> k \in 1 .. L \/ k = L + 1
  BY <1>1
<1>5. CASE s = 9
  <2>1. Opens' = Opens \cup {L + 1} /\ L + 1 \notin Opens
    BY <1>1, <1>4, <1>5 DEF Opens
  <2>2. Cardinality(Opens') = Cardinality(Opens) + 1
    BY <1>1, <2>1, OpensFinite, FS_AddElement
  <2> QED
    BY <1>1, <1>3, <1>5, <2>2, OpensFinite
<1>6. CASE s # 9
  <2>1. Opens' = Opens
    BY <1>1, <1>4, <1>6 DEF Opens
  <2> QED
    BY <1>1, <1>3, <1>6, <2>1, OpensFinite
<1> QED
  BY <1>5, <1>6

LEMMA DepthReduced ==
  ASSUME Core, NEW s \in Reduced, Top.st = s,
         reduce_without_back(reduce_rules[s])
  PROVE  Depth' = Depth
<1>1. PICK kept : kept = Len(stack) - Length(s)
  OBVIOUS
<1>2. /\ kept \in 1 .. Len(stack) - 1
      /\ Len(stack') = kept + 1
      /\ \A k \in 1 .. kept : stack'[k] = stack[k]
      /\ stack'[kept + 1].st = next_state(stack[kept].st, Nonterminal(s))
  BY <1>1, Reducing DEF Core
<1>3. PICK L \in Nat : L = Len(stack) /\ kept \in Nat
  BY <1>2, Sizes DEF Core
<1>4. stack'[kept + 1].st \notin {9, 17}
  BY <1>2 DEF next_state, Nonterminal, Reduced
<1>6. Opens' = {k \in Opens : k <= kept}
  <2>1. \A k : k \in 1 .. kept + 1 <=> k \in 1 .. kept \/ k = kept + 1
    BY <1>3
  <2>2. \A k : k \in 1 .. kept <=> k \in 1 .. Len(stack) /\ k <= kept
    BY <1>2, <1>3
  <2> QED
    BY <1>2, <1>4, <2>1, <2>2 DEF Opens
<1>5. Depth' = Cardinality(Opens')
  <2>1. Opens' \subseteq Opens
    BY <1>6
  <2>2. Cardinality(Opens') \in Nat
    BY <1>3, <2>1, OpensFinite, FS_Subset, FS_CardinalityType
  <2>3. Top'.st # 17
    BY <1>2, <1>4 DEF Top
  <2> QED
    BY <2>2, <2>3 DEF Depth, Opens
<1>7. /\ stack[L].st = s
      /\ L - 1 \in 1 .. L /\ stack[L - 1].st \in Under(s)
      /\ s \in {11, 12, 13, 14, 16, 17} =>
           L - 2 \in 1 .. L /\ stack[L - 2].st \in Under(stack[L - 1].st)
  BY <1>3, Bodies DEF Core
<1>8. CASE s # 17
  <2>1. \A k \in Opens : k <= kept
    <3>1. CASE s \in {4, 5, 6, 7, 8}
      <4>1. kept = L - 1
        BY <1>1, <1>3, <3>1 DEF Length
      <4>2. \A k \in 1 .. L : k <= kept \/ k = L
        BY <4>1
      <4> QED
        BY <1>3, <1>7, <3>1, <4>2 DEF Opens
    <3>2. CASE s \in {12, 13, 14}
      <4>1. kept = L - 2
        BY <1>1, <1>3, <3>2 DEF Length
      <4>2. \A k \in 1 .. L : k <= kept \/ k = L - 1 \/ k = L
        BY <4>1
      <4>3. stack[L - 1].st # 9
        BY <1>7, <3>2, UnderOf
      <4> QED
        BY <1>3, <1>7, <3>2, <4>2, <4>3 DEF Opens
    <3>3. CASE s \in {11, 16}
      <4>1. kept = L - 3
        BY <1>1, <1>3, <3>3 DEF Length
      <4>2. \A k \in 1 .. L : k <= kept \/ k = L - 2 \/ k = L - 1 \/ k = L
        BY <4>1
      <4>3. stack[L - 1].st \in {3, 10} /\ stack[L - 2].st \in {2, 3, 15}
        BY <1>7, <3>3, UnderOf
      <4> QED
        BY <1>3, <1>7, <3>3, <4>2, <4>3 DEF Opens
    <3> QED
      BY <1>8, <3>1, <3>2, <3>3 DEF Reduced
  <2>2. Opens' = Opens
    BY <1>6, <2>1
  <2>3. Depth = Cardinality(Opens)
    BY <1>3, <1>8, OpensFinite DEF Depth, Opens
  <2> QED
    BY <1>5, <2>2, <2>3
<1>9. CASE s = 17
  <2>1. kept = L - 3
    BY <1>1, <1>3, <1>9 DEF Length
  <2>2. \A k \in 1 .. L : k <= kept \/ k = L - 2 \/ k = L - 1 \/ k = L
    BY <2>1
  <2>3. stack[L - 1].st = 15 /\ stack[L - 2].st = 9 /\ L - 2 \in 1 .. L
    BY <1>7, <1>9, UnderOf
  <2>4. L - 2 \in Opens /\ \A k \in Opens : k <= kept \/ k = L - 2
    BY <1>3, <1>7, <1>9, <2>2, <2>3 DEF Opens
  <2>5. Opens' = Opens \ {L - 2}
    BY <1>3, <1>6, <2>1, <2>4
  <2>6. Cardinality(Opens') = Cardinality(Opens) - 1
    BY <1>3, <2>4, <2>5, OpensFinite, FS_RemoveElement
  <2>7. Depth = Cardinality(Opens) - 1
    BY <1>9 DEF Depth, Opens
  <2> QED
    BY <1>5, <2>6, <2>7
<1> QED
  BY <1>8, <1>9

(* Where a closing brace is awaited nothing is open, and where a closing   *)
(* parenthesis is, something is.                                           *)
LEMMA DepthAt ==
  ASSUME Core
  PROVE  /\ Top.st = 3 => Depth = 0
         /\ Top.st = 15 => Depth > 0
<1>1. PICK L \in Nat : L = Len(stack) /\ L \in 1 .. Len(stack)
  BY Sizes DEF Core
<1>2. ASSUME Top.st = 3 PROVE Depth = 0
  <2>1. stack[L].st = 3
    BY <1>1, <1>2 DEF Top
  <2>2. L - 1 \in 1 .. Len(stack) /\ stack[L - 1].st = 2
    BY <1>1, <2>1, Beneath, UnderOf DEF Core
  <2>3. L - 2 \in 1 .. Len(stack) /\ stack[L - 2].st = 0
    <3>1. (L - 1) - 1 = L - 2
      BY <1>1
    <3> QED
      BY <2>2, <3>1, Beneath, UnderOf, SMTT(30) DEF Core
  <2>4. L - 2 \in {1, 3}
    BY <2>3 DEF Core, Shape
  <2>5. \A k \in 1 .. L : stack[k].st # 9
    <3>1. CASE L = 3
      <4>1. \A k \in 1 .. L : k = L - 2 \/ k = L - 1 \/ k = L
        BY <3>1
      <4> QED
        BY <2>1, <2>2, <2>3, <4>1
    <3>2. CASE L = 5
      <4>1. \A k \in 1 .. L : k = 1 \/ k = 2 \/ k = L - 2 \/ k = L - 1 \/ k = L
        BY <3>2
      <4>2. stack[1].st = 0
        BY DEF Core, Shape
      <4>3. stack[2].st = 1
        <5>1. stack[3].st = 0 /\ 3 \in 2 .. Len(stack) /\ 3 - 1 = 2
          BY <1>1, <2>3, <3>2
        <5>2. stack[3 - 1].st \in Under(stack[3].st)
          BY <5>1 DEF Core, Shape
        <5> QED
          BY <5>1, <5>2, UnderOf
      <4> QED
        BY <2>1, <2>2, <2>3, <4>1, <4>2, <4>3, SMTT(30)
    <3> QED
      BY <1>1, <2>4, <3>1, <3>2
  <2>6. Opens = {}
    BY <1>1, <2>5 DEF Opens
  <2>7. Cardinality(Opens) = 0
    BY <2>6, FS_EmptySet
  <2> QED
    BY <1>2, <2>7 DEF Depth, Opens
<1>3. ASSUME Top.st = 15 PROVE Depth > 0
  <2>1. stack[L].st = 15
    BY <1>1, <1>3 DEF Top
  <2>2. L - 1 \in 1 .. Len(stack) /\ stack[L - 1].st = 9
    BY <1>1, <2>1, Beneath, UnderOf DEF Core
  <2>3. Opens # {}
    BY <2>2 DEF Opens
  <2>4. Cardinality(Opens) # 0 /\ Cardinality(Opens) \in Nat
    BY <1>1, <2>3, OpensFinite, FS_EmptySet
  <2> QED
    BY <1>3, <2>4 DEF Depth, Opens
<1> QED
  BY <1>2, <1>3
-----------------------------------------------------------------------------
(* Every step is one of the grammar's, or stutters.                        *)
GInv == IInv /\ Reading

LEMMA InitGrammar == Init => Reading /\ Grammar!Init
<1> SUFFICES ASSUME Init PROVE Reading /\ Grammar!Init
  OBVIOUS
<1>1. \A k \in 1 .. Len(stack) : stack[k].st # 9
  BY InitStack
<1>2. Top.st = 0
  <2>1. Len(stack) \in {1, 3}
    BY InitStack
  <2>2. \A n \in {1, 3} : n \in 1 .. n /\ n # 2
    OBVIOUS
  <2>3. Len(stack) \in 1 .. Len(stack) /\ Len(stack) # 2
    BY <2>1, <2>2, Zenon
  <2> QED
    BY <2>3, InitStack DEF Top
<1>3. Depth = 0
  <2>1. {k \in 1 .. Len(stack) : stack[k].st = 9} = {}
    BY <1>1
  <2>2. Cardinality({k \in 1 .. Len(stack) : stack[k].st = 9}) = 0
    BY <2>1, FS_EmptySet
  <2> QED
    BY <1>2, <2>2 DEF Depth
<1>4. last = "start" /\ done = FALSE /\ printed = FALSE
  BY DEF Init
<1>5. Reading
  BY <1>2, <1>4 DEF Reading, LastAt, Nonterminals
<1> QED
  BY <1>3, <1>4, <1>5 DEF Grammar!Init

LEMMA DepthKept ==
  ASSUME stack' = stack
  PROVE  Depth' = Depth
  BY DEF Depth, Top

LEMMA StepGrammar ==
  ASSUME Core, Reading, printed \in BOOLEAN, printed' \in BOOLEAN,
         ~done, NEW l \in Upcoming, Step(l)
  PROVE  Grammar!Next \/ UNCHANGED Grammar!vars
<1> SUFFICES ASSUME ~printed'
             PROVE  Grammar!Next \/ UNCHANGED Grammar!vars
  BY DEF Grammar!Next, Grammar!Diagnose
<1>1. CASE shift(l)
  <2>1. PICK m \in action_table :
          /\ m[1] = Top.st /\ m[2] = l.t
          /\ Swallow(l) /\ Push(m[3], l.val)
          /\ ~printed
    BY <1>1 DEF shift, Say
  <2>2. last' = m[2] /\ done' = done
    BY <2>1, ShiftedReading DEF Swallow, Eof, Push
  <2>3. last \in LastAt(m[1])
    BY <2>1 DEF Reading
  <2>4. /\ m[2] \in Grammar!After(last)
        /\ m[2] = "RP" <=> m[3] = 17
        /\ m[2] = "LP" <=> m[3] = 9
        /\ m[2] = "RP" => Top.st = 15
        /\ m[2] = "q" => Top.st = 3
        /\ Top.st # 17
    BY <2>1, <2>3, ShiftedReading
  <2>5. m[2] \in Grammar!Allowed(last, Depth)
    BY <2>4, DepthAt DEF Grammar!Allowed
  <2>6. m[3] \in Terminals
    BY ActionTable
  <2>7. Depth' = CASE m[2] = "LP" -> Depth + 1
                   [] m[2] = "RP" -> Depth - 1
                   [] OTHER       -> Depth
    BY <2>1, <2>4, <2>6, DepthPushed DEF Core
  <2>9. printed' = printed
    BY <2>1
  <2>8. Grammar!Read(m[2])
    BY <2>2, <2>5, <2>7, <2>9 DEF Grammar!Read
  <2> QED
    BY <2>5, <2>8 DEF Grammar!Next
<1>2. CASE reduce(l)
  <2>1. /\ Top.st \in Reduced /\ reduce_without_back(reduce_rules[Top.st])
        /\ last' = last /\ ~printed
    BY <1>2 DEF reduce, Lookaheads, Reduced, back, Say
  <2>2. Depth' = Depth /\ done' = done
    BY <2>1, DepthReduced, CoreReduced
  <2>3. printed' = printed
    BY <2>1
  <2> QED
    BY <2>1, <2>2, <2>3 DEF Grammar!vars
<1>3. CASE accept(l)
  <2>1. /\ Top.st = 1 /\ done' /\ last' = last
        /\ printed' = printed /\ stack' = stack
    BY <1>3 DEF accept, back
  <2>2. last = "q"
    BY <2>1 DEF Reading, LastAt
  <2>3. Depth' = Depth
    BY <2>1, DepthKept
  <2> QED
    BY <2>1, <2>2, <2>3 DEF Grammar!Next, Grammar!Accept
<1>4. CASE state11_error_handler(l)
  <2>1. /\ Top.st = 11 /\ reduce_without_back("S_is_pTq")
        /\ last' = last /\ printed' = printed
    BY <1>4 DEF state11_error_handler, back
  <2>2. Top.st \in Reduced /\ reduce_rules[Top.st] = "S_is_pTq"
    BY <2>1 DEF Reduced, reduce_rules
  <2>3. Depth' = Depth /\ done' = done
    BY <2>1, <2>2, DepthReduced, CoreReduced
  <2> QED
    BY <2>1, <2>3 DEF Grammar!vars
<1> QED
  BY <1>1, <1>2, <1>3, <1>4, Repairing DEF Step
LEMMA GrammarInvariant == Spec => []GInv
<1>1. Init => Reading
  BY InitGrammar
<1>2. IInv /\ Reading /\ [Next]_vars => Reading'
  <2> SUFFICES ASSUME IInv, Reading, [Next]_vars PROVE Reading'
    OBVIOUS
  <2>1. CASE Next
    BY <2>1, StepReading DEF Next, IInv
  <2>2. CASE UNCHANGED vars
    BY <2>2 DEF vars, Reading, Top
  <2> QED
    BY <2>1, <2>2
<1> QED
  BY Invariant, <1>1, <1>2, PTL DEF Spec, GInv

(* Up to the first message Act_expr_parser reads the expressions of the    *)
(* grammar in the comment of act_expr_parser.cpp, however long they are    *)
(* and however deep their parentheses, and returns after a whole one: what *)
(* its tables let through is what that grammar does.                       *)
THEOREM GrammarAlwaysFollowed == Spec => FollowsGrammar
<1>1. Init => Grammar!Init
  BY InitGrammar
<1>2. GInv /\ GInv' /\ [Next]_vars => [Grammar!Next]_Grammar!vars
  <2> SUFFICES ASSUME GInv, GInv', [Next]_vars
               PROVE  Grammar!Next \/ UNCHANGED Grammar!vars
    OBVIOUS
  <2>1. CASE Next
    <3>1. PICK l \in Upcoming : ~done /\ Step(l)
      BY <2>1 DEF Next
    <3>2. printed \in BOOLEAN /\ printed' \in BOOLEAN /\ Core /\ Reading
      BY DEF GInv, IInv, TypeOK
    <3> QED
      BY <3>1, <3>2, StepGrammar
  <2>2. CASE UNCHANGED vars
    <3>1. Depth' = Depth
      BY <2>2, DepthKept DEF vars
    <3> QED
      BY <2>2, <3>1 DEF vars, Grammar!vars
  <2> QED
    BY <2>1, <2>2
<1> QED
  BY GrammarInvariant, <1>1, <1>2, PTL DEF Spec, FollowsGrammar, Grammar!Spec

-----------------------------------------------------------------------------
(* And the other way round: what is diagnosed is wrong.                    *)
LEMMA WhatIsAwaited ==
  ASSUME Reading, ~printed, Top.st \in Nonterminals, NEW l \in Upcoming
  PROVE  l.t \in Awaited(Top.st)
<1>1. look.t \in Awaited(Top.st)
  BY DEF Reading
<1>2. "no lexeme" \notin Awaited(Top.st)
  BY DEF Awaited, Nonterminals
<1>3. look # NoLexem
  <2>1. NoLexem.t = "no lexeme"
    BY DEF NoLexem
  <2> QED
    BY <1>1, <1>2, <2>1
<1> QED
  BY <1>1, <1>3 DEF Upcoming

LEMMA StepDiagnosis ==
  ASSUME Core, Reading, ~printed, printed', NEW l \in Upcoming, Step(l)
  PROVE  \/ l.t \notin Grammar!Allowed(last, Depth)
         \/ l.val = 0 \/ Undefined
<1>1. CASE shift(l)
  BY <1>1 DEF shift, Say
<1>2. CASE reduce(l)
  BY <1>2 DEF reduce, Say
<1>3. CASE accept(l)
  BY <1>3 DEF accept
<1>4. CASE state00_error_handler(l)
  <2>1. last = "start" /\ l.t # "p"
    BY <1>4 DEF state00_error_handler, Reading, LastAt
  <2> QED
    BY <2>1 DEF Grammar!Allowed, Grammar!After
<1>5. CASE state02_error_handler(l)
  <2>1. last \in {"p", "b", "LP"} /\ l.t \notin {"d", "LP"}
    BY <1>5 DEF state02_error_handler, Reading, LastAt
  <2> QED
    BY <2>1 DEF Grammar!Allowed, Grammar!After, Grammar!Operand
<1>6. CASE state03_error_handler(l)
  <2>1. CASE Top.st = 3 /\ l.t \notin {"b", "q"}
    <3>1. l.t = "RP"
      BY <2>1, WhatIsAwaited DEF Awaited, Nonterminals
    <3> QED
      BY <2>1, <3>1, DepthAt DEF Grammar!Allowed
  <2>2. CASE Top.st = 15 /\ l.t \notin {"b", "RP"}
    <3>1. l.t = "q"
      BY <2>2, WhatIsAwaited DEF Awaited, Nonterminals
    <3> QED
      BY <2>2, <3>1, DepthAt DEF Grammar!Allowed
  <2> QED
    BY <1>6, <2>1, <2>2 DEF state03_error_handler
<1>7. CASE state04_error_handler(l)
  <2>1. Top.st \in {4, 5, 12, 13, 16} /\ l.t \in {"a", "c", "p", "eof"}
    BY <1>7 DEF state04_error_handler
  <2>2. Top.st = 13
    BY <2>1, WhatIsAwaited DEF Awaited, Nonterminals
  <2>3. last = "c"
    BY <2>2 DEF Reading, LastAt
  <2> QED
    BY <2>1, <2>3 DEF Grammar!Allowed, Grammar!After, Grammar!Operand
<1>8. CASE state06_error_handler(l)
  <2>1. Top.st \in {6, 14} /\ l.t \in {"a", "p", "eof"}
    BY <1>8 DEF state06_error_handler
  <2>2. Top.st = 14
    BY <2>1, WhatIsAwaited DEF Awaited, Nonterminals
  <2>3. last = "a"
    BY <2>2 DEF Reading, LastAt
  <2> QED
    BY <2>1, <2>3 DEF Grammar!Allowed, Grammar!After, Grammar!Operand
<1>9. CASE state07_error_handler(l)
  <2>1. Top.st \in {7, 8, 17} /\ l.t \in {"p", "eof"}
    BY <1>9 DEF state07_error_handler
  <2>2. Top.st \in {8, 17}
    BY <2>1, WhatIsAwaited DEF Awaited, Nonterminals
  <2>3. last \in {"d", "RP"}
    BY <2>2 DEF Reading, LastAt
  <2> QED
    BY <2>1, <2>3 DEF Grammar!Allowed, Grammar!After, Grammar!Operand
<1>10. CASE state11_error_handler(l)
  BY <1>10 DEF state11_error_handler
<1> QED
  BY <1>1, <1>2, <1>3, <1>4, <1>5, <1>6, <1>7, <1>8, <1>9, <1>10 DEF Step

(* The first message is about a lexeme the grammar does not allow there, a *)
(* class that the section does not allow or an action that is not defined: *)
(* no expression of the grammar is rejected.                               *)
THEOREM OnlyWrongAlwaysDiagnosed == Spec => OnlyWrongIsDiagnosed
<1>1. GInv /\ [Next]_vars =>
        [ printed' /\ ~printed =>
            \/ eli'.t \notin Grammar!Allowed(last, Depth)
            \/ eli'.val = 0 \/ Undefined ]_vars
  <2> SUFFICES ASSUME GInv, Next, printed', ~printed
               PROVE  \/ eli'.t \notin Grammar!Allowed(last, Depth)
                      \/ eli'.val = 0 \/ Undefined
    OBVIOUS
  <2>1. PICK l \in Upcoming : Step(l)
    BY DEF Next
  <2>2. eli' = l
    BY <2>1
       DEF Step, Read, shift, reduce, accept, state00_error_handler,
           state02_error_handler, state03_error_handler,
           state04_error_handler, state06_error_handler,
           state07_error_handler, state11_error_handler
  <2>3. Core /\ Reading
    BY DEF GInv, IInv
  <2> QED
    BY <2>1, <2>2, <2>3, StepDiagnosis
<1> QED
  BY GrammarInvariant, <1>1, PTL DEF Spec, OnlyWrongIsDiagnosed
=============================================================================
