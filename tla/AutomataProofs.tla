---------------------------- MODULE AutomataProofs ----------------------------
(***************************************************************************)
(* Proofs about Automata, for every set of characters and classes, every   *)
(* list of keywords and every length of the texts and of the expressions:  *)
(* - the texts of %idents, lexeme by lexeme: what has been counted of them *)
(*   and what is still to be (Invariant, MalformedAlwaysReported);         *)
(* - the characters their commands begin with (KeywordsAlwaysApart);       *)
(* - the buffers: operands come before their commands, whoever writes,     *)
(*   unwraps, joins or fuses them; the builders: an automaton has its      *)
(*   edges between its own states; the subset construction (TypeCorrect);  *)
(* - the words an automaton accepts, and those of what the builders make   *)
(*   of those of their operands;                                           *)
(* - the pairs of states that Apart tells apart, and the states that are   *)
(*   reached: that the turns of both come to an end;                       *)
(* - what a buffer of commands means, and that fusing keeps it.            *)
(***************************************************************************)
EXTENDS Automata, WellFoundedInduction, SequenceTheorems, FiniteSetTheorems, TLAPS

-----------------------------------------------------------------------------
(* A well-formed text, lexeme by lexeme: nothing is said of its pieces.    *)

Marks   == {Begin, Bar, End}
Good(l) == IsLetter(l) /\ Allowed(l)

Neighbours(t) == \E i \in 1 .. Len(t) - 1 : t[i] \in Marks /\ t[i + 1] \in Marks

Regular(t) ==
  /\ Len(t) >= 2 /\ t[1] = Begin /\ t[Len(t)] = End
  /\ \A i \in 2 .. Len(t) - 1 : t[i] = Bar \/ Good(t[i])
  /\ ~Neighbours(t)

(* The lexemes are different, and a mark is no letter.                     *)
LEMMA LexemsApart ==
  /\ Begin # Bar /\ Begin # End /\ Bar # End
  /\ \A l \in Marks \cup {Another} : ~IsLetter(l)
  /\ Another \notin Marks
  /\ NoLexem # Eof /\ Eof \notin Lexems /\ NoLexem \notin Lexems
  /\ Marks \cup {Another} \subseteq Lexems
  /\ \A l \in Lexems : l \in Marks \/ l = Another \/ IsLetter(l)
<1>1. /\ Begin.code = "Begin_expression" /\ End.code = "End_expression"
      /\ Bar.code = "Or" /\ Another.code = "another"
      /\ NoLexem.code = "no lexeme" /\ Eof.code = "None"
  BY DEF Begin, End, Bar, Another, NoLexem, Eof, Lexem
<1>2. \A com : Letter(com).code = "letter"
  BY DEF Letter
<1>3. \A l \in Lexems : l \in Marks \/ l = Another \/ l.code = "letter"
  BY <1>2 DEF Marks, Lexems
<1>4. Marks \cup {Another} \subseteq Lexems
  BY DEF Marks, Lexems
<1> QED
  BY <1>1, <1>3, <1>4 DEF Marks, IsLetter

(* A set of places has a first one.                                        *)
Less == {p \in Nat \X Nat : p[1] < p[2]}

LEMMA FirstOf ==
  ASSUME NEW T, T \subseteq Nat, T # {}
  PROVE  \E x \in T : \A y \in T : x <= y
<1>1. IsWellFoundedOn(Less, Nat)
  BY NatLessThanWellFounded, Zenon DEF OpToRel, Less
<1>2. PICK x \in T : \A y \in T : ~(<<y, x>> \in Less)
  BY <1>1, WFMin, Zenon
<1>3. ASSUME NEW y \in T PROVE x <= y
  <2>1. x \in Nat /\ y \in Nat
    OBVIOUS
  <2>2. <<y, x>> \in Less <=> y < x
    BY <2>1 DEF Less
  <2> QED
    BY <1>2, <2>1, <2>2
<1> QED
  BY <1>3

(* The last place of a set of them that is not behind i.                   *)
LEMMA LastBefore ==
  ASSUME NEW S, S \subseteq Nat, NEW i \in Nat, NEW a \in S, a <= i
  PROVE  \E p \in S : p <= i /\ \A k \in S : k <= p \/ k > i
<1> DEFINE T == {n \in Nat : n <= i /\ i - n \in S}
<1>1. i - a \in T
  <2>1. a \in Nat /\ i - a \in Nat /\ i - a <= i /\ i - (i - a) = a
    OBVIOUS
  <2> QED
    BY <2>1
<1>2. PICK x \in T : \A y \in T : x <= y
  BY <1>1, FirstOf
<1>3. ASSUME NEW k \in S, k <= i PROVE k <= i - x
  <2>1. k \in Nat /\ i - k \in Nat /\ i - k <= i /\ i - (i - k) = k
    BY <1>3
  <2>2. i - k \in T
    BY <2>1
  <2> QED
    BY <1>2, <2>1, <2>2
<1>4. i - x \in S /\ i - x <= i
  BY <1>2
<1>5. \A k \in S : k <= i - x \/ k > i
  BY <1>3
<1> QED
  BY <1>4, <1>5

(* The first place of a set of them that is behind i.                      *)
LEMMA FirstAfter ==
  ASSUME NEW S, S \subseteq Nat, NEW i \in Nat, NEW b \in S, b > i
  PROVE  \E q \in S : q > i /\ \A k \in S : k <= i \/ k >= q
<1> DEFINE T == {k \in S : k > i}
<1>1. b \in T /\ T \subseteq Nat
  OBVIOUS
<1>2. PICK x \in T : \A y \in T : x <= y
  BY <1>1, FirstOf
<1> QED
  BY <1>2

(* What a piece is: a stretch between two marks with no mark in it.        *)
IsMark(t, i) == i \in DOMAIN t /\ t[i] \in Marks
Adjoin(t, i, j) ==
  /\ IsMark(t, i) /\ IsMark(t, j) /\ i < j
  /\ \A k \in DOMAIN t : IsMark(t, k) => k <= i \/ k >= j

LEMMA PiecesAre ==
  ASSUME NEW t
  PROVE  /\ \A i, j : Adjoin(t, i, j) => SubSeq(t, i + 1, j - 1) \in Pieces(t)
         /\ \A s \in Pieces(t) :
              \E i, j : Adjoin(t, i, j) /\ s = SubSeq(t, i + 1, j - 1)
<1> DEFINE M == {i \in DOMAIN t : t[i] \in {Begin, Bar, End}}
           A == {p \in M \X M : p[1] < p[2] /\ \A k \in M : k <= p[1] \/ k >= p[2]}
<1>1. Pieces(t) = {SubSeq(t, ij[1] + 1, ij[2] - 1) : ij \in A}
  BY DEF Pieces
<1>2. \A i : i \in M <=> IsMark(t, i)
  BY DEF IsMark, Marks
<1>3. \A i, j : <<i, j>> \in A <=> Adjoin(t, i, j)
  <2> SUFFICES ASSUME NEW i, NEW j PROVE <<i, j>> \in A <=> Adjoin(t, i, j)
    OBVIOUS
  <2>1. M \subseteq DOMAIN t
    OBVIOUS
  <2> HIDE DEF M
  <2>2. <<i, j>> \in A <=> /\ i \in M /\ j \in M /\ i < j
                           /\ \A k \in M : k <= i \/ k >= j
    <3>1. <<i, j>>[1] = i /\ <<i, j>>[2] = j
      OBVIOUS
    <3>2. <<i, j>> \in M \X M <=> i \in M /\ j \in M
      OBVIOUS
    <3> QED
      BY <3>1, <3>2, Zenon
  <2> QED
    BY <1>2, <2>1, <2>2 DEF Adjoin
<1>4. \A ij \in A : ij = <<ij[1], ij[2]>>
  OBVIOUS
<1> HIDE DEF A
<1>5. ASSUME NEW i, NEW j, Adjoin(t, i, j)
      PROVE  SubSeq(t, i + 1, j - 1) \in Pieces(t)
  <2>1. <<i, j>> \in A
    BY <1>3, <1>5
  <2>2. <<i, j>>[1] = i /\ <<i, j>>[2] = j
    OBVIOUS
  <2>3. \A ij \in A : SubSeq(t, ij[1] + 1, ij[2] - 1) \in Pieces(t)
    BY <1>1
  <2>4. SubSeq(t, <<i, j>>[1] + 1, <<i, j>>[2] - 1) \in Pieces(t)
    BY <2>1, <2>3, Zenon
  <2> QED
    BY <2>2, <2>4
<1>6. ASSUME NEW s \in Pieces(t)
      PROVE  \E i, j : Adjoin(t, i, j) /\ s = SubSeq(t, i + 1, j - 1)
  <2>1. PICK ij \in A : s = SubSeq(t, ij[1] + 1, ij[2] - 1)
    BY <1>1
  <2>2. Adjoin(t, ij[1], ij[2])
    BY <1>3, <1>4
  <2> QED
    BY <2>1, <2>2
<1> QED
  BY <1>5, <1>6

(* Between two marks in a row.                                             *)
LEMMA PieceOf ==
  ASSUME NEW t \in Seq(Lexems), NEW i, NEW j, Adjoin(t, i, j)
  PROVE  LET s == SubSeq(t, i + 1, j - 1)
         IN  /\ i \in 1 .. Len(t) /\ j \in 1 .. Len(t) /\ i < j
             /\ s = <<>> <=> j = i + 1
             /\ DOMAIN s = 1 .. j - i - 1
             /\ \A k \in 1 .. j - i - 1 : s[k] = t[i + k]
<1>1. i \in 1 .. Len(t) /\ j \in 1 .. Len(t) /\ i < j
  BY DEF Adjoin, IsMark
<1>2. PICK n : n = j - i - 1
  OBVIOUS
<1>3. n \in Nat /\ i + 1 \in 1 .. Len(t) + 1 /\ j - 1 \in i .. Len(t)
      /\ Len(t) \in Nat
  BY <1>1, <1>2
<1>4. /\ Len(SubSeq(t, i + 1, j - 1)) = n
      /\ SubSeq(t, i + 1, j - 1) \in Seq(Lexems)
      /\ \A k \in 1 .. n : SubSeq(t, i + 1, j - 1)[k] = t[i + k]
  BY <1>1, <1>2, <1>3
<1>5. SubSeq(t, i + 1, j - 1) = <<>> <=> n = 0
  BY <1>4, EmptySeq
<1> QED
  BY <1>1, <1>2, <1>3, <1>4, <1>5

(* The two are the same: the pieces are of allowed letters if and only if  *)
(* each lexeme is allowed and no marks are side by side.                   *)
LEMMA WellFormedIs ==
  ASSUME NEW t \in Seq(Lexems)
  PROVE  WellFormed(t) <=> Regular(t)
<1>0. Len(t) \in Nat /\ DOMAIN t = 1 .. Len(t)
  OBVIOUS
<1>1. ASSUME WellFormed(t) PROVE Regular(t)
  <2>1. /\ Len(t) >= 2 /\ t[1] = Begin /\ t[Len(t)] = End
        /\ \A i \in 2 .. Len(t) - 1 : t[i] \notin {Begin, End}
        /\ \A s \in Pieces(t) :
             s # <<>> /\ \A k \in DOMAIN s : Good(s[k])
    BY <1>1 DEF WellFormed, Good
  <2>2. ASSUME NEW i \in 2 .. Len(t) - 1, t[i] # Bar PROVE Good(t[i])
    <3> DEFINE S == {k \in 1 .. Len(t) : t[k] \in Marks}
    <3>1. /\ S \subseteq Nat /\ i \in Nat /\ i \in 1 .. Len(t)
          /\ 1 \in S /\ Len(t) \in S /\ 1 <= i /\ Len(t) > i
      BY <1>0, <2>1 DEF Marks
    <3>2. PICK p \in S : p <= i /\ \A k \in S : k <= p \/ k > i
      BY <3>1, LastBefore
    <3>3. PICK q \in S : q > i /\ \A k \in S : k <= i \/ k >= q
      BY <3>1, FirstAfter
    <3>4. i \notin S
      BY <2>1, <2>2 DEF Marks
    <3>5. /\ p \in 1 .. Len(t) /\ q \in 1 .. Len(t) /\ p < i /\ i < q
      BY <3>1, <3>2, <3>3, <3>4
    <3>6. \A k \in S : k <= p \/ k >= q
      BY <3>1, <3>2, <3>3
    <3>7. Adjoin(t, p, q)
      BY <1>0, <3>5, <3>6 DEF Adjoin, IsMark
    <3>8. PICK n : n = i - p
      OBVIOUS
    <3>9. n \in 1 .. q - p - 1 /\ p + n = i
      BY <3>5, <3>8
    <3>10. SubSeq(t, p + 1, q - 1) \in Pieces(t)
      BY <3>7, PiecesAre
    <3>11. /\ n \in DOMAIN SubSeq(t, p + 1, q - 1)
           /\ SubSeq(t, p + 1, q - 1)[n] = t[p + n]
      BY <3>7, <3>9, PieceOf
    <3> QED
      BY <2>1, <3>9, <3>10, <3>11
  <2>3. ASSUME NEW i \in 1 .. Len(t) - 1,
               t[i] \in Marks, t[i + 1] \in Marks
        PROVE  FALSE
    <3>1. i \in Nat /\ i \in 1 .. Len(t) /\ i + 1 \in 1 .. Len(t) /\ i < i + 1
      BY <1>0
    <3>2. \A k \in 1 .. Len(t) : k <= i \/ k >= i + 1
      BY <3>1
    <3>3. Adjoin(t, i, i + 1)
      BY <1>0, <2>3, <3>1, <3>2 DEF Adjoin, IsMark
    <3>4. SubSeq(t, i + 1, (i + 1) - 1) = <<>>
      BY <3>3, PieceOf
    <3>5. SubSeq(t, i + 1, (i + 1) - 1) \in Pieces(t)
      BY <3>3, PiecesAre
    <3> QED
      BY <2>1, <3>4, <3>5
  <2> QED
    BY <2>1, <2>2, <2>3 DEF Regular, Neighbours
<1>2. ASSUME Regular(t) PROVE WellFormed(t)
  <2>1. ASSUME NEW i \in 2 .. Len(t) - 1 PROVE t[i] \notin {Begin, End}
    <3>1. t[i] = Bar \/ IsLetter(t[i])
      BY <1>2, <2>1 DEF Regular, Good
    <3> QED
      BY <3>1, LexemsApart DEF Marks
  <2>2. ASSUME NEW s \in Pieces(t)
        PROVE  s # <<>> /\ \A k \in DOMAIN s : Good(s[k])
    <3>1. PICK i, j : Adjoin(t, i, j) /\ s = SubSeq(t, i + 1, j - 1)
      BY PiecesAre
    <3>2. /\ i \in 1 .. Len(t) /\ j \in 1 .. Len(t) /\ i < j
          /\ s = <<>> <=> j = i + 1
          /\ DOMAIN s = 1 .. j - i - 1
          /\ \A k \in 1 .. j - i - 1 : s[k] = t[i + k]
      BY <3>1, PieceOf
    <3>3. j # i + 1
      <4>1. i \in 1 .. Len(t) - 1 \/ j # i + 1
        BY <1>0, <3>2
      <4> QED
        BY <1>2, <3>1, <4>1 DEF Regular, Neighbours, Adjoin, IsMark
    <3>4. ASSUME NEW k \in DOMAIN s PROVE Good(s[k])
      <4>1. PICK n : n = i + k
        OBVIOUS
      <4>2. /\ n \in 2 .. Len(t) - 1 /\ n \in 1 .. Len(t)
            /\ ~(n <= i) /\ ~(n >= j) /\ s[k] = t[n]
        BY <1>0, <3>2, <4>1
      <4>3. t[n] \notin Marks
        BY <1>0, <3>1, <4>2 DEF Adjoin, IsMark
      <4> QED
        BY <1>2, <4>2, <4>3 DEF Regular, Marks
    <3> QED
      BY <3>2, <3>3, <3>4
  <2> QED
    BY <1>2, <2>1, <2>2 DEF Regular, WellFormed, Good
<1> QED
  BY <1>1, <1>2

-----------------------------------------------------------------------------
(* The text that is being read.  It is spoilt as soon as no End after it   *)
(* can make it well formed.                                                *)
Spoilt(t) ==
  \/ t # <<>> /\ t[1] # Begin
  \/ \E i \in 2 .. Len(t) : ~(t[i] = Bar \/ Good(t[i]))
  \/ Neighbours(t)

LEMMA SpoiltAppended ==
  ASSUME NEW t \in Seq(Lexems), t # <<>>, NEW l \in Lexems
  PROVE  Spoilt(Append(t, l)) <=> \/ Spoilt(t)
                                  \/ ~(l = Bar \/ Good(l))
                                  \/ t[Len(t)] \in Marks /\ l \in Marks
<1> DEFINE u == Append(t, l)
<1>1. /\ u \in Seq(Lexems) /\ Len(u) = Len(t) + 1 /\ u[Len(t) + 1] = l
      /\ \A k \in 1 .. Len(t) : u[k] = t[k]
      /\ Len(t) \in Nat /\ Len(t) >= 1 /\ u # <<>>
  OBVIOUS
<1> HIDE DEF u
<1>2. PICK n : n = Len(t)
  OBVIOUS
<1>3. u[1] = t[1]
  BY <1>1
<1>4. (\E i \in 2 .. Len(u) : ~(u[i] = Bar \/ Good(u[i])))
        <=> \/ \E i \in 2 .. Len(t) : ~(t[i] = Bar \/ Good(t[i]))
            \/ ~(l = Bar \/ Good(l))
  <2>1. \A i \in 2 .. n + 1 : i \in 2 .. n \/ i = n + 1
    BY <1>1, <1>2
  <2>2. n + 1 \in 2 .. n + 1 /\ \A i \in 2 .. n : i \in 2 .. n + 1 /\ i \in 1 .. n
    BY <1>1, <1>2
  <2> QED
    BY <1>1, <1>2, <2>1, <2>2
<1>5. Neighbours(u) <=> Neighbours(t) \/ (t[Len(t)] \in Marks /\ l \in Marks)
  <2>1. ASSUME NEW i \in 1 .. n, u[i] \in Marks, u[i + 1] \in Marks
        PROVE  Neighbours(t) \/ (t[n] \in Marks /\ l \in Marks)
    <3>1. CASE i = n
      BY <1>1, <1>2, <2>1, <3>1
    <3>2. CASE i # n
      <4>1. i \in 1 .. n - 1 /\ i + 1 \in 1 .. n
        BY <1>1, <1>2, <3>2
      <4> QED
        BY <1>1, <1>2, <2>1, <4>1 DEF Neighbours
    <3> QED
      BY <3>1, <3>2
  <2>2. ASSUME NEW i \in 1 .. n - 1, t[i] \in Marks, t[i + 1] \in Marks
        PROVE  Neighbours(u)
    <3>1. /\ i \in 1 .. n /\ i + 1 \in 1 .. n /\ Len(u) - 1 = n
      BY <1>1, <1>2
    <3> QED
      BY <1>1, <1>2, <2>2, <3>1 DEF Neighbours
  <2>3. ASSUME t[n] \in Marks, l \in Marks PROVE Neighbours(u)
    <3>1. n \in 1 .. Len(u) - 1
      BY <1>1, <1>2
    <3> QED
      BY <1>1, <1>2, <2>3, <3>1 DEF Neighbours
  <2>4. Len(u) - 1 = n
    BY <1>1, <1>2
  <2> QED
    BY <1>2, <2>1, <2>2, <2>3, <2>4 DEF Neighbours
<1> QED
  BY <1>1, <1>3, <1>4, <1>5 DEF Spoilt, u

(* The first lexeme.                                                       *)
LEMMA SpoiltFirst ==
  ASSUME NEW l \in Lexems
  PROVE  Spoilt(<<l>>) <=> l # Begin
<1>1. Len(<<l>>) = 1 /\ <<l>>[1] = l /\ <<l>> # <<>>
  OBVIOUS
<1>2. ~Neighbours(<<l>>)
  BY <1>1 DEF Neighbours
<1> QED
  BY <1>1, <1>2 DEF Spoilt

LEMMA SpoiltEmpty == ~Spoilt(<<>>)
BY DEF Spoilt, Neighbours

(* The end of the text: well formed if nothing is wrong and the last       *)
(* alternative is not empty.                                               *)
LEMMA RegularAppended ==
  ASSUME NEW t \in Seq(Lexems), t # <<>>
  PROVE  Regular(Append(t, End)) <=> ~Spoilt(t) /\ t[Len(t)] \notin Marks
<1> DEFINE u == Append(t, End)
<1>1. End \in Lexems
  BY LexemsApart DEF Marks
<1>2. /\ u \in Seq(Lexems) /\ Len(u) = Len(t) + 1 /\ u[Len(t) + 1] = End
      /\ \A k \in 1 .. Len(t) : u[k] = t[k]
      /\ Len(t) \in Nat /\ Len(t) >= 1 /\ u # <<>>
  BY <1>1
<1> HIDE DEF u
<1>3. Len(u) - 1 = Len(t) /\ Len(u) >= 2 /\ u[1] = t[1] /\ u[Len(u)] = End
  BY <1>2
<1>4. (\A i \in 2 .. Len(u) - 1 : u[i] = Bar \/ Good(u[i]))
        <=> \A i \in 2 .. Len(t) : t[i] = Bar \/ Good(t[i])
  BY <1>2, <1>3
<1>5. Neighbours(u) <=> Neighbours(t) \/ t[Len(t)] \in Marks
  <2> DEFINE m == Len(t)
  <2>1. Neighbours(u) <=> \E i \in 1 .. m : u[i] \in Marks /\ u[i + 1] \in Marks
    BY <1>3 DEF Neighbours
  <2>2. u[m] = t[m] /\ u[m + 1] \in Marks /\ m \in 1 .. m
    BY <1>2 DEF Marks
  <2>3. \A i \in 1 .. m : i = m \/ i \in 1 .. m - 1
    BY <1>2
  <2>4. \A i \in 1 .. m - 1 : i \in 1 .. m /\ u[i] = t[i] /\ u[i + 1] = t[i + 1]
    <3>1. \A i \in 1 .. m - 1 : i \in 1 .. m /\ i + 1 \in 1 .. m
      BY <1>2
    <3> QED
      BY <1>2, <3>1
  <2> QED
    BY <2>1, <2>2, <2>3, <2>4 DEF Neighbours
<1> QED
  BY <1>2, <1>3, <1>4, <1>5 DEF Regular, Spoilt, u

-----------------------------------------------------------------------------
(* The inductive invariant.  The error counter is shared by both texts: it *)
(* is not zero if and only if a text that is over is malformed, or the one *)
(* under way is spoilt.                                                    *)
Finished(p) == part = "parsed" \/ (part = "id_body" /\ p = "id_begin")
Malformed   == \E p \in Parts : Finished(p) /\ ~Regular(texts[p])

(* Where the parser is in the text t.                                      *)
Within(t) ==
  \/ sp.state = "State_begin_expr" /\ t = <<>> /\ look \in {NoLexem, Eof}
  \/ /\ sp.state = "State_begin_concat" /\ t # <<>>
     /\ look = NoLexem \/ (look \in Lexems /\ IsLetter(look) /\ Spoilt(t))
     /\ Spoilt(t) \/ t[Len(t)] \in Marks
  \/ /\ sp.state = "State_concat" /\ t # <<>> /\ look = NoLexem
     /\ Spoilt(t) \/ t[Len(t)] \notin Marks

InText(t) ==
  /\ failed <=> Malformed \/ Spoilt(t)
  /\ look = Eof => Malformed
  /\ \A i \in 1 .. Len(t) : t[i] # End
  /\ "state" \in DOMAIN sp
  /\ Within(t)

SrpInv ==
  /\ part \in Parts \cup {"parsed"}
  /\ texts \in [Parts -> Seq(Lexems)]
  /\ failed \in BOOLEAN
  /\ part = "parsed" => (failed <=> Malformed)
  /\ part = "id_begin" => texts["id_body"] = <<>>
  /\ part \in Parts => InText(texts[part])

(* The text of this expression becomes t.                                  *)
Written(t) ==
  /\ texts' \in [Parts -> Seq(Lexems)]
  /\ texts'[part] = t
  /\ \A p \in Parts \ {part} : texts'[p] = texts[p]

LEMMA LexemRead ==
  ASSUME SrpInv, part \in Parts, NEW l \in Lexems, look = NoLexem,
         current_lexem(l)
  PROVE  Written(Append(texts[part], l))
<1>1. l # Eof
  BY LexemsApart
<1>2. texts' = [texts EXCEPT ![part] = Append(@, l)]
  BY <1>1 DEF current_lexem
<1>3. texts \in [Parts -> Seq(Lexems)] /\ Append(texts[part], l) \in Seq(Lexems)
  BY DEF SrpInv
<1> QED
  BY <1>2, <1>3 DEF Written

LEMMA NothingRead ==
  ASSUME SrpInv, part \in Parts, NEW l, look # NoLexem \/ l = Eof,
         current_lexem(l)
  PROVE  Written(texts[part])
<1>1. texts' = texts
  BY DEF current_lexem
<1> QED
  BY <1>1 DEF Written, SrpInv

(* The expression goes on.                                                 *)
LEMMA GoesOn ==
  ASSUME SrpInv, part \in Parts, UNCHANGED part, NEW t, Written(t),
         failed' \in BOOLEAN,
         failed' <=> Malformed \/ Spoilt(t),
         look' # Eof,
         \A i \in 1 .. Len(t) : t[i] # End,
         "state" \in DOMAIN sp', Within(t)'
  PROVE  SrpInv'
<1>1. \A p \in Parts : Finished(p) => p # part
  BY DEF Finished, Parts
<1>2. Malformed' <=> Malformed
  BY <1>1 DEF Malformed, Finished, Written
<1>3. part = "id_begin" => texts'["id_body"] = <<>>
  BY DEF SrpInv, Written, Parts
<1>4. InText(t)'
  BY <1>2 DEF InText, Spoilt, Neighbours, Good, IsLetter, Allowed, Marks
<1> QED
  BY <1>3, <1>4 DEF SrpInv, Written, Parts

(* The expression is over.                                                 *)
LEMMA IsOver ==
  ASSUME SrpInv, part \in Parts, Return, NEW t, Written(t),
         failed' \in BOOLEAN,
         failed' <=> Malformed \/ ~Regular(t),
         look' = NoLexem \/ (look' = Eof /\ ~Regular(t))
  PROVE  SrpInv'
<1>1. Malformed' <=> Malformed \/ ~Regular(t)
  <2>1. \A p \in Parts : Finished(p)' <=> Finished(p) \/ p = part
    BY DEF Finished, Return, Parts
  <2>2. \A p \in Parts : Finished(p) => p # part
    BY DEF Finished, Parts
  <2> QED
    BY <2>1, <2>2 DEF Malformed, Written
<1>2. CASE part = "id_body"
  BY <1>1, <1>2 DEF SrpInv, Written, Return, Parts
<1>3. CASE part = "id_begin"
  <2>1. part' = "id_body" /\ texts'["id_body"] = <<>>
    BY <1>3 DEF SrpInv, Written, Return, Parts
  <2>2. sp'.state = "State_begin_expr" /\ "state" \in DOMAIN sp'
    BY DEF Return, Start
  <2>3. InText(<<>>)'
    BY <1>1, <2>2, SpoiltEmpty, LexemsApart DEF InText, Within
  <2> QED
    BY <2>1, <2>3 DEF SrpInv, Written, Parts
<1> QED
  BY <1>2, <1>3 DEF Parts

LEMMA BeginExpr ==
  ASSUME SrpInv, state_begin_expr_proc
  PROVE  SrpInv'
<1>0. part \in Parts /\ sp.state = "State_begin_expr"
  BY DEF state_begin_expr_proc, Reading
<1>1. PICK l \in Upcoming \ {Eof} :
        /\ current_lexem(l)
        /\ look' = IF IsLetter(l) THEN l ELSE NoLexem
        /\ failed' = (failed \/ l # Begin)
        /\ IF l = End THEN Return
           ELSE /\ sp' = [sp EXCEPT !.state = "State_begin_concat"]
                /\ UNCHANGED part
  BY DEF state_begin_expr_proc
<1>2. /\ InText(texts[part]) /\ texts[part] = <<>> /\ look \in {NoLexem, Eof}
      /\ failed \in BOOLEAN
  BY <1>0 DEF SrpInv, InText, Within
<1>3. look = NoLexem /\ l \in Lexems
  BY <1>1, <1>2, LexemsApart DEF Upcoming
<1>4. PICK t : t = <<l>>
  OBVIOUS
<1>5. /\ Written(t) /\ t # <<>> /\ Len(t) = 1 /\ t[1] = l
      /\ failed <=> Malformed
      /\ Spoilt(t) <=> l # Begin
  <2>1. Written(Append(texts[part], l))
    BY <1>0, <1>1, <1>3, LexemRead
  <2>2. Append(texts[part], l) = t
    BY <1>2, <1>4
  <2>3. failed <=> Malformed
    BY <1>2, SpoiltEmpty DEF InText
  <2>4. Spoilt(t) <=> l # Begin
    BY <1>3, <1>4, SpoiltFirst
  <2> QED
    BY <1>4, <2>1, <2>2, <2>3, <2>4
<1>6. CASE l = End
  <2>1. ~Regular(t) /\ ~IsLetter(l) /\ l # Begin
    BY <1>5, <1>6, LexemsApart DEF Regular, Marks
  <2> QED
    BY <1>0, <1>1, <1>2, <1>5, <1>6, <2>1, IsOver
<1>7. CASE l # End
  <2>1. failed' \in BOOLEAN /\ (failed' <=> Malformed \/ Spoilt(t))
    BY <1>1, <1>2, <1>5
  <2>2. look' # Eof
    BY <1>1, <1>3, LexemsApart
  <2>3. "state" \in DOMAIN sp' /\ sp'.state = "State_begin_concat" /\ UNCHANGED part
    BY <1>1, <1>2, <1>7 DEF InText
  <2>4. look' = NoLexem \/ (look' \in Lexems /\ IsLetter(look') /\ Spoilt(t))
    <3>1. l = Begin => ~IsLetter(l)
      BY LexemsApart DEF Marks
    <3> QED
      BY <1>1, <1>3, <1>5, <3>1
  <2>5. Spoilt(t) \/ t[Len(t)] \in Marks
    BY <1>5 DEF Marks
  <2>6. Within(t)'
    BY <1>5, <2>3, <2>4, <2>5
       DEF Within, Spoilt, Neighbours, Good, IsLetter, Allowed, Marks
  <2>7. \A i \in 1 .. Len(t) : t[i] # End
    BY <1>5, <1>7
  <2> QED
    BY <1>0, <1>5, <2>1, <2>2, <2>3, <2>6, <2>7, GoesOn
<1> QED
  BY <1>6, <1>7

(* A lexeme is read, or the letter given back is.                          *)
LEMMA BeginConcat ==
  ASSUME SrpInv, state_begin_concat_proc
  PROVE  SrpInv'
<1>0. part \in Parts /\ sp.state = "State_begin_concat"
  BY DEF state_begin_concat_proc, Reading
<1>1. PICK l \in Upcoming \ {Eof} :
        /\ current_lexem(l)
        /\ failed' = (failed \/ no_alternative(l))
        /\ IF IsLetter(l)
           THEN LET b == Append(bufs[part], l.com)
                IN /\ sp' = [sp EXCEPT !.state = "State_concat",
                                       !.first_concatenated = Len(b),
                                       !.number_of_concatenated = 1]
                   /\ UNCHANGED part
           ELSE IF l = End THEN Return ELSE UNCHANGED <<part, sp>>
  BY DEF state_begin_concat_proc
<1>2. look' = NoLexem
  BY DEF state_begin_concat_proc
<1>3. PICK s : s = texts[part]
  OBVIOUS
<1>4. /\ s \in Seq(Lexems) /\ s # <<>>
      /\ failed \in BOOLEAN /\ (failed <=> Malformed \/ Spoilt(s))
      /\ \A i \in 1 .. Len(s) : s[i] # End
      /\ "state" \in DOMAIN sp
      /\ look = NoLexem \/ (look \in Lexems /\ IsLetter(look) /\ Spoilt(s))
      /\ Spoilt(s) \/ s[Len(s)] \in Marks
  BY <1>0, <1>3 DEF SrpInv, InText, Within
<1>5. no_alternative(l) <=> ~Good(l)
  BY DEF no_alternative, Good
<1>6. IsLetter(l) => /\ UNCHANGED part
                     /\ "state" \in DOMAIN sp' /\ sp'.state = "State_concat"
                     /\ l \notin Marks
  BY <1>1, <1>4, LexemsApart
<1>7. CASE look # NoLexem
  <2>1. l = look /\ IsLetter(l)
    BY <1>1, <1>4, <1>7 DEF Upcoming
  <2>2. Written(s)
    BY <1>0, <1>1, <1>3, <1>7, NothingRead
  <2>3. failed' \in BOOLEAN /\ (failed' <=> Malformed \/ Spoilt(s))
    BY <1>1, <1>4, <1>7
  <2>4. Within(s)'
    BY <1>2, <1>4, <1>6, <1>7, <2>1
       DEF Within, Spoilt, Neighbours, Good, IsLetter, Allowed, Marks
  <2> QED
    BY <1>0, <1>2, <1>4, <1>6, <2>1, <2>2, <2>3, <2>4, LexemsApart, GoesOn
<1>8. CASE look = NoLexem
  <2>1. l \in Lexems
    BY <1>1, <1>8 DEF Upcoming
  <2>2. PICK t : t = Append(s, l)
    OBVIOUS
  <2>3. /\ Written(t) /\ t # <<>> /\ Len(t) = Len(s) + 1 /\ t[Len(t)] = l
        /\ \A i \in 1 .. Len(s) : t[i] = s[i]
        /\ Len(s) \in Nat
    <3>1. Written(t)
      BY <1>0, <1>1, <1>3, <1>8, <2>1, <2>2, LexemRead
    <3> QED
      BY <1>4, <2>1, <2>2, <3>1
  <2>4. Spoilt(t) <=> \/ Spoilt(s)
                      \/ ~(l = Bar \/ Good(l))
                      \/ s[Len(s)] \in Marks /\ l \in Marks
    BY <1>4, <2>1, <2>2, SpoiltAppended
  <2>5. Spoilt(t) <=> Spoilt(s) \/ ~Good(l)
    <3>1. Bar \in Marks
      BY DEF Marks
    <3>2. Good(l) => l \notin Marks
      BY LexemsApart DEF Good
    <3> QED
      BY <1>4, <2>4, <3>1, <3>2
  <2>6. CASE l = End
    <3>1. ~Regular(t)
      BY <1>4, <2>2, <2>6, RegularAppended
    <3>2. ~IsLetter(l) /\ Return
      BY <1>1, <2>6, LexemsApart DEF Marks
    <3>3. ~Good(l)
      BY <3>2 DEF Good
    <3> QED
      BY <1>0, <1>1, <1>2, <1>4, <1>5, <2>3, <3>1, <3>2, <3>3, IsOver
  <2>7. CASE l # End
    <3>1. failed' \in BOOLEAN /\ (failed' <=> Malformed \/ Spoilt(t))
      BY <1>1, <1>4, <1>5, <2>5
    <3>2. \A i \in 1 .. Len(t) : t[i] # End
      <4>1. \A i \in 1 .. Len(s) + 1 : i \in 1 .. Len(s) \/ i = Len(t)
        BY <2>3
      <4> QED
        BY <1>4, <2>3, <2>7, <4>1
    <3>3. UNCHANGED part /\ "state" \in DOMAIN sp'
      BY <1>1, <1>4, <1>6, <2>7
    <3>4. \/ sp'.state = "State_concat" /\ t[Len(t)] \notin Marks
          \/ sp'.state = "State_begin_concat" /\ Spoilt(t)
      <4>1. CASE IsLetter(l)
        BY <1>6, <2>3, <4>1
      <4>2. CASE ~IsLetter(l)
        BY <1>0, <1>1, <2>5, <2>7, <4>2 DEF Good
      <4> QED
        BY <4>1, <4>2
    <3>5. Within(t)'
      BY <1>2, <2>3, <3>4
         DEF Within, Spoilt, Neighbours, Good, IsLetter, Allowed, Marks
    <3> QED
      BY <1>0, <1>2, <2>3, <3>1, <3>2, <3>3, <3>5, LexemsApart, GoesOn
  <2> QED
    BY <2>6, <2>7
<1> QED
  BY <1>7, <1>8

LEMMA Concat ==
  ASSUME SrpInv, state_concat_proc
  PROVE  SrpInv'
<1>0. part \in Parts /\ sp.state = "State_concat"
  BY DEF state_concat_proc, Reading
<1>1. PICK l \in Upcoming \ {Eof} :
        /\ current_lexem(l)
        /\ failed' = (failed \/ ~(l \in {Bar, End} \/ (IsLetter(l) /\ Allowed(l))))
        /\ CASE IsLetter(l) ->
                  /\ sp' = [sp EXCEPT !.number_of_concatenated = @ + 1]
                  /\ UNCHANGED part
             [] l = Bar ->
                  /\ sp' = [sp EXCEPT !.state = "State_begin_concat",
                                      !.number_of_ors = @ + 1,
                                      !.number_of_concatenated = 0,
                                      !.arg1 = Len(Alternative)]
                  /\ UNCHANGED part
             [] l = End -> Return
             [] OTHER -> UNCHANGED <<sp, part>>
  BY DEF state_concat_proc
<1>2. look' = NoLexem
  BY DEF state_concat_proc
<1>3. PICK s : s = texts[part]
  OBVIOUS
<1>4. /\ s \in Seq(Lexems) /\ s # <<>>
      /\ failed \in BOOLEAN /\ (failed <=> Malformed \/ Spoilt(s))
      /\ \A i \in 1 .. Len(s) : s[i] # End
      /\ "state" \in DOMAIN sp
      /\ look = NoLexem
      /\ Spoilt(s) \/ s[Len(s)] \notin Marks
  BY <1>0, <1>3 DEF SrpInv, InText, Within
<1>5. l \in Lexems
  BY <1>1, <1>4 DEF Upcoming
<1>6. PICK t : t = Append(s, l)
  OBVIOUS
<1>7. /\ Written(t) /\ t # <<>> /\ Len(t) = Len(s) + 1 /\ t[Len(t)] = l
      /\ \A i \in 1 .. Len(s) : t[i] = s[i]
      /\ Len(s) \in Nat
  <2>1. Written(t)
    BY <1>0, <1>1, <1>3, <1>4, <1>5, <1>6, LexemRead
  <2> QED
    BY <1>4, <1>5, <1>6, <2>1
<1>8. Spoilt(t) <=> Spoilt(s) \/ ~(l = Bar \/ Good(l))
  BY <1>4, <1>5, <1>6, SpoiltAppended
<1>9. CASE l = End
  <2>1. Regular(t) <=> ~Spoilt(s)
    BY <1>4, <1>6, <1>9, RegularAppended
  <2>2. ~IsLetter(l) /\ l # Bar
    BY <1>9, LexemsApart DEF Marks
  <2>3. Return /\ failed' = failed
    BY <1>1, <1>4, <1>9, <2>2
  <2> QED
    BY <1>0, <1>2, <1>4, <1>7, <2>1, <2>3, IsOver
<1>10. CASE l # End
  <2>1. failed' \in BOOLEAN /\ (failed' <=> Malformed \/ Spoilt(t))
    BY <1>1, <1>4, <1>8, <1>10 DEF Good
  <2>2. \A i \in 1 .. Len(t) : t[i] # End
    <3>1. \A i \in 1 .. Len(s) + 1 : i \in 1 .. Len(s) \/ i = Len(t)
      BY <1>7
    <3> QED
      BY <1>4, <1>7, <1>10, <3>1
  <2>3. /\ UNCHANGED part /\ "state" \in DOMAIN sp'
        /\ \/ sp'.state = "State_concat" /\ (Spoilt(t) \/ l \notin Marks)
           \/ sp'.state = "State_begin_concat" /\ l \in Marks
    <3>1. CASE IsLetter(l)
      <4>1. l \notin Marks /\ l # Bar
        BY <3>1, LexemsApart DEF Marks
      <4>2. /\ sp' = [sp EXCEPT !.number_of_concatenated = @ + 1]
            /\ UNCHANGED part
        BY <1>1, <1>10, <3>1, <4>1
      <4> QED
        BY <1>0, <1>4, <4>1, <4>2
    <3>2. CASE l = Bar
      <4>1. ~IsLetter(l) /\ l \in Marks
        BY <3>2, LexemsApart DEF Marks
      <4>2. /\ sp' = [sp EXCEPT !.state = "State_begin_concat",
                                !.number_of_ors = @ + 1,
                                !.number_of_concatenated = 0,
                                !.arg1 = Len(Alternative)]
            /\ UNCHANGED part
        BY <1>1, <1>10, <3>2, <4>1
      <4> QED
        BY <1>4, <4>1, <4>2
    <3>3. CASE ~IsLetter(l) /\ l # Bar
      BY <1>0, <1>1, <1>4, <1>8, <1>10, <3>3 DEF Good
    <3> QED
      BY <3>1, <3>2, <3>3
  <2>4. Within(t)'
    BY <1>2, <1>7, <2>3
       DEF Within, Spoilt, Neighbours, Good, IsLetter, Allowed, Marks
  <2> QED
    BY <1>0, <1>2, <1>7, <2>1, <2>2, <2>3, <2>4, LexemsApart, GoesOn
<1> QED
  BY <1>9, <1>10

(* A text without its closing brace is malformed.                          *)
LEMMA RunOut ==
  ASSUME SrpInv, run_out
  PROVE  SrpInv'
<1>0. /\ part \in Parts /\ current_lexem(Eof) /\ Return
      /\ look' = Eof /\ failed' = TRUE
  BY DEF run_out
<1>1. PICK t : t = texts[part]
  OBVIOUS
<1>2. Written(t)
  BY <1>0, <1>1, NothingRead
<1>3. t \in Seq(Lexems) /\ \A i \in 1 .. Len(t) : t[i] # End
  BY <1>0, <1>1 DEF SrpInv, InText
<1>4. ~Regular(t)
  <2>1. Len(t) >= 2 => Len(t) \in 1 .. Len(t)
    BY <1>3
  <2> QED
    BY <1>3, <2>1 DEF Regular
<1> QED
  BY <1>0, <1>2, <1>4, IsOver

-----------------------------------------------------------------------------
(* The identifiers' texts, whatever is built of them.                      *)
IInv == /\ task \in {"identifiers", "idkeywords", "expression"}
        /\ task # "expression" => SrpInv

LEMMA InitSrp ==
  ASSUME Init PROVE IInv
<1>1. CASE part = "parsed"
  BY <1>1 DEF Init, IInv
<1>2. CASE part = "id_begin"
  <2>1. /\ texts = [p \in Parts |-> <<>>] /\ sp = Start /\ look = NoLexem
        /\ failed = FALSE /\ task = "identifiers"
    BY <1>2 DEF Init, SrpInit
  <2>2. ~Malformed
    BY <1>2 DEF Malformed, Finished
  <2>3. texts["id_begin"] = <<>> /\ texts["id_body"] = <<>>
    BY <2>1 DEF Parts
  <2>4. InText(<<>>)
    BY <2>1, <2>2, SpoiltEmpty, LexemsApart DEF InText, Within, Start
  <2>5. texts \in [Parts -> Seq(Lexems)]
    BY <2>1
  <2> QED
    BY <1>2, <2>1, <2>3, <2>4, <2>5 DEF IInv, SrpInv, Parts
<1> QED
  BY <1>1, <1>2 DEF Init, SrpInit

LEMMA SrpKept ==
  ASSUME SrpInv, UNCHANGED srpVars
  PROVE  SrpInv'
<1>1. Malformed' <=> Malformed
  BY DEF Malformed, Finished, srpVars
<1>2. part \in Parts => (InText(texts[part])' <=> InText(texts[part]))
  BY <1>1 DEF InText, Within, Spoilt, Neighbours, Good, IsLetter, Allowed, Marks,
              srpVars
<1> QED
  BY <1>1, <1>2 DEF SrpInv, srpVars

LEMMA StepSrp ==
  ASSUME IInv, Next
  PROVE  IInv'
<1>1. CASE read_idents
  <2>1. task = "identifiers" /\ task' = task /\ SrpNext
    BY <1>1 DEF read_idents
  <2> QED
    BY <2>1, BeginExpr, BeginConcat, Concat, RunOut DEF SrpNext, IInv
<1>2. ASSUME UNCHANGED srpVars,
             task' = task \/ task = "identifiers",
             task' \in {"identifiers", "idkeywords", "expression"}
      PROVE  IInv'
  BY <1>2, SrpKept DEF IInv
<1>3. CASE generate_idents
  BY <1>2, <1>3 DEF generate_idents
<1>4. CASE UNCHANGED <<srpVars, task>>
  BY <1>2, <1>4 DEF IInv
<1>5. ~read_idents /\ ~generate_idents => UNCHANGED <<srpVars, task>>
  BY DEF Next, reject, H_is_d, T_is_TbE, E_is_EF, F_is_Gc, binary, Reduce,
         G_is_Ha, generate_expression, Build
<1> QED
  BY <1>1, <1>3, <1>4, <1>5

(* What has been counted of a text, and what is still to be.               *)
THEOREM Invariant == Spec => []IInv
<1>1. IInv /\ UNCHANGED vars => IInv'
  <2> SUFFICES ASSUME IInv, UNCHANGED vars PROVE IInv'
    OBVIOUS
  <2> QED
    BY SrpKept DEF IInv, vars
<1> QED
  BY <1>1, InitSrp, StepSrp, PTL DEF Spec

(* However long both texts of %idents are and whatever is skipped or given *)
(* back on the way, Simple_regex_parser counts an error if and only if one *)
(* of them is no expression (state_begin_expr_proc, state_begin_concat_proc,*)
(* state_concat_proc, compile).                                            *)
THEOREM MalformedAlwaysReported == Spec => []ReportsMalformed
<1>1. IInv => ReportsMalformed
  <2> SUFFICES ASSUME IInv, task = "identifiers", part = "parsed"
               PROVE  failed <=> ~ \A p \in Parts : WellFormed(texts[p])
    BY DEF ReportsMalformed
  <2>1. SrpInv
    BY DEF IInv
  <2>2. failed <=> \E p \in Parts : ~Regular(texts[p])
    BY <2>1 DEF SrpInv, Malformed, Finished
  <2>3. \A p \in Parts : WellFormed(texts[p]) <=> Regular(texts[p])
    BY <2>1, WellFormedIs DEF SrpInv
  <2> QED
    BY <2>2, <2>3
<1> QED
  BY <1>1, Invariant, PTL

-----------------------------------------------------------------------------
(* The buffer a text is compiled into: letters, and operators over what is *)
(* before them.                                                            *)
Multiconcat(j, k) == [Command("multiconcat") EXCEPT !.first = j, !.second = k]
Either(j, k)      == [Command("or") EXCEPT !.first = j, !.second = k]

Nodes == IdLetters \cup {Multiconcat(j, k) : j, k \in Nat}
                   \cup {Either(j, k) : j, k \in Nat}

GoodCom(com) == com \in IdLetters /\ com.cls \notin QuoteClasses

Ordered(b) ==
  /\ b \in Seq(Nodes)
  /\ \A i \in 1 .. Len(b) :
       \/ GoodCom(b[i])
       \/ \E j, k \in 1 .. i - 1 : b[i] = Multiconcat(j, k) \/ b[i] = Either(j, k)

(* first_charsR, and what it is of the command i.                          *)
Turn(b, g, i) ==
  LET com == b[i]
  IN CASE com.name = "or" -> Plus(g[com.first], g[com.second])
       [] com.name \in {"concat", "multiconcat"} \cup Unary -> g[com.first]
       [] OTHER -> command2category(com)

Starts(b, g) == g = [i \in 1 .. Len(b) |-> Turn(b, g, i)]

Upto(b, k) == SubSeq(b, 1, k)

LEMMA FirstIs ==
  ASSUME NEW b
  PROVE  first_chars(b) = (CHOOSE g : Starts(b, g))[Len(b)]
BY Zenon DEF first_chars, Starts, Turn

LEMMA TurnIs ==
  ASSUME NEW b, NEW g, NEW i
  PROVE  /\ GoodCom(b[i]) => Turn(b, g, i) = command2category(b[i])
         /\ \A j, k \in Nat : b[i] = Multiconcat(j, k) => Turn(b, g, i) = g[j]
         /\ \A j, k \in Nat : b[i] = Either(j, k) => Turn(b, g, i) = Plus(g[j], g[k])
<1>1. ASSUME GoodCom(b[i]) PROVE Turn(b, g, i) = command2category(b[i])
  <2>1. b[i].name \in {"char_def", "char_class_def"}
    BY <1>1, SrpAssumption DEF GoodCom, Char_def, Char_class_def, Command
  <2> QED
    BY <2>1 DEF Turn, Unary
<1>2. ASSUME NEW j \in Nat, NEW k \in Nat, b[i] = Multiconcat(j, k)
      PROVE  Turn(b, g, i) = g[j]
  <2>1. b[i].name = "multiconcat" /\ b[i].first = j
    BY <1>2 DEF Multiconcat, Command
  <2> QED
    BY <2>1 DEF Turn, Unary
<1>3. ASSUME NEW j \in Nat, NEW k \in Nat, b[i] = Either(j, k)
      PROVE  Turn(b, g, i) = Plus(g[j], g[k])
  <2>1. b[i].name = "or" /\ b[i].first = j /\ b[i].second = k
    BY <1>3 DEF Either, Command
  <2> QED
    BY <2>1 DEF Turn, Unary
<1> QED
  BY <1>1, <1>2, <1>3

(* A letter that is no class of quotes begins with what it stands for.     *)
LEMMA LetterBegins ==
  ASSUME NEW com, GoodCom(com)
  PROVE  command2category(com) = Set_of_cs(Letters(unwrap(com)))
<1>1. CASE \E c \in Chars : com = Char_def(c)
  <2>1. PICK c \in Chars : com = Char_def(c)
    BY <1>1
  <2>2. com.name = "char_def" /\ com.c = c /\ com.cls = "none"
    BY <2>1 DEF Char_def, Command
  <2>3. unwrap(com).kind = "char_def" /\ unwrap(com).s = {c}
    BY <2>2 DEF unwrap
  <2>4. Letters(unwrap(com)) = {c}
    BY <2>3 DEF Letters
  <2> QED
    BY <2>2, <2>4 DEF command2category
<1>2. CASE \E cls \in Classes : com = Char_class_def(cls)
  <2>1. PICK cls \in Classes : com = Char_class_def(cls)
    BY <1>2
  <2>2. com.name = "char_class_def" /\ com.cls = cls /\ cls \notin QuoteClasses
    BY <2>1 DEF Char_class_def, Command, GoodCom
  <2>3. unwrap(com).kind = "multior" /\ unwrap(com).s = char_classes[cls]
    BY <2>2 DEF unwrap
  <2>4. Letters(unwrap(com)) = char_classes[cls]
    BY <2>3 DEF Letters
  <2> QED
    BY <2>2, <2>4 DEF command2category, QuoteClasses
<1> QED
  BY <1>1, <1>2, SrpAssumption DEF GoodCom

(* A command looks only at commands before it.                             *)
LEMMA TurnKept ==
  ASSUME NEW b, Ordered(b), NEW c, NEW i \in 1 .. Len(b), c[i] = b[i],
         NEW g, NEW h, \A k \in 1 .. i - 1 : g[k] = h[k]
  PROVE  Turn(b, g, i) = Turn(c, h, i)
<1>1. CASE GoodCom(b[i])
  BY <1>1, TurnIs
<1>2. CASE \E j, k \in 1 .. i - 1 : b[i] = Multiconcat(j, k) \/ b[i] = Either(j, k)
  <2>1. PICK j \in 1 .. i - 1, k \in 1 .. i - 1 :
          b[i] = Multiconcat(j, k) \/ b[i] = Either(j, k)
    BY <1>2
  <2>2. j \in Nat /\ k \in Nat
    OBVIOUS
  <2>3. g[j] = h[j] /\ g[k] = h[k]
    OBVIOUS
  <2>4. CASE b[i] = Multiconcat(j, k)
    <3>1. Turn(b, g, i) = g[j] /\ Turn(c, h, i) = h[j]
      BY <2>2, <2>4, TurnIs
    <3> QED
      BY <2>3, <3>1
  <2>5. CASE b[i] = Either(j, k)
    <3>1. /\ Turn(b, g, i) = Plus(g[j], g[k])
          /\ Turn(c, h, i) = Plus(h[j], h[k])
      BY <2>2, <2>5, TurnIs
    <3> QED
      BY <2>3, <3>1
  <2> QED
    BY <2>1, <2>4, <2>5
<1> QED
  BY <1>1, <1>2 DEF Ordered

LEMMA OrderedUpto ==
  ASSUME NEW b, Ordered(b), NEW k \in 0 .. Len(b)
  PROVE  /\ Ordered(Upto(b, k)) /\ Len(Upto(b, k)) = k
         /\ \A i \in 1 .. k : Upto(b, k)[i] = b[i] /\ i \in 1 .. Len(b)
<1>1. b \in Seq(Nodes) /\ Len(b) \in Nat
  BY DEF Ordered
<1>2. /\ Upto(b, k) \in Seq(Nodes) /\ Len(Upto(b, k)) = k
      /\ \A i \in 1 .. k : Upto(b, k)[i] = b[i] /\ i \in 1 .. Len(b)
  BY <1>1 DEF Upto
<1> QED
  BY <1>2 DEF Ordered

LEMMA StartsExist ==
  ASSUME NEW b, Ordered(b)
  PROVE  \E g : Starts(b, g)
<1> DEFINE T == {k \in 0 .. Len(b) : ~ \E g : Starts(Upto(b, k), g)}
<1>0. b \in Seq(Nodes) /\ Len(b) \in Nat
  BY DEF Ordered
<1>1. CASE T = {}
  <2>1. PICK g : Starts(Upto(b, Len(b)), g)
    BY <1>0, <1>1
  <2>2. Upto(b, Len(b)) = b
    BY <1>0 DEF Upto
  <2> QED
    BY <2>1, <2>2
<1>2. CASE T # {}
  <2>1. PICK m \in T : \A y \in T : m <= y
    <3>1. T \subseteq Nat
      BY <1>0
    <3> HIDE DEF T
    <3> QED
      BY <1>2, <3>1, FirstOf
  <2>2. CASE m = 0
    <3> DEFINE c == Upto(b, 0)
               g == [i \in 1 .. 0 |-> 0]
    <3>1. Len(c) = 0
      BY <1>0, OrderedUpto
    <3> HIDE DEF c
    <3>2. g = [i \in 1 .. Len(c) |-> Turn(c, g, i)]
      <4>1. 1 .. 0 = {}
        OBVIOUS
      <4> QED
        BY <3>1, <4>1
    <3>3. Starts(c, g)
      BY <3>2 DEF Starts
    <3> QED
      BY <2>1, <2>2, <3>3 DEF c
  <2>3. CASE m # 0
    <3>1. m - 1 \in 0 .. Len(b) /\ m \in 1 .. Len(b) /\ ~(m <= m - 1)
      BY <1>0, <2>1, <2>3
    <3>2. PICK f : Starts(Upto(b, m - 1), f)
      BY <2>1, <3>1
    <3>3. PICK c, a : c = Upto(b, m) /\ a = Upto(b, m - 1)
      OBVIOUS
    <3>4. /\ Ordered(c) /\ Len(c) = m
          /\ Ordered(a) /\ Len(a) = m - 1
          /\ \A i \in 1 .. m - 1 : a[i] = c[i]
      <4>1. \A i \in 1 .. m - 1 : i \in 1 .. m
        BY <3>1
      <4> QED
        BY <3>1, <3>3, <4>1, OrderedUpto
    <3> DEFINE g == [i \in 1 .. m |-> IF i = m THEN Turn(c, f, m) ELSE f[i]]
    <3>5. ASSUME NEW i \in 1 .. m PROVE g[i] = Turn(c, g, i)
      <4>1. \A k \in 1 .. i - 1 : f[k] = g[k]
        BY <3>1
      <4>2. CASE i = m
        <5>1. g[i] = Turn(c, f, i)
          BY <4>2
        <5> HIDE DEF g
        <5> QED
          BY <3>4, <4>1, <5>1, TurnKept, ZenonT(40)
      <4>3. CASE i # m
        <5>1. i \in 1 .. m - 1 /\ g[i] = f[i]
          BY <3>1, <4>3
        <5>2. f[i] = Turn(a, f, i)
          <6>1. f = [k \in 1 .. Len(a) |-> Turn(a, f, k)]
            BY <3>2, <3>3 DEF Starts
          <6> QED
            BY <3>4, <5>1, <6>1
        <5> HIDE DEF g
        <5>3. Turn(a, f, i) = Turn(c, g, i)
          BY <3>4, <4>1, <5>1, TurnKept
        <5> QED
          BY <5>1, <5>2, <5>3
      <4> QED
        BY <4>2, <4>3
    <3>6. g = [i \in 1 .. m |-> Turn(c, g, i)]
      BY <3>5
    <3> HIDE DEF g
    <3>7. Starts(c, g)
      BY <3>4, <3>6 DEF Starts
    <3> QED
      BY <2>1, <3>3, <3>7
  <2> QED
    BY <2>2, <2>3
<1> QED
  BY <1>1, <1>2

LEMMA StartsAlone ==
  ASSUME NEW b, Ordered(b), NEW g, NEW h, Starts(b, g), Starts(b, h)
  PROVE  g = h
<1> DEFINE T == {k \in 1 .. Len(b) : g[k] # h[k]}
<1>0. b \in Seq(Nodes) /\ Len(b) \in Nat
  BY DEF Ordered
<1>1. /\ g = [i \in 1 .. Len(b) |-> Turn(b, g, i)]
      /\ h = [i \in 1 .. Len(b) |-> Turn(b, h, i)]
  BY DEF Starts
<1>2. CASE T = {}
  <2>1. \A i \in 1 .. Len(b) : Turn(b, g, i) = Turn(b, h, i)
    BY <1>1, <1>2
  <2> QED
    BY <1>1, <2>1
<1>3. CASE T # {}
  <2>1. PICK m \in T : \A y \in T : m <= y
    <3>1. T \subseteq Nat
      BY <1>0
    <3> HIDE DEF T
    <3> QED
      BY <1>3, <3>1, FirstOf
  <2>2. m \in 1 .. Len(b) /\ g[m] # h[m]
    BY <2>1
  <2>3. ASSUME NEW k \in 1 .. m - 1 PROVE g[k] = h[k]
    <3>1. k \in 1 .. Len(b) /\ ~(m <= k)
      BY <1>0, <2>2
    <3> QED
      BY <2>1, <3>1
  <2>4. Turn(b, g, m) = Turn(b, h, m)
    BY <2>2, <2>3, TurnKept
  <2> QED
    BY <1>1, <2>2, <2>4
<1> QED
  BY <1>2, <1>3

(* first_charsR of a command is first_chars of the buffer up to it.        *)
LEMMA FirstUpto ==
  ASSUME NEW b, Ordered(b), NEW g, Starts(b, g), NEW k \in 1 .. Len(b)
  PROVE  first_chars(Upto(b, k)) = g[k]
<1>1. PICK c : c = Upto(b, k)
  OBVIOUS
<1>2. /\ Ordered(c) /\ Len(c) = k /\ Len(b) \in Nat
      /\ \A i \in 1 .. k : c[i] = b[i] /\ i \in 1 .. Len(b)
  <2>1. k \in 0 .. Len(b) /\ Len(b) \in Nat
    BY DEF Ordered
  <2> QED
    BY <1>1, <2>1, OrderedUpto
<1> DEFINE h == [i \in 1 .. k |-> g[i]]
<1>3. ASSUME NEW i \in 1 .. k PROVE h[i] = Turn(c, h, i)
  <2>1. h[i] = g[i] /\ \A j \in 1 .. i - 1 : g[j] = h[j]
    BY <1>2
  <2>2. g[i] = Turn(b, g, i)
    <3>1. g = [j \in 1 .. Len(b) |-> Turn(b, g, j)]
      BY DEF Starts
    <3> QED
      BY <1>2, <3>1
  <2> HIDE DEF h
  <2>3. Turn(b, g, i) = Turn(c, h, i)
    BY <1>2, <2>1, TurnKept, SMTT(30)
  <2> QED
    BY <2>1, <2>2, <2>3
<1>4. h = [i \in 1 .. k |-> Turn(c, h, i)]
  BY <1>3
<1>5. h[k] = g[k]
  OBVIOUS
<1> HIDE DEF h
<1>6. Starts(c, h)
  BY <1>2, <1>4 DEF Starts
<1>7. Starts(c, CHOOSE f : Starts(c, f))
  BY <1>6
<1>8. (CHOOSE f : Starts(c, f)) = h
  BY <1>2, <1>6, <1>7, StartsAlone
<1> QED
  BY <1>1, <1>2, <1>5, <1>8, FirstIs

(* What one command more begins with.                                      *)
LEMMA FirstAppended ==
  ASSUME NEW b, NEW com, Ordered(b), Ordered(Append(b, com))
  PROVE  /\ GoodCom(com)
             => first_chars(Append(b, com)) = command2category(com)
         /\ \A j, k \in 1 .. Len(b) :
              com = Multiconcat(j, k)
                => first_chars(Append(b, com)) = first_chars(Upto(b, j))
         /\ \A j, k \in 1 .. Len(b) :
              com = Either(j, k)
                => first_chars(Append(b, com))
                     = Plus(first_chars(Upto(b, j)), first_chars(Upto(b, k)))
         /\ \A k \in 0 .. Len(b) : Upto(Append(b, com), k) = Upto(b, k)
<1>1. PICK c : c = Append(b, com)
  OBVIOUS
<1>2. PICK g : Starts(c, g)
  BY <1>1, StartsExist
<1>3. PICK n : n = Len(c)
  OBVIOUS
<1>4. /\ c \in Seq(Nodes) /\ b \in Seq(Nodes) /\ n = Len(b) + 1 /\ Len(b) \in Nat
      /\ n \in 1 .. Len(c) /\ c[n] = com
  <2>1. c \in Seq(Nodes) /\ b \in Seq(Nodes)
    BY <1>1 DEF Ordered
  <2>2. Len(c) = Len(b) + 1 /\ c[Len(b) + 1] = com
    BY <1>1, <2>1
  <2> QED
    BY <1>3, <2>1, <2>2
<1>5. first_chars(c) = g[n] /\ g[n] = Turn(c, g, n)
  <2>1. Upto(c, Len(c)) = c
    BY <1>4 DEF Upto
  <2>2. g = [i \in 1 .. Len(c) |-> Turn(c, g, i)]
    BY <1>2 DEF Starts
  <2>3. first_chars(Upto(c, n)) = g[n]
    BY <1>1, <1>2, <1>4, FirstUpto
  <2>4. g[n] = Turn(c, g, n)
    BY <1>4, <2>2
  <2> QED
    BY <1>3, <2>1, <2>3, <2>4
<1>6. \A k \in 0 .. Len(b) : Upto(c, k) = Upto(b, k)
  BY <1>1, <1>4 DEF Upto
<1>7. ASSUME NEW k \in 1 .. Len(b)
      PROVE  g[k] = first_chars(Upto(b, k)) /\ k \in Nat
  <2>1. k \in 1 .. Len(c) /\ k \in 0 .. Len(b) /\ k \in Nat
    BY <1>3, <1>4
  <2> QED
    BY <1>1, <1>2, <1>6, <2>1, FirstUpto
<1>8. GoodCom(com) => first_chars(c) = command2category(com)
  BY <1>4, <1>5, TurnIs
<1>9. \A j, k \in 1 .. Len(b) :
        com = Multiconcat(j, k) => first_chars(c) = first_chars(Upto(b, j))
  BY <1>4, <1>5, <1>7, TurnIs
<1>10. \A j, k \in 1 .. Len(b) :
         com = Either(j, k)
           => first_chars(c)
                = Plus(first_chars(Upto(b, j)), first_chars(Upto(b, k)))
  BY <1>4, <1>5, <1>7, TurnIs
<1> QED
  BY <1>1, <1>6, <1>8, <1>9, <1>10

-----------------------------------------------------------------------------
(* What is known of the first characters while the beginning is read.      *)

(* The places before the first lexemes of alternatives.                    *)
Opens(t) == {i \in 1 .. Len(t) - 1 : t[i] \in {Begin, Bar}}

(* The alternatives of t begin with characters of c.                       *)
Begun(t, c) ==
  /\ IsSet(c)
  /\ \A i \in Opens(t) : Letters(unwrap(t[i + 1].com)) \subseteq c.s

(* What the alternatives so far begin with, the last one not being over.   *)
Found(b) ==
  LET c == command2category(b[sp.first_concatenated])
  IN IF sp.number_of_ors = 0 THEN c ELSE Plus(first_chars(Upto(b, sp.arg1)), c)

Fields == [state : {"State_begin_expr", "State_begin_concat", "State_concat"},
           number_of_ors : Nat, first_concatenated : Nat,
           number_of_concatenated : Nat, arg1 : Nat]

Compiled(t, b) ==
  /\ Ordered(b)
  /\ sp \in Fields
  /\ sp.number_of_ors # 0 => /\ sp.arg1 \in 1 .. Len(b)
                             /\ IsSet(first_chars(Upto(b, sp.arg1)))
  /\ sp.state = "State_begin_expr"
       => t = <<>> /\ b = <<>> /\ sp.number_of_ors = 0
  /\ sp.state = "State_begin_concat"
       => /\ sp.number_of_ors = 0 => Opens(t) = {}
          /\ sp.number_of_ors # 0 => sp.arg1 = Len(b) /\ Begun(t, first_chars(b))
  /\ sp.state = "State_concat"
       => /\ t # <<>> /\ t[Len(t)] \notin {Begin, Bar}
          /\ sp.first_concatenated \in 1 .. Len(b)
          /\ sp.number_of_concatenated = Len(b) - sp.first_concatenated + 1
          /\ sp.number_of_ors # 0 => sp.arg1 < sp.first_concatenated
          /\ GoodCom(b[sp.first_concatenated])
          /\ Begun(t, Found(b))

BufInv ==
  ~failed
    => /\ look = NoLexem /\ DOMAIN bufs = Parts
       /\ part = "id_begin" => Compiled(texts["id_begin"], bufs["id_begin"])
       /\ part # "id_begin" => Begun(texts["id_begin"],
                                     first_chars(bufs["id_begin"]))

LEMMA OrderedAppended ==
  ASSUME NEW b, Ordered(b), NEW com,
         \/ GoodCom(com)
         \/ \E j, k \in 1 .. Len(b) : com = Multiconcat(j, k) \/ com = Either(j, k)
  PROVE  /\ Ordered(Append(b, com)) /\ Len(Append(b, com)) = Len(b) + 1
         /\ Append(b, com)[Len(b) + 1] = com
         /\ \A i \in 1 .. Len(b) : Append(b, com)[i] = b[i]
<1>1. com \in Nodes
  <2>1. \A k \in 1 .. Len(b) : k \in Nat
    OBVIOUS
  <2> QED
    BY <2>1 DEF Nodes, GoodCom
<1>2. b \in Seq(Nodes) /\ Len(b) \in Nat
  BY DEF Ordered
<1>3. PICK c : c = Append(b, com)
  OBVIOUS
<1>4. /\ c \in Seq(Nodes) /\ Len(c) = Len(b) + 1 /\ c[Len(b) + 1] = com
      /\ \A i \in 1 .. Len(b) : c[i] = b[i]
  BY <1>1, <1>2, <1>3
<1>5. ASSUME NEW i \in 1 .. Len(c)
      PROVE  \/ GoodCom(c[i])
             \/ \E j, k \in 1 .. i - 1 :
                  c[i] = Multiconcat(j, k) \/ c[i] = Either(j, k)
  <2>1. CASE i = Len(b) + 1
    <3>1. c[i] = com /\ i - 1 = Len(b)
      BY <1>2, <1>4, <2>1
    <3> QED
      BY <3>1
  <2>2. CASE i # Len(b) + 1
    <3>1. i \in 1 .. Len(b) /\ c[i] = b[i]
      BY <1>2, <1>4, <2>2
    <3> QED
      BY <3>1 DEF Ordered
  <2> QED
    BY <2>1, <2>2
<1> QED
  BY <1>3, <1>4, <1>5 DEF Ordered

LEMMA UptoAll ==
  ASSUME NEW b, Ordered(b) PROVE Upto(b, Len(b)) = b
BY DEF Ordered, Upto

(* The commands of an alternative that ends begin as its first letter and  *)
(* the alternatives before it do.                                          *)
LEMMA AlternativeIs ==
  ASSUME NEW t, NEW b, Compiled(t, b), sp.state = "State_concat",
         NEW c, c = write_or_command(write_concatenated(b))
  PROVE  /\ Ordered(c) /\ Len(c) \in Nat /\ Len(c) # 0
         /\ first_chars(c) = Found(b)
<1>1. PICK k, n, m, q :
        /\ k = sp.first_concatenated /\ n = sp.number_of_concatenated
        /\ m = sp.number_of_ors /\ q = sp.arg1
  OBVIOUS
<1>2. /\ Ordered(b) /\ k \in 1 .. Len(b) /\ n = Len(b) - k + 1
      /\ m \in Nat /\ (m # 0 => q \in 1 .. k - 1)
      /\ GoodCom(b[k]) /\ Len(b) \in Nat /\ b \in Seq(Nodes)
  <2>1. Ordered(b) /\ b \in Seq(Nodes) /\ Len(b) \in Nat
    BY DEF Compiled, Ordered
  <2>2. k \in 1 .. Len(b) /\ n = Len(b) - k + 1 /\ GoodCom(b[k])
    BY <1>1 DEF Compiled
  <2>3. m \in Nat
    BY <1>1 DEF Compiled, Fields
  <2>4. m # 0 => q \in 1 .. Len(b) /\ q < k
    BY <1>1 DEF Compiled
  <2> QED
    BY <2>1, <2>2, <2>3, <2>4
<1>3. PICK d : d = write_concatenated(b)
  OBVIOUS
<1>4. /\ Ordered(d) /\ first_chars(d) = command2category(b[k])
      /\ Len(d) \in Nat /\ Len(d) >= Len(b)
      /\ \A i \in 0 .. k - 1 : Upto(d, i) = Upto(b, i)
  <2>1. CASE n > 1
    <3>1. d = Append(b, Multiconcat(k, Len(b)))
      <4>1. sp.number_of_concatenated > 1
        BY <1>1, <2>1
      <4>2. d = Append(b, Multiconcat(sp.first_concatenated, Len(b)))
        BY <1>3, <4>1, Zenon DEF write_concatenated, Multiconcat
      <4> QED
        BY <1>1, <4>2
    <3>2. Len(b) \in 1 .. Len(b)
      BY <1>2
    <3>3. Ordered(d) /\ Len(d) = Len(b) + 1
      BY <1>2, <3>1, <3>2, OrderedAppended
    <3>4. /\ first_chars(d) = first_chars(Upto(b, k))
          /\ \A i \in 0 .. Len(b) : Upto(d, i) = Upto(b, i)
      BY <1>2, <3>1, <3>2, <3>3, FirstAppended
    <3>5. \A i \in 0 .. k - 1 : i \in 0 .. Len(b)
      BY <1>2
    <3>6. first_chars(Upto(b, k)) = command2category(b[k])
      <4>1. PICK g : Starts(b, g)
        BY <1>2, StartsExist
      <4>2. first_chars(Upto(b, k)) = g[k]
        BY <1>2, <4>1, FirstUpto
      <4>3. g[k] = Turn(b, g, k)
        <5>1. g = [i \in 1 .. Len(b) |-> Turn(b, g, i)]
          BY <4>1 DEF Starts
        <5> QED
          BY <1>2, <5>1
      <4> QED
        BY <1>2, <4>2, <4>3, TurnIs
    <3> QED
      BY <1>2, <3>3, <3>4, <3>5, <3>6
  <2>2. CASE ~(n > 1)
    <3>1. d = b /\ k = Len(b)
      <4>1. ~(sp.number_of_concatenated > 1)
        BY <1>1, <2>2
      <4>2. d = b
        BY <1>3, <4>1, Zenon DEF write_concatenated
      <4>3. k = Len(b)
        BY <1>2, <2>2
      <4> QED
        BY <4>2, <4>3
    <3>2. first_chars(Upto(b, k)) = command2category(b[k])
      <4>1. PICK g : Starts(b, g)
        BY <1>2, StartsExist
      <4>2. first_chars(Upto(b, k)) = g[k]
        BY <1>2, <4>1, FirstUpto
      <4>3. g[k] = Turn(b, g, k)
        <5>1. g = [i \in 1 .. Len(b) |-> Turn(b, g, i)]
          BY <4>1 DEF Starts
        <5> QED
          BY <1>2, <5>1
      <4> QED
        BY <1>2, <4>2, <4>3, TurnIs
    <3> QED
      BY <1>2, <3>1, <3>2, UptoAll
  <2> QED
    BY <2>1, <2>2
<1>5. Found(b) = IF m = 0 THEN command2category(b[k])
                 ELSE Plus(first_chars(Upto(b, q)), command2category(b[k]))
  BY <1>1 DEF Found
<1>6. CASE m = 0
  <2>1. c = d
    BY <1>1, <1>3, <1>6 DEF write_or_command
  <2> QED
    BY <1>2, <1>4, <1>5, <1>6, <2>1
<1>7. CASE m # 0
  <2>1. c = Append(d, Either(q, Len(d)))
    <3>1. sp.number_of_ors # 0
      BY <1>1, <1>7
    <3>2. c = Append(d, Either(sp.arg1, Len(d)))
      BY <1>3, <3>1, Zenon DEF write_or_command, Either
    <3> QED
      BY <1>1, <3>2
  <2>2. q \in 1 .. Len(d) /\ Len(d) \in 1 .. Len(d) /\ q \in 0 .. k - 1
    BY <1>2, <1>4, <1>7
  <2>3. Ordered(c) /\ Len(c) = Len(d) + 1
    BY <1>4, <2>1, <2>2, OrderedAppended
  <2>4. first_chars(c) = Plus(first_chars(Upto(d, q)),
                              first_chars(Upto(d, Len(d))))
    BY <1>4, <2>1, <2>2, <2>3, FirstAppended
  <2>5. Upto(d, q) = Upto(b, q) /\ Upto(d, Len(d)) = d
    BY <1>4, <2>2, UptoAll
  <2> QED
    BY <1>4, <1>5, <1>7, <2>3, <2>4, <2>5
<1> QED
  BY <1>6, <1>7

(* One lexeme more.                                                        *)
OneMore(t, l, u) ==
  /\ Len(u) = Len(t) + 1 /\ u # <<>> /\ u[Len(u)] = l
  /\ \A i \in Opens(u) : \/ i \in Opens(t) /\ u[i + 1] = t[i + 1]
                         \/ u[i + 1] = l
  /\ t # <<>> /\ t[Len(t)] \notin {Begin, Bar}
       => \A i \in Opens(u) : i \in Opens(t) /\ u[i + 1] = t[i + 1]

LEMMA OpensAppended ==
  ASSUME NEW t \in Seq(Lexems), NEW l \in Lexems
  PROVE  OneMore(t, l, Append(t, l))
<1>0. PICK u : u = Append(t, l)
  OBVIOUS
<1>1. /\ Len(u) = Len(t) + 1 /\ u[Len(t) + 1] = l /\ Len(t) \in Nat
      /\ \A k \in 1 .. Len(t) : u[k] = t[k]
      /\ u # <<>>
  BY <1>0
<1>2. ASSUME NEW i \in Opens(u)
      PROVE  \/ i \in Opens(t) /\ u[i + 1] = t[i + 1]
             \/ i = Len(t) /\ t[i] \in {Begin, Bar} /\ u[i + 1] = l
  <2>1. i \in 1 .. Len(t) /\ u[i] \in {Begin, Bar}
    BY <1>1 DEF Opens
  <2>2. u[i] = t[i]
    BY <1>1, <2>1
  <2>3. CASE i = Len(t)
    BY <1>1, <2>1, <2>2, <2>3
  <2>4. CASE i # Len(t)
    <3>1. i \in 1 .. Len(t) - 1 /\ i + 1 \in 1 .. Len(t)
      BY <1>1, <2>1, <2>4
    <3>2. u[i + 1] = t[i + 1]
      BY <1>1, <3>1
    <3> QED
      BY <2>1, <2>2, <3>1, <3>2 DEF Opens
  <2> QED
    BY <2>3, <2>4
<1>3. \A i \in Opens(u) : \/ i \in Opens(t) /\ u[i + 1] = t[i + 1]
                          \/ u[i + 1] = l
  BY <1>2
<1>4. t # <<>> /\ t[Len(t)] \notin {Begin, Bar}
        => \A i \in Opens(u) : i \in Opens(t) /\ u[i + 1] = t[i + 1]
  BY <1>2
<1>5. OneMore(t, l, u)
  BY <1>1, <1>3, <1>4 DEF OneMore
<1> QED
  BY <1>0, <1>5

LEMMA PlusOfSets ==
  ASSUME NEW c, NEW d, IsSet(c), IsSet(d)
  PROVE  /\ IsSet(Plus(c, d)) /\ c.s \subseteq Plus(c, d).s
         /\ d.s \subseteq Plus(c, d).s
<1>0. c # All_chars /\ d # All_chars
  BY DEF IsSet, All_chars, Category
<1>1. Plus(c, d) = Set_of_cs(c.s \cup d.s)
  BY <1>0 DEF Plus
<1> QED
  BY <1>1 DEF IsSet, Set_of_cs

(* The second text leaves alone what is known of the first.                *)
LEMMA BodyRead ==
  ASSUME SrpInv, BufInv, part \in Parts, part # "id_begin", ~failed,
         NEW t, Written(t), part' # "id_begin", look' = NoLexem,
         \/ UNCHANGED bufs
         \/ \E b : bufs' = [bufs EXCEPT ![part] = b]
  PROVE  BufInv'
<1>1. texts'["id_begin"] = texts["id_begin"]
  BY DEF Written, Parts
<1>2. bufs'["id_begin"] = bufs["id_begin"] /\ DOMAIN bufs' = Parts
  BY DEF BufInv, Parts
<1>3. first_chars(bufs'["id_begin"]) = first_chars(bufs["id_begin"])
  BY <1>2
<1>4. Begun(texts["id_begin"], first_chars(bufs["id_begin"]))
  BY DEF BufInv
<1> QED
  BY <1>1, <1>2, <1>3, <1>4 DEF BufInv

(* Before an error is counted every lexeme is read from the text.          *)
LEMMA LexemTaken ==
  ASSUME SrpInv, BufInv, part \in Parts, ~failed, NEW l \in Upcoming \ {Eof},
         current_lexem(l)
  PROVE  /\ l \in Lexems /\ texts[part] \in Seq(Lexems)
         /\ Written(Append(texts[part], l))
<1>1. look = NoLexem
  BY DEF BufInv
<1>2. l \in Lexems
  BY <1>1 DEF Upcoming
<1>3. Written(Append(texts[part], l))
  BY <1>1, <1>2, LexemRead
<1> QED
  BY <1>2, <1>3 DEF SrpInv

LEMMA BufBeginExpr ==
  ASSUME SrpInv, BufInv, state_begin_expr_proc
  PROVE  BufInv'
<1> SUFFICES ASSUME ~failed' PROVE BufInv'
  BY DEF BufInv
<1>0. part \in Parts /\ sp.state = "State_begin_expr" /\ bufs' = bufs
  BY DEF state_begin_expr_proc, Reading
<1>1. PICK l \in Upcoming \ {Eof} :
        /\ current_lexem(l)
        /\ look' = IF IsLetter(l) THEN l ELSE NoLexem
        /\ failed' = (failed \/ l # Begin)
        /\ IF l = End THEN Return
           ELSE /\ sp' = [sp EXCEPT !.state = "State_begin_concat"]
                /\ UNCHANGED part
  BY DEF state_begin_expr_proc
<1>2. ~failed /\ l = Begin
  BY <1>1
<1>3. /\ look' = NoLexem /\ UNCHANGED part
      /\ sp' = [sp EXCEPT !.state = "State_begin_concat"]
  BY <1>1, <1>2, LexemsApart DEF Marks
<1>4. Written(Append(texts[part], l)) /\ l \in Lexems
  BY <1>0, <1>1, <1>2, LexemTaken
<1>5. CASE part # "id_begin"
  BY <1>0, <1>2, <1>3, <1>4, <1>5, BodyRead
<1>6. CASE part = "id_begin"
  <2>1. Compiled(texts["id_begin"], bufs["id_begin"])
    BY <1>2, <1>6 DEF BufInv
  <2>2. /\ texts["id_begin"] = <<>> /\ bufs["id_begin"] = <<>>
        /\ sp.number_of_ors = 0 /\ sp \in Fields
    BY <1>0, <2>1 DEF Compiled
  <2>3. texts'["id_begin"] = <<l>>
    BY <1>4, <1>6, <2>2 DEF Written
  <2>4. Opens(<<l>>) = {}
    BY DEF Opens
  <2>5. /\ sp' \in Fields /\ sp'.number_of_ors = 0
        /\ sp'.state = "State_begin_concat"
    BY <1>3, <2>2 DEF Fields
  <2>6. Ordered(<<>>)
    BY DEF Ordered
  <2>7. Compiled(<<l>>, <<>>)'
    BY <2>4, <2>5, <2>6 DEF Compiled
  <2>8. DOMAIN bufs' = Parts /\ bufs'["id_begin"] = <<>>
    BY <1>0, <1>2, <2>2 DEF BufInv
  <2> QED
    BY <1>3, <1>6, <2>3, <2>7, <2>8 DEF BufInv
<1> QED
  BY <1>5, <1>6

LEMMA BufBeginConcat ==
  ASSUME SrpInv, BufInv, state_begin_concat_proc
  PROVE  BufInv'
<1> SUFFICES ASSUME ~failed' PROVE BufInv'
  BY DEF BufInv
<1>0. part \in Parts /\ sp.state = "State_begin_concat" /\ look' = NoLexem
  BY DEF state_begin_concat_proc, Reading
<1>1. PICK l \in Upcoming \ {Eof} :
        /\ current_lexem(l)
        /\ failed' = (failed \/ no_alternative(l))
        /\ IF IsLetter(l)
           THEN LET b == Append(bufs[part], l.com)
                IN /\ bufs' = [bufs EXCEPT ![part] = b]
                   /\ sp' = [sp EXCEPT !.state = "State_concat",
                                       !.first_concatenated = Len(b),
                                       !.number_of_concatenated = 1]
                   /\ UNCHANGED part
           ELSE /\ IF l = End THEN Return ELSE UNCHANGED <<part, sp>>
                /\ UNCHANGED bufs
  BY DEF state_begin_concat_proc
<1>2. ~failed /\ IsLetter(l) /\ Allowed(l)
  BY <1>1 DEF no_alternative
<1>3. PICK c : c = Append(bufs[part], l.com)
  OBVIOUS
<1>4. /\ bufs' = [bufs EXCEPT ![part] = c] /\ UNCHANGED part
      /\ sp' = [sp EXCEPT !.state = "State_concat",
                          !.first_concatenated = Len(c),
                          !.number_of_concatenated = 1]
  BY <1>1, <1>2, <1>3
<1>5. /\ Written(Append(texts[part], l)) /\ l \in Lexems
      /\ texts[part] \in Seq(Lexems)
  BY <1>0, <1>1, <1>2, LexemTaken
<1>6. CASE part # "id_begin"
  BY <1>0, <1>2, <1>4, <1>5, <1>6, BodyRead
<1>7. CASE part = "id_begin"
  <2>1. PICK t, u, b, m, q :
          /\ t = texts["id_begin"] /\ u = Append(t, l) /\ b = bufs["id_begin"]
          /\ m = sp.number_of_ors /\ q = sp.arg1
    OBVIOUS
  <2>2. Compiled(t, b)
    BY <1>2, <1>7, <2>1 DEF BufInv
  <2>3. /\ Ordered(b) /\ sp \in Fields /\ m \in Nat
        /\ m = 0 => Opens(t) = {}
        /\ m # 0 => /\ q \in 1 .. Len(b) /\ q = Len(b)
                    /\ Begun(t, first_chars(b))
    BY <1>0, <2>1, <2>2 DEF Compiled, Fields
  <2>4. GoodCom(l.com) /\ l \notin {Begin, Bar}
    <3>1. l \notin Marks
      BY <1>2, LexemsApart
    <3>2. \A com \in IdLetters : Letter(com).com = com
      BY DEF Letter
    <3>3. l.com \in IdLetters
      BY <1>2, <1>5, <3>1, <3>2, LexemsApart DEF Lexems, Marks
    <3> QED
      BY <1>2, <3>1, <3>3 DEF GoodCom, Allowed, Marks
  <2>5. c = Append(b, l.com)
    BY <1>3, <1>7, <2>1
  <2>6. /\ Ordered(c) /\ Len(c) = Len(b) + 1 /\ c[Len(c)] = l.com
        /\ Len(b) \in Nat
    <3>1. Len(b) \in Nat
      BY <2>3 DEF Ordered
    <3>2. Ordered(c) /\ Len(c) = Len(b) + 1 /\ c[Len(b) + 1] = l.com
      BY <2>3, <2>4, <2>5, OrderedAppended
    <3> QED
      BY <3>1, <3>2
  <2>7. /\ texts'["id_begin"] = u /\ bufs'["id_begin"] = c
        /\ DOMAIN bufs' = Parts
    <3>1. DOMAIN bufs = Parts
      BY <1>2 DEF BufInv
    <3> QED
      BY <1>4, <1>5, <1>7, <2>1, <3>1 DEF Written, Parts
  <2>8. /\ sp' \in Fields /\ sp'.state = "State_concat"
        /\ sp'.first_concatenated = Len(c) /\ sp'.number_of_concatenated = 1
        /\ sp'.number_of_ors = m /\ sp'.arg1 = q
    <3>1. Len(c) \in Nat
      BY <2>6
    <3> QED
      BY <1>4, <2>1, <2>3, <3>1 DEF Fields
  <2>9. m # 0 => Upto(c, q) = b
    <3>1. m # 0 => Upto(c, q) = Upto(b, q) /\ Upto(b, q) = b
      <4>1. m # 0 => q \in 0 .. Len(b)
        BY <2>3, <2>6
      <4> QED
        BY <2>3, <2>5, <2>6, <4>1, FirstAppended, UptoAll
    <3> QED
      BY <3>1
  <2>10. PICK d : d = command2category(l.com)
    OBVIOUS
  <2>11. d = Set_of_cs(Letters(unwrap(l.com)))
    BY <2>4, <2>10, LetterBegins
  <2>12. IsSet(d) /\ d.s = Letters(unwrap(l.com))
    BY <2>11 DEF IsSet, Set_of_cs
  <2>13. Found(c)' = IF m = 0 THEN d ELSE Plus(first_chars(b), d)
    BY <2>6, <2>8, <2>9, <2>10 DEF Found
  <2>14. Begun(u, Found(c)')
    <3>0. t \in Seq(Lexems) /\ l \in Lexems
      BY <1>5, <1>7, <2>1
    <3>1. \A i \in Opens(u) : \/ i \in Opens(t) /\ u[i + 1] = t[i + 1]
                              \/ u[i + 1] = l
      <4>1. OneMore(t, l, Append(t, l))
        BY <3>0, OpensAppended
      <4> QED
        BY <2>1, <4>1 DEF OneMore
    <3>2. CASE m = 0
      BY <2>3, <2>12, <2>13, <3>1, <3>2 DEF Begun
    <3>3. CASE m # 0
      <4>1. PICK e : e = first_chars(b)
        OBVIOUS
      <4>2. IsSet(e) /\ \A i \in Opens(t) : Letters(unwrap(t[i + 1].com)) \subseteq e.s
        BY <2>3, <3>3, <4>1 DEF Begun
      <4>3. PICK h : h = Plus(e, d)
        OBVIOUS
      <4>4. IsSet(h) /\ e.s \subseteq h.s /\ d.s \subseteq h.s
        BY <2>12, <4>2, <4>3, PlusOfSets
      <4>5. \A i \in Opens(u) : Letters(unwrap(u[i + 1].com)) \subseteq h.s
        BY <2>12, <3>1, <4>2, <4>4
      <4>6. Found(c)' = h
        BY <2>13, <3>3, <4>1, <4>3
      <4> QED
        BY <4>4, <4>5, <4>6 DEF Begun
    <3> QED
      BY <3>2, <3>3
  <2>15. /\ u # <<>> /\ u[Len(u)] \notin {Begin, Bar}
         /\ Len(c) \in 1 .. Len(c) /\ 1 = Len(c) - Len(c) + 1
         /\ m # 0 => /\ q < Len(c) /\ q \in 1 .. Len(c)
                     /\ IsSet(first_chars(Upto(c, q)))
    <3>1. u # <<>> /\ u[Len(u)] = l
      <4>1. OneMore(t, l, Append(t, l))
        BY <1>5, <1>7, <2>1, OpensAppended
      <4> QED
        BY <2>1, <4>1 DEF OneMore
    <3>2. m # 0 => IsSet(first_chars(Upto(c, q)))
      BY <2>3, <2>9 DEF Begun
    <3> QED
      BY <2>3, <2>4, <2>6, <3>1, <3>2
  <2>16. Compiled(u, c)'
    <3>1. c[Len(c)] = l.com /\ GoodCom(c[Len(c)])
      BY <2>4, <2>6
    <3>2. Begun(u, Found(c))'
      BY <2>14 DEF Begun, Opens
    <3> QED
      BY <2>6, <2>8, <2>15, <3>1, <3>2 DEF Compiled
  <2> QED
    BY <1>0, <1>4, <1>7, <2>7, <2>16 DEF BufInv
<1> QED
  BY <1>6, <1>7

LEMMA BufConcat ==
  ASSUME SrpInv, BufInv, state_concat_proc
  PROVE  BufInv'
<1> SUFFICES ASSUME ~failed' PROVE BufInv'
  BY DEF BufInv
<1>0. part \in Parts /\ sp.state = "State_concat" /\ look' = NoLexem
  BY DEF state_concat_proc, Reading
<1>1. PICK l \in Upcoming \ {Eof} :
        /\ current_lexem(l)
        /\ failed' = (failed \/ ~(l \in {Bar, End} \/ (IsLetter(l) /\ Allowed(l))))
        /\ CASE IsLetter(l) ->
                  /\ bufs' = [bufs EXCEPT ![part] = Append(@, l.com)]
                  /\ sp' = [sp EXCEPT !.number_of_concatenated = @ + 1]
                  /\ UNCHANGED part
             [] l = Bar ->
                  /\ bufs' = [bufs EXCEPT ![part] = Alternative]
                  /\ sp' = [sp EXCEPT !.state = "State_begin_concat",
                                      !.number_of_ors = @ + 1,
                                      !.number_of_concatenated = 0,
                                      !.arg1 = Len(Alternative)]
                  /\ UNCHANGED part
             [] l = End -> bufs' = [bufs EXCEPT ![part] = Alternative] /\ Return
             [] OTHER -> UNCHANGED <<bufs, sp, part>>
  BY DEF state_concat_proc
<1>2. ~failed /\ (l \in {Bar, End} \/ (IsLetter(l) /\ Allowed(l)))
  BY <1>1
<1>3. /\ ~IsLetter(Bar) /\ ~IsLetter(End) /\ Bar # End /\ End # Begin
      /\ IsLetter(l) => l \notin {Begin, Bar, End}
  BY LexemsApart DEF Marks
<1>4. /\ Written(Append(texts[part], l)) /\ l \in Lexems
      /\ texts[part] \in Seq(Lexems)
  BY <1>0, <1>1, <1>2, LexemTaken
<1>5. PICK c, a : c = Append(bufs[part], l.com) /\ a = Alternative
  OBVIOUS
<1>6. /\ IsLetter(l) =>
           /\ bufs' = [bufs EXCEPT ![part] = c] /\ UNCHANGED part
           /\ sp' = [sp EXCEPT !.number_of_concatenated = @ + 1]
      /\ l = Bar =>
           /\ bufs' = [bufs EXCEPT ![part] = a] /\ UNCHANGED part
           /\ sp' = [sp EXCEPT !.state = "State_begin_concat",
                               !.number_of_ors = @ + 1,
                               !.number_of_concatenated = 0,
                               !.arg1 = Len(a)]
      /\ l = End => bufs' = [bufs EXCEPT ![part] = a] /\ Return
  BY <1>1, <1>3, <1>5
<1>7. CASE part # "id_begin"
  <2>1. part' # "id_begin"
    BY <1>2, <1>6, <1>7 DEF Return
  <2>2. \E b : bufs' = [bufs EXCEPT ![part] = b]
    BY <1>2, <1>6
  <2> QED
    BY <1>0, <1>2, <1>4, <1>7, <2>1, <2>2, BodyRead
<1>8. CASE part = "id_begin"
  <2>1. PICK t, u, b, k, n, m, q :
          /\ t = texts["id_begin"] /\ u = Append(t, l) /\ b = bufs["id_begin"]
          /\ k = sp.first_concatenated /\ n = sp.number_of_concatenated
          /\ m = sp.number_of_ors /\ q = sp.arg1
    OBVIOUS
  <2>2. Compiled(t, b)
    BY <1>2, <1>8, <2>1 DEF BufInv
  <2>3. /\ Ordered(b) /\ sp \in Fields /\ m \in Nat /\ Len(b) \in Nat
        /\ t # <<>> /\ t[Len(t)] \notin {Begin, Bar}
        /\ k \in 1 .. Len(b) /\ n = Len(b) - k + 1
        /\ GoodCom(b[k]) /\ Begun(t, Found(b))
        /\ m # 0 => q \in 1 .. Len(b) /\ q < k /\ IsSet(first_chars(Upto(b, q)))
    <3>1. Len(b) \in Nat
      BY <2>2 DEF Compiled, Ordered
    <3>2. sp \in Fields /\ m \in Nat
      BY <2>1, <2>2 DEF Compiled, Fields
    <3> QED
      BY <1>0, <2>1, <2>2, <3>1, <3>2 DEF Compiled
  <2>4. t \in Seq(Lexems) /\ Len(t) \in Nat /\ Len(t) \in 1 .. Len(t)
    BY <1>4, <1>8, <2>1, <2>3
  <2>5. OneMore(t, l, u)
    <3>1. OneMore(t, l, Append(t, l))
      BY <1>4, <2>4, OpensAppended
    <3> QED
      BY <2>1, <3>1
  <2>6. /\ u # <<>> /\ u[Len(u)] = l
        /\ \A i \in Opens(u) : i \in Opens(t) /\ u[i + 1] = t[i + 1]
    BY <2>3, <2>5 DEF OneMore
  <2>7. \A d : Begun(t, d) => Begun(u, d)
    BY <2>6 DEF Begun
  <2>8. texts'["id_begin"] = u
    BY <1>4, <1>8, <2>1 DEF Written
  <2>9. \A d : bufs' = [bufs EXCEPT ![part] = d]
                 => bufs'["id_begin"] = d /\ DOMAIN bufs' = Parts
    <3>1. DOMAIN bufs = Parts
      BY <1>2 DEF BufInv
    <3> QED
      BY <1>8, <3>1 DEF Parts
  <2>10. a = write_or_command(write_concatenated(b))
    BY <1>5, <1>8, <2>1 DEF Alternative
  <2>11. /\ Ordered(a) /\ Len(a) \in Nat /\ Len(a) # 0
         /\ first_chars(a) = Found(b)
    BY <1>0, <2>2, <2>10, AlternativeIs
  <2>12. CASE IsLetter(l)
    <3>1. GoodCom(l.com) /\ l \notin {Begin, Bar}
      <4>1. \A com \in IdLetters : Letter(com).com = com
        BY DEF Letter
      <4>2. l.com \in IdLetters
        BY <1>3, <1>4, <2>12, <4>1, LexemsApart DEF Lexems
      <4> QED
        BY <1>2, <1>3, <2>12, <4>2 DEF GoodCom, Allowed
    <3>2. c = Append(b, l.com)
      BY <1>5, <1>8, <2>1
    <3>3. /\ Ordered(c) /\ Len(c) = Len(b) + 1
          /\ \A i \in 1 .. Len(b) : c[i] = b[i]
      BY <2>3, <3>1, <3>2, OrderedAppended
    <3>4. /\ sp' \in Fields /\ sp'.state = "State_concat"
          /\ sp'.first_concatenated = k /\ sp'.number_of_concatenated = n + 1
          /\ sp'.number_of_ors = m /\ sp'.arg1 = q
      BY <1>0, <1>6, <2>1, <2>3, <2>12 DEF Fields
    <3>5. c[k] = b[k] /\ k \in 1 .. Len(c) /\ n + 1 = Len(c) - k + 1
      BY <2>3, <3>3
    <3>6. m # 0 => Upto(c, q) = Upto(b, q) /\ q \in 1 .. Len(c)
      <4>1. m # 0 => q \in 0 .. Len(b) /\ q \in 1 .. Len(c)
        BY <2>3, <3>3
      <4> QED
        BY <2>3, <3>2, <3>3, <4>1, FirstAppended
    <3>7. Found(c)' = Found(b)
      BY <2>1, <3>4, <3>5, <3>6 DEF Found
    <3>8. Begun(u, Found(c)')
      BY <2>3, <2>7, <3>7
    <3>9. Compiled(u, c)'
      <4>1. Begun(u, Found(c))'
        BY <3>8 DEF Begun, Opens
      <4>2. m # 0 => IsSet(first_chars(Upto(c, q)))
        BY <2>3, <3>6
      <4>3. GoodCom(c[k]) /\ u # <<>> /\ u[Len(u)] \notin {Begin, Bar}
        BY <2>3, <2>6, <3>1, <3>5
      <4> QED
        BY <2>3, <3>3, <3>4, <3>5, <3>6, <4>1, <4>2, <4>3 DEF Compiled
    <3> QED
      BY <1>0, <1>6, <1>8, <2>8, <2>9, <2>12, <3>9 DEF BufInv
  <2>13. CASE l = Bar
    <3>1. /\ sp' \in Fields /\ sp'.state = "State_begin_concat"
          /\ sp'.number_of_ors = m + 1 /\ sp'.arg1 = Len(a)
      <4>1. sp' = [sp EXCEPT !.state = "State_begin_concat",
                             !.number_of_ors = @ + 1,
                             !.number_of_concatenated = 0,
                             !.arg1 = Len(a)]
        BY <1>6, <2>13
      <4>2. PICK z, w : z = Len(a) /\ w = sp.number_of_ors + 1
        OBVIOUS
      <4>3. z \in Nat /\ sp \in Fields /\ w \in Nat /\ w = m + 1
        BY <2>1, <2>3, <2>11, <4>2
      <4>4. sp' = [sp EXCEPT !.state = "State_begin_concat",
                             !.number_of_ors = w,
                             !.number_of_concatenated = 0,
                             !.arg1 = z]
        BY <4>1, <4>2
      <4>5. sp' \in Fields
        BY <4>3, <4>4 DEF Fields
      <4> QED
        BY <2>1, <4>2, <4>3, <4>4, <4>5 DEF Fields
    <3>2. Begun(u, first_chars(a))
      BY <2>3, <2>7, <2>11
    <3>3. m + 1 # 0 /\ Len(a) \in 1 .. Len(a)
      BY <2>3, <2>11
    <3>4. IsSet(first_chars(Upto(a, Len(a))))
      BY <2>11, <3>2, UptoAll DEF Begun
    <3>5. Compiled(u, a)'
      <4>1. Begun(u, first_chars(a))'
        BY <3>2 DEF Begun, Opens
      <4> QED
        BY <2>11, <3>1, <3>3, <3>4, <4>1 DEF Compiled
    <3> QED
      BY <1>0, <1>6, <1>8, <2>8, <2>9, <2>13, <3>5 DEF BufInv
  <2>14. CASE l = End
    <3>1. Begun(u, first_chars(a))
      BY <2>3, <2>7, <2>11
    <3>2. part' # "id_begin"
      BY <1>6, <1>8, <2>14 DEF Return
    <3>3. bufs'["id_begin"] = a /\ DOMAIN bufs' = Parts
      BY <1>6, <2>9, <2>14
    <3> QED
      BY <1>0, <2>8, <3>1, <3>2, <3>3 DEF BufInv
  <2> QED
    BY <1>2, <2>12, <2>13, <2>14
<1> QED
  BY <1>7, <1>8

LEMMA BufRunOut ==
  ASSUME run_out PROVE BufInv'
BY DEF run_out, BufInv

(* Every string described begins with a character of what was found.       *)
LEMMA DescribedBegins ==
  ASSUME NEW t \in Seq(Lexems), WellFormed(t), NEW c, Begun(t, c),
         NEW w \in Described(t)
  PROVE  w[1] \in c.s
<1>1. PICK piece \in Pieces(t) :
        w \in {s \in [DOMAIN piece -> Chars] :
                \A k \in DOMAIN piece : s[k] \in Letters(unwrap(piece[k].com))}
  BY DEF Described
<1>2. PICK i, j : Adjoin(t, i, j) /\ piece = SubSeq(t, i + 1, j - 1)
  BY PiecesAre
<1>3. /\ i \in 1 .. Len(t) /\ j \in 1 .. Len(t) /\ i < j
      /\ piece = <<>> <=> j = i + 1
      /\ DOMAIN piece = 1 .. j - i - 1
      /\ \A k \in 1 .. j - i - 1 : piece[k] = t[i + k]
  BY <1>2, PieceOf
<1>4. 1 \in DOMAIN piece /\ piece[1] = t[i + 1] /\ i \in 1 .. Len(t) - 1
  <2>1. piece # <<>>
    BY DEF WellFormed
  <2>2. 1 \in 1 .. j - i - 1 /\ i \in 1 .. Len(t) - 1
    BY <1>3, <2>1
  <2> QED
    BY <1>3, <2>2
<1>5. t[i] \in {Begin, Bar}
  <2>1. t[i] \in Marks
    BY <1>2 DEF Adjoin, IsMark
  <2>2. t[i] # End
    <3>1. Regular(t)
      BY WellFormedIs
    <3>2. i = 1 => t[i] = Begin
      BY <3>1 DEF Regular
    <3>3. i # 1 => i \in 2 .. Len(t) - 1
      BY <1>4
    <3>4. i # 1 => t[i] = Bar \/ Good(t[i])
      BY <3>1, <3>3 DEF Regular
    <3>5. ~Good(End)
      BY LexemsApart DEF Good, Marks
    <3> QED
      BY <3>2, <3>4, <3>5, LexemsApart
  <2> QED
    BY <2>1, <2>2 DEF Marks
<1>6. i \in Opens(t)
  BY <1>4, <1>5 DEF Opens
<1>7. w[1] \in Letters(unwrap(piece[1].com))
  BY <1>1, <1>4
<1> QED
  BY <1>4, <1>6, <1>7 DEF Begun

(* From the moment an automaton of identifiers alone is begun.             *)
Unlike ==
  task = "identifiers" /\ stage \notin {"text", "rejected"}
    => \A w \in Described(texts["id_begin"]) :
         \A kw \in Range(keywords) : w[1] # kw[1]

ApartInv ==
  /\ IInv
  /\ task # "expression" => BufInv
  /\ Unlike

LEMMA BufKept ==
  ASSUME BufInv, UNCHANGED srpVars
  PROVE  BufInv'
<1>1. \A t, b : Compiled(t, b)' <=> Compiled(t, b)
  BY DEF Compiled, Found, Begun, Opens, srpVars
<1>2. \A t, c : Begun(t, c)' <=> Begun(t, c)
  BY DEF Begun, Opens
<1> QED
  BY <1>1, <1>2 DEF BufInv, srpVars

LEMMA InitApart ==
  ASSUME Init PROVE ApartInv
<1>1. IInv /\ stage = "text"
  BY InitSrp DEF Init
<1>2. CASE part = "parsed"
  BY <1>1, <1>2 DEF Init, ApartInv, Unlike
<1>3. CASE part # "parsed"
  <2>1. /\ part = "id_begin" /\ sp = Start /\ look = NoLexem
        /\ bufs = [p \in Parts |-> <<>>] /\ texts = [p \in Parts |-> <<>>]
    BY <1>3 DEF Init, SrpInit
  <2>2. /\ bufs["id_begin"] = <<>> /\ texts["id_begin"] = <<>>
        /\ DOMAIN bufs = Parts
    BY <2>1 DEF Parts
  <2>3. Ordered(<<>>)
    BY DEF Ordered
  <2>4. /\ sp \in Fields /\ sp.state = "State_begin_expr"
        /\ sp.number_of_ors = 0
    BY <2>1 DEF Start, Fields
  <2>5. Compiled(<<>>, <<>>)
    BY <2>3, <2>4 DEF Compiled
  <2>6. BufInv
    BY <2>1, <2>2, <2>5 DEF BufInv
  <2> QED
    BY <1>1, <2>6 DEF ApartInv, Unlike
<1> QED
  BY <1>2, <1>3

(* What the test of verify() says of the strings.                          *)
LEMMA TestRight ==
  ASSUME IInv, BufInv, task = "identifiers", part = "parsed", ~failed,
         NEW kws,
         ~Meets(keyword_begin(kws), first_chars(bufs["id_begin"]))
  PROVE  \A w \in Described(texts["id_begin"]) :
           \A kw \in Range(kws) : w[1] # kw[1]
<1>1. PICK t, c : t = texts["id_begin"] /\ c = first_chars(bufs["id_begin"])
  OBVIOUS
<1>2. Begun(t, c)
  BY <1>1 DEF BufInv
<1>3. t \in Seq(Lexems) /\ WellFormed(t)
  <2>1. SrpInv /\ "id_begin" \in Parts
    BY DEF IInv, Parts
  <2>2. ~Malformed
    BY <2>1 DEF SrpInv
  <2>3. t \in Seq(Lexems) /\ Regular(t)
    BY <1>1, <2>1, <2>2 DEF SrpInv, Malformed, Finished
  <2> QED
    BY <2>3, WellFormedIs
<1>4. {kws[k][1] : k \in DOMAIN kws} \cap c.s = {}
  <2>1. PICK K : K = {kws[k][1] : k \in DOMAIN kws}
    OBVIOUS
  <2>2. ~Meets(Set_of_cs(K), c)
    BY <1>1, <2>1 DEF keyword_begin
  <2>3. IsSet(c) /\ IsSet(Set_of_cs(K)) /\ Set_of_cs(K).s = K
    BY <1>2 DEF Begun, IsSet, Set_of_cs
  <2>4. c # All_chars /\ Set_of_cs(K) # All_chars
    BY <2>3 DEF IsSet, All_chars, Category
  <2>5. K \cap c.s = {}
    <3>1. PICK d : d = Set_of_cs(K)
      OBVIOUS
    <3>2. /\ ~Meets(d, c) /\ IsSet(d) /\ IsSet(c) /\ d.s = K
          /\ d # All_chars /\ c # All_chars
      BY <2>2, <2>3, <2>4, <3>1
    <3>3. Meets(d, c) <=> d.s \cap c.s # {}
      BY <3>2 DEF Meets, IsQuoteless, IsSet
    <3> QED
      BY <3>2, <3>3
  <2> QED
    BY <2>1, <2>5
<1>5. ASSUME NEW w \in Described(t), NEW kw \in Range(kws)
      PROVE  w[1] # kw[1]
  <2>1. w[1] \in c.s
    BY <1>2, <1>3, DescribedBegins
  <2>2. PICK k \in DOMAIN kws : kw = kws[k]
    BY DEF Range
  <2> QED
    BY <1>4, <2>1, <2>2
<1> QED
  BY <1>1, <1>5

LEMMA StepApart ==
  ASSUME ApartInv, Next
  PROVE  ApartInv'
<1>1. IInv /\ IInv'
  BY StepSrp DEF ApartInv
<1>2. CASE read_idents
  <2>1. /\ task = "identifiers" /\ task' = task /\ SrpNext
        /\ stage = "text" /\ stage' = stage
    BY <1>2 DEF read_idents, dfaVars
  <2>2. SrpInv /\ BufInv
    BY <1>1, <2>1 DEF ApartInv, IInv
  <2>3. BufInv'
    BY <2>1, <2>2, BufBeginExpr, BufBeginConcat, BufConcat, BufRunOut
       DEF SrpNext
  <2> QED
    BY <1>1, <2>1, <2>3 DEF ApartInv, Unlike
<1>3. CASE generate_idents
  <2>1. /\ task = "identifiers" /\ part = "parsed" /\ ~failed
        /\ UNCHANGED srpVars
    BY <1>3 DEF generate_idents
  <2>2. BufInv /\ BufInv'
    BY <2>1, BufKept DEF ApartInv
  <2>3. PICK kws \in KeywordLists :
          /\ keywords' = kws
          /\ task' = IF Meets(keyword_begin(kws), first_chars(bufs["id_begin"]))
                     THEN "idkeywords" ELSE "identifiers"
    BY <1>3 DEF generate_idents
  <2>4. CASE Meets(keyword_begin(kws), first_chars(bufs["id_begin"]))
    BY <1>1, <2>2, <2>3, <2>4 DEF ApartInv, Unlike
  <2>5. CASE ~Meets(keyword_begin(kws), first_chars(bufs["id_begin"]))
    <3>1. \A w \in Described(texts["id_begin"]) :
            \A kw \in Range(kws) : w[1] # kw[1]
      BY <1>1, <2>1, <2>2, <2>5, TestRight
    <3>2. texts' = texts
      BY <2>1 DEF srpVars
    <3>3. Unlike'
      BY <2>3, <3>1, <3>2 DEF Unlike
    <3> QED
      BY <1>1, <2>2, <3>3 DEF ApartInv
  <2> QED
    BY <2>4, <2>5
<1>4. CASE ~read_idents /\ ~generate_idents
  <2>1. UNCHANGED <<srpVars, task, keywords>>
    BY <1>4 DEF Next, reject, H_is_d, T_is_TbE, E_is_EF, F_is_Gc, binary,
                Reduce, G_is_Ha, generate_expression, Build
  <2>2. task = "expression" \/ stage' = "rejected"
        \/ stage \notin {"text", "rejected"}
    BY <1>4 DEF Next, reject, H_is_d, T_is_TbE, E_is_EF, F_is_Gc, binary,
                Reduce, G_is_Ha, generate_expression, Build, DfaNext,
                convert_NDFA_to_DFA, begin_minimization,
                split_states_into_equivalence_classes, end_minimization,
                group_jumps
  <2>3. task' # "expression" => BufInv'
    BY <2>1, BufKept DEF ApartInv
  <2>4. texts' = texts
    BY <2>1 DEF srpVars
  <2>5. Unlike'
    BY <2>1, <2>2, <2>4 DEF ApartInv, Unlike
  <2> QED
    BY <1>1, <2>3, <2>5 DEF ApartInv
<1> QED
  BY <1>2, <1>3, <1>4

(* Whatever the alternatives of the beginning of an identifier are, the    *)
(* commands they are compiled into and first_chars of them never miss a    *)
(* first character: keywords are given an automaton of their own only if   *)
(* none of them begins as an identifier may (Simple_regex_parser,          *)
(* first_chars, generate_idents_and_keywords_automata_impl).               *)
THEOREM KeywordsAlwaysApart == Spec => []KeywordsApart
<1>1. ApartInv /\ UNCHANGED vars => ApartInv'
  <2> SUFFICES ASSUME ApartInv, UNCHANGED vars PROVE ApartInv'
    OBVIOUS
  <2>1. UNCHANGED <<srpVars, task, keywords, stage, texts>>
    BY DEF vars, srpVars, dfaVars
  <2>2. IInv'
    BY <2>1, SrpKept DEF ApartInv, IInv
  <2>3. task' # "expression" => BufInv'
    BY <2>1, BufKept DEF ApartInv
  <2>4. Unlike'
    BY <2>1 DEF ApartInv, Unlike
  <2> QED
    BY <2>2, <2>3, <2>4 DEF ApartInv
<1>2. ApartInv => KeywordsApart
  BY DEF ApartInv, Unlike, KeywordsApart
<1> QED
  BY <1>1, <1>2, InitApart, StepApart, PTL DEF Spec

-----------------------------------------------------------------------------
(* Recursive functions on an interval of numbers.  What is before k of     *)
(* one, and the values it may have there, at k one of X[k].                *)

Before(f, m, k) == [j \in m .. k - 1 |-> f[j]]
Earlier(X, m, k) ==
  {h \in [m .. k - 1 -> UNION {X[j] : j \in m .. k - 1}] :
     \A j \in m .. k - 1 : h[j] \in X[j]}

(* A value that follows from the earlier ones is of its type at every k.   *)
LEMMA RecursionTyped ==
  ASSUME NEW m \in Nat, NEW n \in Nat, NEW X, NEW f,
         ASSUME NEW k \in m .. n, \A j \in m .. k - 1 : f[j] \in X[j]
         PROVE  f[k] \in X[k]
  PROVE  \A k \in m .. n : f[k] \in X[k]
<1> DEFINE T == {k \in m .. n : f[k] \notin X[k]}
<1>1. CASE T = {}
  BY <1>1
<1>2. CASE T # {}
  <2>1. T \subseteq Nat
    OBVIOUS
  <2>2. PICK k \in T : \A y \in T : k <= y
    BY <1>2, <2>1, FirstOf
  <2>3. \A j \in m .. k - 1 : j \in m .. n /\ ~(k <= j)
    OBVIOUS
  <2>4. \A j \in m .. k - 1 : f[j] \in X[j]
    BY <2>2, <2>3
  <2>5. k \in m .. n /\ f[k] \notin X[k]
    OBVIOUS
  <2> QED
    BY <2>4, <2>5
<1> QED
  BY <1>1, <1>2

Recursive(f, F, m, n) == f = [k \in m .. n |-> F[k][Before(f, m, k)]]

(* There is a function whose value at k is what F makes of k and the       *)
(* values before.                                                          *)
LEMMA RecursionExists ==
  ASSUME NEW m \in Nat, NEW n \in Nat, NEW F
  PROVE  \E f : Recursive(f, F, m, n)
<1> DEFINE To(l, g) == g = [k \in m .. l |-> F[k][Before(g, m, k)]]
           T == {l \in m .. n : ~ \E g : To(l, g)}
<1>1. CASE n < m
  <2>1. m .. n = {}
    BY <1>1
  <2>2. PICK f : f = [k \in {} |-> k]
    OBVIOUS
  <2>3. To(n, f)
    BY <2>1, <2>2
  <2> QED
    BY <2>3 DEF Recursive
<1>2. CASE T = {} /\ m <= n
  <2>1. n \in m .. n
    BY <1>2
  <2>2. PICK g : To(n, g)
    BY <1>2, <2>1
  <2> QED
    BY <2>2 DEF Recursive
<1>3. CASE T # {}
  <2>1. T \subseteq Nat
    OBVIOUS
  <2>2. PICK l \in T : \A y \in T : l <= y
    BY <1>3, <2>1, FirstOf
  <2>3. l \in m .. n /\ ~ \E g : To(l, g)
    OBVIOUS
  <2>4. \E g : To(l - 1, g)
    <3>1. CASE l = m
      <4>1. m .. l - 1 = {}
        BY <3>1
      <4>2. PICK f : f = [k \in {} |-> k]
        OBVIOUS
      <4>3. To(l - 1, f)
        BY <4>1, <4>2
      <4> QED
        BY <4>3
    <3>2. CASE l # m
      <4>1. l - 1 \in m .. n /\ ~(l <= l - 1)
        BY <2>3, <3>2
      <4> QED
        BY <2>2, <4>1
    <3> QED
      BY <3>1, <3>2
  <2>5. PICK g : To(l - 1, g)
    BY <2>4
  <2>6. PICK h : h = [k \in m .. l |-> IF k = l THEN F[l][Before(g, m, l)]
                                       ELSE g[k]]
    OBVIOUS
  <2>7. ASSUME NEW k \in m .. l PROVE Before(h, m, k) = Before(g, m, k)
    <3>1. \A j \in m .. k - 1 : j \in m .. l /\ j # l
      OBVIOUS
    <3>2. \A j \in m .. k - 1 : h[j] = g[j]
      BY <2>6, <3>1
    <3> QED
      BY <3>2 DEF Before
  <2>8. ASSUME NEW k \in m .. l PROVE h[k] = F[k][Before(h, m, k)]
    <3>1. CASE k = l
      BY <2>6, <2>7, <3>1
    <3>2. CASE k # l
      <4>1. k \in m .. l - 1
        BY <3>2
      <4>2. h[k] = g[k]
        BY <2>6, <3>2
      <4>3. g[k] = F[k][Before(g, m, k)]
        BY <2>5, <4>1
      <4> QED
        BY <2>7, <4>2, <4>3
    <3> QED
      BY <3>1, <3>2
  <2>9. To(l, h)
    <3>1. DOMAIN h = m .. l /\ h = [k \in m .. l |-> h[k]]
      BY <2>6
    <3> QED
      BY <2>8, <3>1
  <2> QED
    BY <2>3, <2>9
<1> QED
  BY <1>1, <1>2, <1>3 DEF Recursive

(* The values of the recursion are of their types if F keeps to them.      *)
LEMMA Recursion ==
  ASSUME NEW m \in Nat, NEW n \in Nat, NEW X, NEW F,
         \A k \in m .. n : \A h \in Earlier(X, m, k) : F[k][h] \in X[k]
  PROVE  \E f : /\ Recursive(f, F, m, n)
                /\ \A k \in m .. n : Before(f, m, k) \in Earlier(X, m, k)
<1>1. PICK f : Recursive(f, F, m, n)
  BY RecursionExists
<1>2. ASSUME NEW k \in m .. n, \A j \in m .. k - 1 : f[j] \in X[j]
      PROVE  Before(f, m, k) \in Earlier(X, m, k)
  <2>1. \A j \in m .. k - 1 : Before(f, m, k)[j] = f[j]
    BY DEF Before
  <2>2. \A j \in m .. k - 1 : f[j] \in UNION {X[i] : i \in m .. k - 1}
    BY <1>2
  <2>3. Before(f, m, k) \in [m .. k - 1 -> UNION {X[i] : i \in m .. k - 1}]
    BY <2>2 DEF Before
  <2> QED
    BY <1>2, <2>1, <2>3 DEF Earlier
<1>3. ASSUME NEW k \in m .. n, \A j \in m .. k - 1 : f[j] \in X[j]
      PROVE  f[k] \in X[k]
  <2>1. f[k] = F[k][Before(f, m, k)]
    BY <1>1 DEF Recursive
  <2> QED
    BY <1>2, <1>3, <2>1
<1>4. \A k \in m .. n : f[k] \in X[k]
  BY <1>3, RecursionTyped
<1>5. ASSUME NEW k \in m .. n
      PROVE  Before(f, m, k) \in Earlier(X, m, k)
  <2>1. \A j \in m .. k - 1 : j \in m .. n
    OBVIOUS
  <2> QED
    BY <1>2, <1>4, <2>1
<1> QED
  BY <1>1, <1>5

(* epsilon_closure.                                                        *)
Grown(a, S) == S \cup {e.to : e \in By(a.edges, S, Epsilon)}
IsClose(a, s, f) ==
  f = [k \in 0 .. a.final_state |-> IF k = 0 THEN s ELSE Grown(a, f[k - 1])]

LEMMA CloseExists ==
  ASSUME NEW a, NEW n \in Nat, n = a.final_state, NEW s, s \subseteq 0 .. n,
         \A e \in a.edges : e.to \in 0 .. n
  PROVE  \E f : IsClose(a, s, f)
<1> DEFINE X == [k \in 0 .. n |-> SUBSET (0 .. n)]
           F == [k \in 0 .. n |-> [h \in Earlier(X, 0, k) |->
                   IF k = 0 THEN s ELSE Grown(a, h[k - 1])]]
<1>1. ASSUME NEW k \in 0 .. n, NEW h \in Earlier(X, 0, k)
      PROVE  F[k][h] \in X[k]
  <2>2. F[k][h] = IF k = 0 THEN s ELSE Grown(a, h[k - 1])
    OBVIOUS
  <2>3. CASE k = 0
    BY <2>2, <2>3
  <2>4. CASE k # 0
    <3>1. k - 1 \in 0 .. k - 1 /\ k - 1 \in 0 .. n
      BY <2>4
    <3>2. h[k - 1] \in X[k - 1]
      BY <3>1 DEF Earlier
    <3>3. h[k - 1] \subseteq 0 .. n
      BY <3>1, <3>2
    <3>4. Grown(a, h[k - 1]) \subseteq 0 .. n
      BY <3>3 DEF Grown, By
    <3> QED
      BY <2>2, <2>4, <3>4
  <2> QED
    BY <2>3, <2>4
<1>2. \A k \in 0 .. n : \A h \in Earlier(X, 0, k) :
        F[k][h] = IF k = 0 THEN s ELSE Grown(a, h[k - 1])
  OBVIOUS
<1> HIDE DEF X, F
<1>3. PICK f : /\ Recursive(f, F, 0, n)
               /\ \A k \in 0 .. n : Before(f, 0, k) \in Earlier(X, 0, k)
  BY <1>1, Recursion
<1>4. ASSUME NEW k \in 0 .. n
      PROVE  f[k] = IF k = 0 THEN s ELSE Grown(a, f[k - 1])
  <2>1. f[k] = F[k][Before(f, 0, k)]
    BY <1>3 DEF Recursive
  <2>2. f[k] = IF k = 0 THEN s ELSE Grown(a, Before(f, 0, k)[k - 1])
    BY <1>2, <1>3, <2>1
  <2>3. k # 0 => Before(f, 0, k)[k - 1] = f[k - 1]
    BY DEF Before
  <2> QED
    BY <2>2, <2>3
<1>5. f = [k \in 0 .. n |-> f[k]]
  BY <1>3 DEF Recursive
<1>6. IsClose(a, s, f)
  BY <1>4, <1>5 DEF IsClose
<1> QED
  BY <1>6

LEMMA ClosureIs ==
  ASSUME NEW a, NEW n \in Nat, n = a.final_state, NEW s, s \subseteq 0 .. n,
         \A e \in a.edges : e.to \in 0 .. n
  PROVE  epsilon_closure(a, s) \subseteq 0 .. n
<1>1. PICK f : f = CHOOSE g : IsClose(a, s, g)
  OBVIOUS
<1>2. IsClose(a, s, f)
  BY <1>1, CloseExists, Zenon
<1>3. epsilon_closure(a, s) = f[a.final_state]
  BY <1>1, Zenon DEF epsilon_closure, IsClose, Grown
<1>4. ASSUME NEW k \in 0 .. n,
             \A j \in 0 .. k - 1 : f[j] \in [i \in 0 .. n |-> SUBSET (0 .. n)][j]
      PROVE  f[k] \in [i \in 0 .. n |-> SUBSET (0 .. n)][k]
  <2>1. f[k] = IF k = 0 THEN s ELSE Grown(a, f[k - 1])
    BY <1>2 DEF IsClose
  <2>2. CASE k = 0
    BY <2>1, <2>2
  <2>3. CASE k # 0
    <3>1. k - 1 \in 0 .. k - 1 /\ k - 1 \in 0 .. n
      BY <2>3
    <3>2. f[k - 1] \subseteq 0 .. n
      BY <1>4, <3>1
    <3>3. Grown(a, f[k - 1]) \subseteq 0 .. n
      BY <3>2 DEF Grown, By
    <3> QED
      BY <2>1, <2>3, <3>3
  <2> QED
    BY <2>2, <2>3
<1>5. \A k \in 0 .. n : f[k] \in [i \in 0 .. n |-> SUBSET (0 .. n)][k]
  <2> HIDE DEF IsClose
  <2> QED
    BY <1>4, RecursionTyped
<1> QED
  BY <1>3, <1>5

(* The elements of a finite set of numbers in their order: each is the one *)
(* with as many before it as its place says.                               *)
Below(S, x) == {y \in S : y < x}

LEMMA BelowIs ==
  ASSUME NEW S, S \subseteq Nat, IsFiniteSet(S), NEW x \in S
  PROVE  /\ Cardinality(Below(S, x)) \in 0 .. Cardinality(S) - 1
         /\ \A z \in S : x < z =>
              Cardinality(Below(S, x)) < Cardinality(Below(S, z))
<1>1. \A z \in S : /\ Below(S, z) \in SUBSET S /\ z \notin Below(S, z)
                   /\ z \in Nat
  BY DEF Below
<1>2. \A T \in SUBSET S : IsFiniteSet(T) /\ Cardinality(T) \in Nat
  <2>1. ASSUME NEW T \in SUBSET S PROVE IsFiniteSet(T)
    BY FS_Subset
  <2> QED
    BY <2>1, FS_CardinalityType
<1>3. Cardinality(Below(S, x)) \in 0 .. Cardinality(S) - 1
  <2>1. /\ Cardinality(Below(S, x)) <= Cardinality(S)
        /\ Cardinality(S) = Cardinality(Below(S, x)) => S = Below(S, x)
    BY <1>1, FS_Subset
  <2>2. Cardinality(Below(S, x)) \in Nat /\ Cardinality(S) \in Nat
    BY <1>1, <1>2
  <2> QED
    BY <1>1, <2>1, <2>2
<1>4. ASSUME NEW z \in S, x < z
      PROVE  Cardinality(Below(S, x)) < Cardinality(Below(S, z))
  <2>1. Below(S, x) \in SUBSET Below(S, z) /\ x \in Below(S, z)
    <3>1. ASSUME NEW y \in Below(S, x) PROVE y \in Below(S, z)
      <4>1. y \in S /\ y < x /\ x < z /\ y \in Nat /\ x \in Nat /\ z \in Nat
        BY <1>4 DEF Below
      <4>2. y < z
        BY <4>1
      <4> QED
        BY <4>1, <4>2 DEF Below
    <3>2. x \in Below(S, z)
      BY <1>4 DEF Below
    <3> QED
      BY <3>1, <3>2
  <2>2. IsFiniteSet(Below(S, z))
    BY <1>1, <1>2
  <2>3. /\ Cardinality(Below(S, x)) <= Cardinality(Below(S, z))
        /\ Cardinality(Below(S, z)) = Cardinality(Below(S, x))
             => Below(S, z) = Below(S, x)
    BY <2>1, <2>2, FS_Subset
  <2>4. /\ Cardinality(Below(S, x)) \in Nat
        /\ Cardinality(Below(S, z)) \in Nat
    BY <1>1, <1>2
  <2> QED
    BY <1>1, <2>1, <2>3, <2>4
<1> QED
  BY <1>3, <1>4

LEMMA InOrderIs ==
  ASSUME NEW S, S \subseteq Nat, IsFiniteSet(S)
  PROVE  /\ Cardinality(S) \in Nat
         /\ InOrder(S) \in Seq(S) /\ Len(InOrder(S)) = Cardinality(S)
         /\ \A i, j \in 1 .. Cardinality(S) :
              InOrder(S)[i] = InOrder(S)[j] => i = j
<1>1. PICK n : n = Cardinality(S)
  OBVIOUS
<1>2. n \in Nat
  BY <1>1, FS_CardinalityType
<1> DEFINE r == [x \in S |-> Cardinality(Below(S, x))]
<1>3. r \in Injection(S, 0 .. n - 1)
  <2>1. \A x \in S : r[x] \in 0 .. n - 1
    BY <1>1, BelowIs
  <2>2. \A x, z \in S : x < z => r[x] < r[z]
    BY BelowIs
  <2>3. \A x, z \in S : x \in Nat /\ z \in Nat
    OBVIOUS
  <2>4. r \in [S -> 0 .. n - 1]
    BY <2>1
  <2>5. \A x, z \in S : r[x] = r[z] => x = z
    <3> SUFFICES ASSUME NEW x \in S, NEW z \in S, x # z PROVE r[x] # r[z]
      OBVIOUS
    <3>1. x < z \/ z < x
      BY <2>3
    <3>2. r[x] \in Nat /\ r[z] \in Nat
      BY <2>1
    <3> HIDE DEF r
    <3> QED
      BY <2>2, <3>1, <3>2
  <2> QED
    BY <2>4, <2>5 DEF Injection, IsInjective
<1>4. IsFiniteSet(0 .. n - 1) /\ Cardinality(0 .. n - 1) = n
  <2>1. 0 \in Int /\ n - 1 \in Int
    BY <1>2
  <2>2. /\ IsFiniteSet(0 .. n - 1)
        /\ Cardinality(0 .. n - 1) = IF 0 > n - 1 THEN 0 ELSE n - 1 - 0 + 1
    BY <2>1, FS_Interval
  <2> QED
    BY <1>2, <2>2
<1>5. r \in Surjection(S, 0 .. n - 1)
  BY <1>1, <1>3, <1>4, FS_Injection
<1>6. \A k \in 1 .. n : \E x \in S : Cardinality(Below(S, x)) = k - 1
  <2> SUFFICES ASSUME NEW k \in 1 .. n
               PROVE  \E x \in S : Cardinality(Below(S, x)) = k - 1
    OBVIOUS
  <2>1. k - 1 \in 0 .. n - 1
    BY <1>2
  <2> QED
    BY <1>5, <2>1 DEF Surjection
<1> HIDE DEF r
<1>7. InOrder(S) = [k \in 1 .. n |->
                      CHOOSE x \in S : Cardinality(Below(S, x)) = k - 1]
  BY <1>1 DEF InOrder, Below
<1>8. \A k \in 1 .. n : /\ InOrder(S)[k] \in S
                        /\ Cardinality(Below(S, InOrder(S)[k])) = k - 1
  BY <1>6, <1>7
<1>9. InOrder(S) \in Seq(S) /\ Len(InOrder(S)) = n
  <2>1. InOrder(S) \in [1 .. n -> S]
    BY <1>7, <1>8
  <2> QED
    BY <1>2, <2>1
<1>10. \A i, j \in 1 .. n : InOrder(S)[i] = InOrder(S)[j] => i = j
  <2> SUFFICES ASSUME NEW i \in 1 .. n, NEW j \in 1 .. n,
                      InOrder(S)[i] = InOrder(S)[j]
               PROVE  i = j
    OBVIOUS
  <2>1. i - 1 = j - 1 /\ i \in Int /\ j \in Int
    BY <1>8
  <2> QED
    BY <2>1
<1> QED
  BY <1>1, <1>2, <1>9, <1>10

LEMMA CharsFinite ==
  /\ Chars \subseteq Nat /\ IsFiniteSet(Chars)
  /\ Gen_chars \subseteq Nat /\ IsFiniteSet(Gen_chars)
  /\ Epsilon \notin Gen_chars /\ Epsilon \in Nat
<1>1. /\ Chars \subseteq Nat /\ \A c \in Chars : c <= G_ndq
      /\ G_ndq \in Nat /\ G_nsq \in Nat /\ Epsilon \notin Chars
  <2>1. Chars \subseteq 1 .. G_ndq - 1
    BY CategoriesAssumption
  <2>2. G_ndq \in Nat /\ G_nsq \in Nat
    BY SMT DEF G_ndq, G_nsq
  <2>3. \A c \in Chars : c \in Nat /\ c >= 1 /\ c <= G_ndq
    BY <2>1, <2>2
  <2>4. Epsilon \notin Chars
    BY <2>3, SMT DEF Epsilon
  <2> QED
    BY <2>2, <2>3, <2>4
<1>2. IsFiniteSet(Chars)
  BY <1>1, FS_BoundedSetOfNaturals
<1>3. Gen_chars = (Chars \cup {G_ndq}) \cup {G_nsq}
  BY DEF Gen_chars
<1>4. IsFiniteSet(Gen_chars)
  BY <1>2, <1>3, FS_AddElement
<1>5. Epsilon # G_ndq /\ Epsilon # G_nsq /\ Epsilon \in Nat
  BY SMT DEF Epsilon, G_ndq, G_nsq
<1> QED
  BY <1>1, <1>2, <1>3, <1>4, <1>5

-----------------------------------------------------------------------------
(* The builders: an automaton has the states from its first to its last,   *)
(* of which there are at least two, and its edges lie between them.        *)

Symbols == Gen_chars \cup {Epsilon}
EdgesIn(n, m) == [from : n .. m, gc : Symbols, act : Nat, to : n .. m]
AllAutomata ==
  [begin_state : Nat, final_state : Nat,
   edges : SUBSET [from : Nat, gc : Symbols, act : Nat, to : Nat]]

(* Whatever holds of the state f, and of a state with an edge to one it     *)
(* holds of, holds of the states from n to m: they all lead to f.          *)
Against(E, T) == \A e \in E : e.to \in T => e.from \in T
LeadTo(E, f, n, m) ==
  \A T \in SUBSET Nat : f \in T /\ Against(E, T) => n .. m \subseteq T

Spans(a, n) ==
  /\ a \in AllAutomata /\ a.begin_state = n /\ n < a.final_state
  /\ a.edges \subseteq EdgesIn(n, a.final_state)
  /\ LeadTo(a.edges, a.final_state, n, a.final_state)

LEMMA EdgesGrow ==
  ASSUME NEW n \in Nat, NEW m \in Nat, NEW k \in Nat, NEW l \in Nat,
         n <= k, l <= m
  PROVE  EdgesIn(k, l) \subseteq EdgesIn(n, m)
<1>1. k .. l \subseteq n .. m
  OBVIOUS
<1> QED
  BY <1>1 DEF EdgesIn

LEMMA EpsilonsIn ==
  ASSUME NEW n, NEW m, NEW S, NEW T, S \subseteq n .. m, T \subseteq n .. m
  PROVE  Epsilons(S, T) \subseteq EdgesIn(n, m)
<1>1. Epsilon \in Symbols /\ 0 \in Nat
  BY DEF Symbols
<1> QED
  BY <1>1 DEF Epsilons, Edge, EdgesIn

(* Backwards by an epsilon, and through the states of an operand.          *)
LEMMA EpsilonBack ==
  ASSUME NEW E, NEW T \in SUBSET Nat, Against(E, T),
         NEW S, NEW U, Epsilons(S, U) \subseteq E, NEW t, t \in U, t \in T
  PROVE  S \subseteq T
<1>1. ASSUME NEW s \in S PROVE s \in T
  <2>1. Edge(s, Epsilon, 0, t) \in E
    BY DEF Epsilons
  <2>2. Edge(s, Epsilon, 0, t).from = s /\ Edge(s, Epsilon, 0, t).to = t
    BY DEF Edge
  <2> QED
    BY <2>1, <2>2 DEF Against
<1> QED
  BY <1>1

LEMMA LedBack ==
  ASSUME NEW E, NEW T \in SUBSET Nat, Against(E, T),
         NEW D, D \subseteq E, NEW f, f \in T, NEW n, NEW m, LeadTo(D, f, n, m)
  PROVE  n .. m \subseteq T
<1>1. Against(D, T)
  BY DEF Against
<1> QED
  BY <1>1 DEF LeadTo

LEMMA SpansIs ==
  ASSUME NEW n \in Nat, NEW m \in Nat, NEW E, n < m,
         E \subseteq EdgesIn(n, m), LeadTo(E, m, n, m)
  PROVE  Spans(Automaton(n, m, E), n)
<1>1. n .. m \subseteq Nat
  OBVIOUS
<1>2. EdgesIn(n, m) \subseteq [from : Nat, gc : Symbols, act : Nat, to : Nat]
  BY <1>1 DEF EdgesIn
<1>3. Automaton(n, m, E) \in AllAutomata
  BY <1>2 DEF Automaton, AllAutomata
<1> QED
  BY <1>3 DEF Automaton, Spans

LEMMA SpansHas ==
  ASSUME NEW n \in Nat, NEW a, Spans(a, n)
  PROVE  /\ a.begin_state = n /\ a.final_state \in Nat /\ n < a.final_state
         /\ a.edges \subseteq EdgesIn(n, a.final_state)
         /\ a \in AllAutomata
         /\ LeadTo(a.edges, a.final_state, n, a.final_state)
BY DEF Spans, AllAutomata

LEMMA CharSpans ==
  ASSUME NEW n \in Nat, NEW gc \in Gen_chars, NEW act \in Nat
  PROVE  Spans(char_def_builder(gc, act, n), n)
<1>1. Edge(n, gc, act, n + 1) \in EdgesIn(n, n + 1)
  BY DEF Edge, EdgesIn, Symbols
<1>2. PICK E : E = {Edge(n, gc, act, n + 1)}
  OBVIOUS
<1>3. ASSUME NEW T \in SUBSET Nat, n + 1 \in T, Against(E, T)
      PROVE  n .. n + 1 \subseteq T
  <2>1. n \in T
    BY <1>2, <1>3 DEF Against, Edge
  <2>2. \A s \in n .. n + 1 : s = n \/ s = n + 1
    OBVIOUS
  <2> QED
    BY <1>3, <2>1, <2>2
<1>4. LeadTo(E, n + 1, n, n + 1)
  BY <1>3 DEF LeadTo
<1> QED
  BY <1>1, <1>2, <1>4, SpansIs DEF char_def_builder

LEMMA MultiorSpans ==
  ASSUME NEW n \in Nat, NEW com, com.s \subseteq Chars, com.s # {},
         com.action_name \in Nat
  PROVE  Spans(multior_builder(com, n), n)
<1>1. PICK cs, k : cs = InOrder(com.s) /\ k = Len(cs)
  OBVIOUS
<1>2. com.s \subseteq Nat /\ IsFiniteSet(com.s)
  BY CharsFinite, FS_Subset
<1>3. k \in Nat /\ cs \in Seq(com.s)
  BY <1>1, <1>2, InOrderIs
<1>4. PICK m : m = n + 2 * k + 1
  OBVIOUS
<1>5. /\ m \in Nat /\ n < m /\ {n} \subseteq n .. m /\ {m} \subseteq n .. m
      /\ n + 1 .. n + k \subseteq n .. m
      /\ n + k + 1 .. n + 2 * k \subseteq n .. m
      /\ \A i \in 1 .. k : n + i \in n .. m /\ n + k + i \in n .. m
  BY <1>3, <1>4
<1>6. {Edge(n + i, cs[i], com.action_name, n + k + i) : i \in 1 .. k}
        \subseteq EdgesIn(n, m)
  <2>1. \A i \in 1 .. k : cs[i] \in Symbols
    BY <1>1, <1>3 DEF Symbols, Gen_chars
  <2> QED
    BY <1>5, <2>1 DEF Edge, EdgesIn
<1>7. /\ Epsilons({n}, n + 1 .. n + k) \subseteq EdgesIn(n, m)
      /\ Epsilons(n + k + 1 .. n + 2 * k, {m}) \subseteq EdgesIn(n, m)
  BY <1>5, EpsilonsIn
<1>8. multior_builder(com, n) =
        Automaton(n, m,
          Epsilons({n}, n + 1 .. n + k)
          \cup {Edge(n + i, cs[i], com.action_name, n + k + i) : i \in 1 .. k}
          \cup Epsilons(n + k + 1 .. n + 2 * k, {m}))
  BY <1>1, <1>4, Zenon DEF multior_builder
<1>9. Epsilons({n}, n + 1 .. n + k)
        \cup {Edge(n + i, cs[i], com.action_name, n + k + i) : i \in 1 .. k}
        \cup Epsilons(n + k + 1 .. n + 2 * k, {m}) \subseteq EdgesIn(n, m)
  BY <1>6, <1>7, Zenon
<1> DEFINE First == Epsilons({n}, n + 1 .. n + k)
           Mid   == {Edge(n + i, cs[i], com.action_name, n + k + i) : i \in 1 .. k}
           Last_ == Epsilons(n + k + 1 .. n + 2 * k, {m})
<1>10. PICK E : E = First \cup Mid \cup Last_
  OBVIOUS
<1>11. First \subseteq E /\ Mid \subseteq E /\ Last_ \subseteq E
  BY <1>10
<1>12. k >= 1
  <2>1. k = Cardinality(com.s)
    BY <1>1, <1>2, InOrderIs
  <2>2. k # 0
    BY <1>2, <2>1, FS_EmptySet
  <2> QED
    BY <1>3, <2>2
<1>13. ASSUME NEW T \in SUBSET Nat, m \in T, Against(E, T)
       PROVE  n .. m \subseteq T
  <2>1. n + k + 1 .. n + 2 * k \subseteq T
    <3>1. PICK S : S = n + k + 1 .. n + 2 * k
      OBVIOUS
    <3>2. Epsilons(S, {m}) \subseteq E /\ m \in {m}
      BY <1>11, <3>1
    <3>3. S \subseteq T
      BY ONLY <1>13, <3>2, EpsilonBack, SMT
    <3> QED
      BY <3>1, <3>3
  <2>2. ASSUME NEW i \in 1 .. k PROVE n + i \in T
    <3>1. PICK e \in Mid : e = Edge(n + i, cs[i], com.action_name, n + k + i)
      OBVIOUS
    <3>2. e \in E /\ e.from = n + i /\ e.to = n + k + i
      BY <1>11, <3>1 DEF Edge
    <3>3. n + k + i \in n + k + 1 .. n + 2 * k
      BY <1>3
    <3> QED
      BY <1>13, <2>1, <3>2, <3>3 DEF Against
  <2>3. n + 1 \in n + 1 .. n + k /\ n + 1 \in T
    BY <1>3, <1>12, <2>2
  <2>4. n \in T
    <3>1. PICK S : S = n + 1 .. n + k
      OBVIOUS
    <3>3. Epsilons({n}, S) \subseteq E /\ n + 1 \in S
      BY <1>11, <2>3, <3>1
    <3>2. {n} \subseteq T
      BY ONLY <1>13, <2>3, <3>3, EpsilonBack, SMT
    <3> QED
      BY <3>2
  <2>5. ASSUME NEW s \in n .. m, s # n, s # m PROVE s \in T
    <3>1. CASE s \in n + k + 1 .. n + 2 * k
      BY <2>1, <3>1
    <3>2. CASE s \notin n + k + 1 .. n + 2 * k
      <4>1. s - n \in 1 .. k /\ s = n + (s - n)
        BY <1>3, <1>4, <2>5, <3>2
      <4> QED
        BY <2>2, <4>1
    <3> QED
      BY <3>1, <3>2
  <2> QED
    BY <1>13, <2>4, <2>5
<1>14. LeadTo(E, m, n, m)
  BY <1>13 DEF LeadTo
<1> QED
  BY <1>5, <1>8, <1>9, <1>10, <1>14, SpansIs

LEMMA OrSpans ==
  ASSUME NEW n \in Nat, NEW a, Spans(a, n + 1),
         NEW b, Spans(b, a.final_state + 1)
  PROVE  Spans(or_builder(a, b, n), n)
<1>1. PICK f : f = b.final_state + 1
  OBVIOUS
<1>2. /\ a.begin_state = n + 1 /\ a.final_state \in Nat
      /\ n + 1 < a.final_state
      /\ a.edges \subseteq EdgesIn(n + 1, a.final_state)
  BY SpansHas
<1>3. /\ b.begin_state = a.final_state + 1 /\ b.final_state \in Nat
      /\ a.final_state + 1 < b.final_state
      /\ b.edges \subseteq EdgesIn(a.final_state + 1, b.final_state)
  BY <1>2, SpansHas
<1>4. /\ f \in Nat /\ n < f /\ n + 1 \in Nat /\ n <= n + 1
      /\ n <= a.final_state + 1 /\ a.final_state + 1 \in Nat
      /\ a.final_state <= f /\ b.final_state <= f
      /\ {n} \subseteq n .. f /\ {f} \subseteq n .. f
      /\ {a.begin_state, b.begin_state} \subseteq n .. f
      /\ {a.final_state, b.final_state} \subseteq n .. f
  BY <1>1, <1>2, <1>3
<1>5. a.edges \subseteq EdgesIn(n, f) /\ b.edges \subseteq EdgesIn(n, f)
  <2>1. EdgesIn(n + 1, a.final_state) \subseteq EdgesIn(n, f)
    BY <1>2, <1>4, EdgesGrow
  <2>2. EdgesIn(a.final_state + 1, b.final_state) \subseteq EdgesIn(n, f)
    BY <1>3, <1>4, EdgesGrow
  <2> QED
    BY <1>2, <1>3, <2>1, <2>2
<1>6. /\ Epsilons({n}, {a.begin_state, b.begin_state}) \subseteq EdgesIn(n, f)
      /\ Epsilons({a.final_state, b.final_state}, {f}) \subseteq EdgesIn(n, f)
  BY <1>4, EpsilonsIn
<1>7. a.edges \cup b.edges
        \cup Epsilons({n}, {a.begin_state, b.begin_state})
        \cup Epsilons({a.final_state, b.final_state}, {f})
          \subseteq EdgesIn(n, f)
  BY <1>5, <1>6, Zenon
<1>8. PICK E : E = a.edges \cup b.edges
                     \cup Epsilons({n}, {a.begin_state, b.begin_state})
                     \cup Epsilons({a.final_state, b.final_state}, {f})
  OBVIOUS
<1>9. /\ a.edges \subseteq E /\ b.edges \subseteq E
      /\ Epsilons({n}, {a.begin_state, b.begin_state}) \subseteq E
      /\ Epsilons({a.final_state, b.final_state}, {f}) \subseteq E
  BY <1>8, Zenon
<1>10. ASSUME NEW T \in SUBSET Nat, f \in T, Against(E, T)
       PROVE  n .. f \subseteq T
  <2>1. a.final_state \in T /\ b.final_state \in T
    BY <1>9, <1>10, EpsilonBack
  <2>2. /\ LeadTo(a.edges, a.final_state, n + 1, a.final_state)
        /\ LeadTo(b.edges, b.final_state, a.final_state + 1, b.final_state)
    BY <1>2, SpansHas
  <2>3. /\ n + 1 .. a.final_state \subseteq T
        /\ a.final_state + 1 .. b.final_state \subseteq T
    BY <1>9, <1>10, <2>1, <2>2, LedBack
  <2>4. a.begin_state \in T
    BY <1>2, <2>3
  <2>5. n \in T
    <3>1. a.begin_state \in {a.begin_state, b.begin_state}
      OBVIOUS
    <3>2. {n} \subseteq T
      BY ONLY <1>9, <1>10, <2>4, <3>1, EpsilonBack, SMT
    <3> QED
      BY <3>2
  <2>6. \A s \in n .. f : \/ s = n \/ s \in n + 1 .. a.final_state
                          \/ s \in a.final_state + 1 .. b.final_state \/ s = f
    BY <1>1, <1>2, <1>3
  <2> QED
    BY <1>10, <2>3, <2>5, <2>6
<1>11. LeadTo(E, f, n, f)
  BY <1>10 DEF LeadTo
<1> QED
  BY <1>1, <1>4, <1>7, <1>8, <1>11, SpansIs DEF or_builder

LEMMA ConcatSpans ==
  ASSUME NEW n \in Nat, NEW a, Spans(a, n), NEW b, Spans(b, a.final_state)
  PROVE  Spans(concat_builder(a, b, n), n)
<1>1. /\ a.final_state \in Nat /\ n < a.final_state
      /\ a.edges \subseteq EdgesIn(n, a.final_state)
  BY SpansHas
<1>2. /\ b.final_state \in Nat /\ a.final_state < b.final_state
      /\ b.edges \subseteq EdgesIn(a.final_state, b.final_state)
  BY <1>1, SpansHas
<1>3. n < b.final_state /\ n <= n /\ a.final_state <= b.final_state
      /\ n <= a.final_state /\ b.final_state <= b.final_state
  BY <1>1, <1>2
<1>4. a.edges \cup b.edges \subseteq EdgesIn(n, b.final_state)
  <2>1. EdgesIn(n, a.final_state) \subseteq EdgesIn(n, b.final_state)
    BY <1>1, <1>2, <1>3, EdgesGrow
  <2>2. EdgesIn(a.final_state, b.final_state) \subseteq EdgesIn(n, b.final_state)
    BY <1>1, <1>2, <1>3, EdgesGrow
  <2> QED
    BY <1>1, <1>2, <2>1, <2>2
<1>5. PICK E, l, m : E = a.edges \cup b.edges /\ l = a.final_state /\ m = b.final_state
  OBVIOUS
<1>6. a.edges \subseteq E /\ b.edges \subseteq E
  BY <1>5
<1>7. ASSUME NEW T \in SUBSET Nat, m \in T, Against(E, T)
      PROVE  n .. m \subseteq T
  <2>1. LeadTo(a.edges, l, n, l) /\ LeadTo(b.edges, m, l, m)
    BY <1>1, <1>5, SpansHas
  <2>2. l .. m \subseteq T
    BY <1>6, <1>7, <2>1, LedBack
  <2>3. l \in T
    BY <1>1, <1>2, <1>5, <2>2
  <2>4. n .. l \subseteq T
    BY <1>6, <1>7, <2>1, <2>3, LedBack
  <2>5. \A s \in n .. m : s \in n .. l \/ s \in l .. m
    BY <1>1, <1>2, <1>5
  <2> QED
    BY <2>2, <2>4, <2>5
<1>8. LeadTo(E, m, n, m)
  BY <1>7 DEF LeadTo
<1> QED
  BY <1>2, <1>3, <1>4, <1>5, <1>8, SpansIs DEF concat_builder

LEMMA KleeneSpans ==
  ASSUME NEW n \in Nat, NEW a, Spans(a, n + 1)
  PROVE  Spans(kleene_clos_builder(a, n), n)
<1>1. PICK f : f = a.final_state + 1
  OBVIOUS
<1>2. /\ a.begin_state = n + 1 /\ a.final_state \in Nat
      /\ n + 1 < a.final_state
      /\ a.edges \subseteq EdgesIn(n + 1, a.final_state)
  BY SpansHas
<1>3. /\ f \in Nat /\ n < f /\ n + 1 \in Nat /\ n <= n + 1
      /\ a.final_state <= f
      /\ {n, a.final_state} \subseteq n .. f
      /\ {a.begin_state, f} \subseteq n .. f
  BY <1>1, <1>2
<1>4. a.edges \cup Epsilons({n, a.final_state}, {a.begin_state, f})
        \subseteq EdgesIn(n, f)
  <2>1. EdgesIn(n + 1, a.final_state) \subseteq EdgesIn(n, f)
    BY <1>2, <1>3, EdgesGrow
  <2>2. Epsilons({n, a.final_state}, {a.begin_state, f}) \subseteq EdgesIn(n, f)
    BY <1>3, EpsilonsIn
  <2> QED
    BY <1>2, <2>1, <2>2, Zenon
<1>5. PICK E : E = a.edges \cup Epsilons({n, a.final_state}, {a.begin_state, f})
  OBVIOUS
<1>6. /\ a.edges \subseteq E
      /\ Epsilons({n, a.final_state}, {a.begin_state, f}) \subseteq E
  BY <1>5
<1>7. ASSUME NEW T \in SUBSET Nat, f \in T, Against(E, T)
      PROVE  n .. f \subseteq T
  <2>1. n \in T /\ a.final_state \in T
    BY <1>6, <1>7, EpsilonBack
  <2>2. LeadTo(a.edges, a.final_state, n + 1, a.final_state)
    BY SpansHas
  <2>3. n + 1 .. a.final_state \subseteq T
    BY <1>6, <1>7, <2>1, <2>2, LedBack
  <2>4. \A s \in n .. f : s = n \/ s \in n + 1 .. a.final_state \/ s = f
    BY <1>1, <1>2
  <2> QED
    BY <1>7, <2>1, <2>3, <2>4
<1>8. LeadTo(E, f, n, f)
  BY <1>7 DEF LeadTo
<1> QED
  BY <1>1, <1>3, <1>4, <1>5, <1>8, SpansIs DEF kleene_clos_builder

LEMMA OptionalSpans ==
  ASSUME NEW n \in Nat, NEW a, Spans(a, n + 1)
  PROVE  Spans(optional_builder(a, n), n)
<1>1. PICK l, f : l = a.final_state /\ f = l + 3
  OBVIOUS
<1>2. /\ l \in Nat /\ n + 1 < l /\ a.edges \subseteq EdgesIn(n + 1, l)
  BY <1>1, SpansHas
<1>3. /\ f \in Nat /\ n < f /\ n + 1 \in Nat /\ n <= n + 1 /\ l <= f
      /\ {n} \subseteq n .. f /\ {n + 1, l + 1} \subseteq n .. f
      /\ {l + 1} \subseteq n .. f /\ {l + 2} \subseteq n .. f
      /\ {l, l + 2} \subseteq n .. f /\ {f} \subseteq n .. f
  BY <1>1, <1>2
<1>4. a.edges \cup Epsilons({n}, {n + 1, l + 1})
        \cup Epsilons({l + 1}, {l + 2}) \cup Epsilons({l, l + 2}, {f})
          \subseteq EdgesIn(n, f)
  <2>1. EdgesIn(n + 1, l) \subseteq EdgesIn(n, f)
    BY <1>2, <1>3, EdgesGrow
  <2>2. /\ Epsilons({n}, {n + 1, l + 1}) \subseteq EdgesIn(n, f)
        /\ Epsilons({l + 1}, {l + 2}) \subseteq EdgesIn(n, f)
        /\ Epsilons({l, l + 2}, {f}) \subseteq EdgesIn(n, f)
    BY <1>3, EpsilonsIn
  <2> QED
    BY <1>2, <2>1, <2>2, Zenon
<1>5. PICK E : E = a.edges \cup Epsilons({n}, {n + 1, l + 1})
                     \cup Epsilons({l + 1}, {l + 2}) \cup Epsilons({l, l + 2}, {f})
  OBVIOUS
<1>6. /\ a.edges \subseteq E /\ Epsilons({n}, {n + 1, l + 1}) \subseteq E
      /\ Epsilons({l + 1}, {l + 2}) \subseteq E /\ Epsilons({l, l + 2}, {f}) \subseteq E
  BY <1>5, Zenon
<1>7. ASSUME NEW T \in SUBSET Nat, f \in T, Against(E, T)
      PROVE  n .. f \subseteq T
  <2>1. l \in T /\ l + 2 \in T
    BY <1>6, <1>7, EpsilonBack
  <2>2. l + 1 \in T
    BY <1>6, <1>7, <2>1, EpsilonBack
  <2>3. n \in T
    BY <1>6, <1>7, <2>2, EpsilonBack
  <2>4. LeadTo(a.edges, l, n + 1, l)
    BY <1>1, SpansHas
  <2>5. n + 1 .. l \subseteq T
    BY <1>6, <1>7, <2>1, <2>4, LedBack
  <2>6. \A s \in n .. f : \/ s = n \/ s \in n + 1 .. l
                          \/ s = l + 1 \/ s = l + 2 \/ s = f
    BY <1>1, <1>2
  <2> QED
    BY <1>7, <2>1, <2>2, <2>3, <2>5, <2>6
<1>8. LeadTo(E, f, n, f)
  BY <1>7 DEF LeadTo
<1> QED
  BY <1>1, <1>3, <1>4, <1>5, <1>8, SpansIs DEF optional_builder

LEMMA PositiveSpans ==
  ASSUME NEW n \in Nat, NEW a, Spans(a, n)
  PROVE  Spans(positive_clos_builder(a, n), n)
<1>1. PICK l, k, f : l = a.final_state /\ k = l - n + 1 /\ f = l + k + 1
  OBVIOUS
<1>2. /\ l \in Nat /\ n < l /\ a.edges \subseteq EdgesIn(n, l)
  BY <1>1, SpansHas
<1>3. /\ k \in Nat /\ f \in Nat /\ n < f /\ n <= n /\ l <= f
      /\ {l, l + k} \subseteq n .. f /\ {n + k, f} \subseteq n .. f
      /\ \A x \in n .. l : x + k \in n .. f
  BY <1>1, <1>2
<1> DEFINE moved == {[e EXCEPT !.from = @ + k, !.to = @ + k] : e \in a.edges}
<1>4. moved \subseteq EdgesIn(n, f)
  <2>1. ASSUME NEW e \in a.edges
        PROVE  [e EXCEPT !.from = @ + k, !.to = @ + k] \in EdgesIn(n, f)
    <3>1. e \in EdgesIn(n, l)
      BY <1>2
    <3>2. e.from + k \in n .. f /\ e.to + k \in n .. f
      BY <1>3, <3>1 DEF EdgesIn
    <3> QED
      BY <3>1, <3>2 DEF EdgesIn
  <2> QED
    BY <2>1
<1>5. a.edges \cup moved \cup Epsilons({l, l + k}, {n + k, f})
        \subseteq EdgesIn(n, f)
  <2>1. EdgesIn(n, l) \subseteq EdgesIn(n, f)
    BY <1>2, <1>3, EdgesGrow
  <2>2. Epsilons({l, l + k}, {n + k, f}) \subseteq EdgesIn(n, f)
    BY <1>3, EpsilonsIn
  <2> HIDE DEF moved
  <2> QED
    BY <1>2, <1>4, <2>1, <2>2, Zenon
<1>6. positive_clos_builder(a, n) =
        Automaton(n, f, a.edges \cup moved \cup Epsilons({l, l + k}, {n + k, f}))
  BY <1>1, Zenon DEF positive_clos_builder
<1>7. PICK E : E = a.edges \cup moved \cup Epsilons({l, l + k}, {n + k, f})
  OBVIOUS
<1>8. /\ a.edges \subseteq E /\ moved \subseteq E
      /\ Epsilons({l, l + k}, {n + k, f}) \subseteq E
  BY <1>7
<1>9. ASSUME NEW T \in SUBSET Nat, f \in T, Against(E, T)
      PROVE  n .. f \subseteq T
  <2>1. l \in T /\ l + k \in T
    <3>1. Epsilons({l, l + k}, {n + k, f}) \subseteq E /\ f \in {n + k, f}
      BY <1>8
    <3>2. {l, l + k} \subseteq T
      BY ONLY <1>9, <3>1, EpsilonBack, SMT
    <3> QED
      BY <3>2
  <2>2. LeadTo(a.edges, l, n, l)
    BY <1>1, SpansHas
  <2>3. n .. l \subseteq T
    BY <1>8, <1>9, <2>1, <2>2, LedBack
  <2>4. PICK U : U = {s \in Nat : s + k \in T}
    OBVIOUS
  <2>5. Against(a.edges, U)
    <3>1. ASSUME NEW e \in a.edges, e.to \in U PROVE e.from \in U
      <4>1. PICK d : d = [e EXCEPT !.from = @ + k, !.to = @ + k]
        OBVIOUS
      <4>2. e \in EdgesIn(n, l)
        BY <1>2
      <4>3. d.from = e.from + k /\ d.to = e.to + k /\ e.from \in Nat
        BY <4>1, <4>2 DEF EdgesIn
      <4>5. d \in E
        BY <1>8, <4>1
      <4>4. d.to \in T
        BY <2>4, <3>1, <4>3
      <4> QED
        BY <1>9, <2>4, <4>3, <4>4, <4>5 DEF Against
    <3> QED
      BY <3>1 DEF Against
  <2>6. n .. l \subseteq U
    <3>1. l \in U /\ U \in SUBSET Nat
      BY <1>2, <2>1, <2>4
    <3> QED
      BY <2>2, <2>5, <3>1 DEF LeadTo
  <2>7. ASSUME NEW s \in n .. f, s \notin n .. l, s # f PROVE s \in T
    <3>1. s - k \in n .. l /\ s = (s - k) + k
      BY <1>1, <1>2, <2>7
    <3> QED
      BY <2>4, <2>6, <3>1
  <2> QED
    BY <1>9, <2>3, <2>7
<1>10. LeadTo(E, f, n, f)
  BY <1>9 DEF LeadTo
<1> HIDE DEF moved
<1> QED
  BY <1>3, <1>5, <1>6, <1>7, <1>10, SpansIs

-----------------------------------------------------------------------------
(* multiconcat_builder.                                                    *)

(* A function that gives an automaton from every number on.                *)
SpansAll(g) == \A n \in Nat : Spans(g[n], n)

IsChain(gs, first, last, n, f) ==
  f = [k \in first .. last |->
         IF k = first THEN gs[k][n]
         ELSE concat_builder(f[k - 1], gs[k][f[k - 1].final_state], n)]

Spanning(n) == {a \in AllAutomata : Spans(a, n)}

LEMMA ChainStep ==
  ASSUME NEW n \in Nat, NEW first \in Nat, NEW last \in Nat, NEW gs,
         \A k \in first .. last : SpansAll(gs[k]),
         NEW k \in first .. last, NEW h,
         \A j \in first .. k - 1 : h[j] \in [i \in first .. last |-> Spanning(n)][j]
  PROVE  (IF k = first THEN gs[k][n]
          ELSE concat_builder(h[k - 1], gs[k][h[k - 1].final_state], n))
            \in [i \in first .. last |-> Spanning(n)][k]
<1>1. CASE k = first
  <2>1. Spans(gs[k][n], n)
    BY DEF SpansAll
  <2> QED
    BY <1>1, <2>1, SpansHas DEF Spanning
<1>2. CASE k # first
  <2>1. k - 1 \in first .. k - 1 /\ k - 1 \in first .. last
    BY <1>2
  <2>2. Spans(h[k - 1], n)
    BY <2>1 DEF Spanning
  <2>3. Spans(gs[k][h[k - 1].final_state], h[k - 1].final_state)
    BY <2>2, SpansHas DEF SpansAll
  <2>4. Spans(concat_builder(h[k - 1], gs[k][h[k - 1].final_state], n), n)
    BY <2>2, <2>3, ConcatSpans
  <2> QED
    BY <1>2, <2>4, SpansHas DEF Spanning
<1> QED
  BY <1>1, <1>2

LEMMA ChainExists ==
  ASSUME NEW n \in Nat, NEW first \in Nat, NEW last \in Nat, NEW gs,
         \A k \in first .. last : SpansAll(gs[k])
  PROVE  \E f : IsChain(gs, first, last, n, f)
<1> DEFINE X == [i \in first .. last |-> Spanning(n)]
           Link(k, h) ==
             IF k = first THEN gs[k][n]
             ELSE concat_builder(h[k - 1], gs[k][h[k - 1].final_state], n)
           F == [k \in first .. last |-> [h \in Earlier(X, first, k) |-> Link(k, h)]]
<1>1. ASSUME NEW k \in first .. last, NEW h \in Earlier(X, first, k)
      PROVE  F[k][h] \in X[k]
  <2>1. F[k][h] = Link(k, h)
    OBVIOUS
  <2>2. \A j \in first .. k - 1 : h[j] \in X[j]
    BY DEF Earlier
  <2>3. Link(k, h) \in X[k]
    BY <2>2, ChainStep
  <2> QED
    BY <2>1, <2>3
<1>2. \A k \in first .. last : \A h \in Earlier(X, first, k) :
        F[k][h] = Link(k, h)
  OBVIOUS
<1> HIDE DEF X, F
<1>3. PICK f : /\ Recursive(f, F, first, last)
               /\ \A k \in first .. last :
                    Before(f, first, k) \in Earlier(X, first, k)
  BY <1>1, Recursion
<1>4. ASSUME NEW k \in first .. last PROVE f[k] = Link(k, f)
  <2>1. f[k] = F[k][Before(f, first, k)]
    BY <1>3 DEF Recursive
  <2>2. f[k] = Link(k, Before(f, first, k))
    BY <1>2, <1>3, <2>1
  <2>3. k # first => Before(f, first, k)[k - 1] = f[k - 1]
    BY DEF Before
  <2> QED
    BY <2>2, <2>3
<1>5. f = [k \in first .. last |-> f[k]]
  BY <1>3 DEF Recursive
<1>6. IsChain(gs, first, last, n, f)
  BY <1>4, <1>5 DEF IsChain
<1> QED
  BY <1>6

LEMMA MulticoncatSpans ==
  ASSUME NEW n \in Nat, NEW first \in Nat, NEW last \in Nat, first <= last,
         NEW gs, \A k \in first .. last : SpansAll(gs[k])
  PROVE  Spans(multiconcat_builder(gs, first, last, n), n)
<1>1. PICK f : f = CHOOSE g : IsChain(gs, first, last, n, g)
  OBVIOUS
<1>2. IsChain(gs, first, last, n, f)
  BY <1>1, ChainExists, Zenon
<1>3. multiconcat_builder(gs, first, last, n) = f[last]
  BY <1>1, Zenon DEF multiconcat_builder, IsChain
<1> DEFINE X == [i \in first .. last |-> Spanning(n)]
<1>4. ASSUME NEW k \in first .. last, \A j \in first .. k - 1 : f[j] \in X[j]
      PROVE  f[k] \in X[k]
  <2>1. f[k] = IF k = first THEN gs[k][n]
               ELSE concat_builder(f[k - 1], gs[k][f[k - 1].final_state], n)
    BY <1>2 DEF IsChain
  <2> QED
    BY <1>4, <2>1, ChainStep
<1>5. \A k \in first .. last : f[k] \in X[k]
  <2> HIDE DEF X
  <2> QED
    BY <1>4, RecursionTyped
<1>6. last \in first .. last
  OBVIOUS
<1>7. f[last] \in Spanning(n)
  BY <1>5, <1>6
<1> QED
  BY <1>3, <1>7 DEF Spanning

-----------------------------------------------------------------------------
(* A buffer of commands: an operand comes before its command, and those of *)
(* a multiconcat are characters or sets of them.                           *)

Simple == {"char_def", "multior", "ndq", "nsq"}

(* com at the place i, behind the commands of b.                           *)
Placed(b, com, i) ==
  /\ com.kind \in Binary => com.first \in 1 .. i - 1 /\ com.second \in 1 .. i - 1
  /\ com.kind \in Unary => com.first \in 1 .. i - 1
  /\ com.kind = "multiconcat"
       => /\ com.first \in 1 .. i - 1 /\ com.second \in com.first .. i - 1
          /\ \A k \in com.first .. com.second : b[k].kind \in Simple
  /\ com.kind = "char_def" => \E c \in Chars : com.s = {c}
  /\ com.kind = "multior" => com.s # {}

InPlace(b, i) == Placed(b, b[i], i)

Complete(b) ==
  b \in Seq(UnwrappedCommands) /\ \A i \in 1 .. Len(b) : InPlace(b, i)

LEMMA LetterOf ==
  ASSUME NEW b, NEW i, InPlace(b, i), b[i] \in UnwrappedCommands,
         b[i].kind \in {"char_def", "ndq", "nsq"}
  PROVE  (CHOOSE gc \in Letters(b[i]) : TRUE) \in Gen_chars
<1>1. Letters(b[i]) # {} /\ Letters(b[i]) \subseteq Gen_chars
  <2>1. CASE b[i].kind = "ndq"
    BY <2>1, Zenon DEF Letters, Gen_chars
  <2>2. CASE b[i].kind = "nsq"
    BY <2>2, Zenon DEF Letters, Gen_chars
  <2>3. CASE b[i].kind = "char_def"
    <3>1. PICK c \in Chars : b[i].s = {c}
      BY <2>3 DEF InPlace, Placed
    <3>2. Letters(b[i]) = {c}
      BY <2>3, <3>1, Zenon DEF Letters
    <3> QED
      BY <3>2, Zenon DEF Gen_chars
  <2> QED
    BY <2>1, <2>2, <2>3
<1> QED
  BY <1>1, Zenon

LEMMA GenerateStep ==
  ASSUME NEW b, Complete(b), NEW i \in 1 .. Len(b), NEW gen,
         \A j \in 1 .. i - 1 : SpansAll(gen[j]), NEW n \in Nat
  PROVE  Spans(generate_NDFA_for_command(b[i], gen, n), n)
<1>1. PICK com : com = b[i]
  OBVIOUS
<1>2. /\ com \in UnwrappedCommands /\ InPlace(b, i)
      /\ i \in Nat /\ i >= 1
  <2>1. Len(b) \in Nat /\ i \in DOMAIN b
    BY DEF Complete
  <2> QED
    BY <1>1, <2>1 DEF Complete
<1>3. /\ com.kind \in Binary \cup Unary \cup Simple \cup {"multiconcat"}
      /\ com.action_name \in Nat /\ com.s \subseteq Chars
      /\ com.first \in Nat /\ com.second \in Nat
  BY <1>2, Zenon DEF UnwrappedCommands, Simple
<1>4. ASSUME com.first \in 1 .. i - 1
      PROVE  /\ Spans(gen[com.first][n], n)
             /\ Spans(gen[com.first][n + 1], n + 1)
  BY <1>4 DEF SpansAll
<1>5. CASE com.kind = "or"
  <2>1. com.first \in 1 .. i - 1 /\ com.second \in 1 .. i - 1
    BY <1>1, <1>2, <1>5 DEF InPlace, Placed, Binary
  <2>2. PICK a, m : a = gen[com.first][n + 1] /\ m = a.final_state + 1
    OBVIOUS
  <2>3. Spans(a, n + 1) /\ m \in Nat
    <3>1. n + 1 \in Nat /\ Spans(a, n + 1)
      BY <1>4, <2>1, <2>2
    <3>2. a.final_state \in Nat
      BY <3>1, SpansHas
    <3> QED
      BY <2>2, <3>1, <3>2
  <2>4. Spans(gen[com.second][m], m)
    BY <2>1, <2>3 DEF SpansAll
  <2>5. Spans(or_builder(a, gen[com.second][m], n), n)
    BY <2>2, <2>3, <2>4, OrSpans
  <2>6. generate_NDFA_for_command(com, gen, n)
          = or_builder(a, gen[com.second][m], n)
    BY <1>5, <2>2, Zenon DEF generate_NDFA_for_command
  <2> QED
    BY <1>1, <2>5, <2>6
<1>6. CASE com.kind = "concat"
  <2>1. com.first \in 1 .. i - 1 /\ com.second \in 1 .. i - 1
    BY <1>1, <1>2, <1>6 DEF InPlace, Placed, Binary
  <2>2. PICK a, m : a = gen[com.first][n] /\ m = a.final_state
    OBVIOUS
  <2>3. Spans(a, n) /\ m \in Nat
    BY <1>4, <2>1, <2>2, SpansHas
  <2>4. Spans(gen[com.second][m], m)
    BY <2>1, <2>3 DEF SpansAll
  <2>5. Spans(concat_builder(a, gen[com.second][m], n), n)
    BY <2>2, <2>3, <2>4, ConcatSpans
  <2>6. generate_NDFA_for_command(com, gen, n)
          = concat_builder(a, gen[com.second][m], n)
    BY <1>6, <2>2, Zenon DEF generate_NDFA_for_command
  <2> QED
    BY <1>1, <2>5, <2>6
<1>7. CASE com.kind = "multiconcat"
  <2>1. com.first \in 1 .. i - 1 /\ com.second \in com.first .. i - 1
    BY <1>1, <1>2, <1>7 DEF InPlace, Placed
  <2>2. PICK gs : gs = [k \in com.first .. com.second |-> gen[k]]
    OBVIOUS
  <2>3. \A k \in com.first .. com.second : k \in 1 .. i - 1 /\ gs[k] = gen[k]
    BY <1>3, <2>1, <2>2
  <2>4. \A k \in com.first .. com.second : SpansAll(gs[k])
    BY <2>3
  <2>5. com.first <= com.second
    BY <1>3, <2>1
  <2>6. Spans(multiconcat_builder(gs, com.first, com.second, n), n)
    BY <1>3, <2>4, <2>5, MulticoncatSpans
  <2>7. generate_NDFA_for_command(com, gen, n)
          = multiconcat_builder(gs, com.first, com.second, n)
    BY <1>7, <2>2, Zenon DEF generate_NDFA_for_command
  <2> QED
    BY <1>1, <2>6, <2>7
<1>8. CASE com.kind \in Unary
  <2>1. Spans(gen[com.first][n], n) /\ Spans(gen[com.first][n + 1], n + 1)
    BY <1>1, <1>2, <1>4, <1>8 DEF InPlace, Placed
  <2>2. CASE com.kind = "Kleene"
    <3>1. generate_NDFA_for_command(com, gen, n)
            = kleene_clos_builder(gen[com.first][n + 1], n)
      BY <2>2, Zenon DEF generate_NDFA_for_command
    <3> QED
      BY <1>1, <2>1, <3>1, KleeneSpans
  <2>3. CASE com.kind = "positive"
    <3>1. generate_NDFA_for_command(com, gen, n)
            = positive_clos_builder(gen[com.first][n], n)
      BY <2>3, Zenon DEF generate_NDFA_for_command
    <3> QED
      BY <1>1, <2>1, <3>1, PositiveSpans
  <2>4. CASE com.kind = "optional"
    <3>1. generate_NDFA_for_command(com, gen, n)
            = optional_builder(gen[com.first][n + 1], n)
      BY <2>4, Zenon DEF generate_NDFA_for_command
    <3> QED
      BY <1>1, <2>1, <3>1, OptionalSpans
  <2> QED
    BY <1>8, <2>2, <2>3, <2>4, Zenon DEF Unary
<1>9. CASE com.kind = "multior"
  <2>1. generate_NDFA_for_command(com, gen, n) = multior_builder(com, n)
    BY <1>9, Zenon DEF generate_NDFA_for_command
  <2>2. com.s # {}
    BY <1>1, <1>2, <1>9 DEF InPlace, Placed
  <2> QED
    BY <1>1, <1>3, <2>1, <2>2, MultiorSpans
<1>10. CASE com.kind \in {"char_def", "ndq", "nsq"}
  <2>1. PICK gc : gc = CHOOSE x \in Letters(com) : TRUE
    OBVIOUS
  <2>2. gc \in Gen_chars
    BY <1>1, <1>2, <1>10, <2>1, LetterOf
  <2>3. generate_NDFA_for_command(com, gen, n)
          = char_def_builder(gc, com.action_name, n)
    BY <1>10, <2>1, Zenon DEF generate_NDFA_for_command
  <2> QED
    BY <1>1, <1>3, <2>2, <2>3, CharSpans
<1> QED
  BY <1>3, <1>5, <1>6, <1>7, <1>8, <1>9, <1>10, Zenon DEF Binary, Simple

(* Of the automata of other commands only those before it matter.          *)
LEMMA GenerateSame ==
  ASSUME NEW b, Complete(b), NEW i \in 1 .. Len(b), NEW g, NEW h,
         \A j \in 1 .. i - 1 : g[j] = h[j], NEW n
  PROVE  generate_NDFA_for_command(b[i], g, n)
           = generate_NDFA_for_command(b[i], h, n)
<1>1. PICK com : com = b[i]
  OBVIOUS
<1>2. com \in UnwrappedCommands /\ InPlace(b, i) /\ i \in Nat
  <2>1. Len(b) \in Nat /\ i \in DOMAIN b
    BY DEF Complete
  <2> QED
    BY <1>1, <2>1 DEF Complete
<1>3. /\ com.kind \in Binary \cup Unary \cup Simple \cup {"multiconcat"}
      /\ com.first \in Nat /\ com.second \in Nat
  BY <1>2, Zenon DEF UnwrappedCommands, Simple
<1>4. CASE com.kind \in Binary
  <2>1. g[com.first] = h[com.first] /\ g[com.second] = h[com.second]
    BY <1>1, <1>2, <1>4 DEF InPlace, Placed
  <2>2. CASE com.kind = "or"
    BY <1>1, <2>1, <2>2, Zenon DEF generate_NDFA_for_command
  <2>3. CASE com.kind = "concat"
    BY <1>1, <2>1, <2>3, Zenon DEF generate_NDFA_for_command
  <2> QED
    BY <1>4, <2>2, <2>3, Zenon DEF Binary
<1>5. CASE com.kind = "multiconcat"
  <2>1. com.first \in 1 .. i - 1 /\ com.second \in com.first .. i - 1
    BY <1>1, <1>2, <1>5 DEF InPlace, Placed
  <2>2. \A k \in com.first .. com.second : k \in 1 .. i - 1
    BY <1>3, <2>1
  <2>3. \A k \in com.first .. com.second : g[k] = h[k]
    BY <2>2
  <2>4. [k \in com.first .. com.second |-> g[k]]
          = [k \in com.first .. com.second |-> h[k]]
    BY <2>3, Zenon
  <2> QED
    BY <1>1, <1>5, <2>4, Zenon DEF generate_NDFA_for_command
<1>6. CASE com.kind \in Unary
  <2>1. g[com.first] = h[com.first]
    BY <1>1, <1>2, <1>6 DEF InPlace, Placed
  <2>2. CASE com.kind = "Kleene"
    BY <1>1, <2>1, <2>2, Zenon DEF generate_NDFA_for_command
  <2>3. CASE com.kind = "positive"
    BY <1>1, <2>1, <2>3, Zenon DEF generate_NDFA_for_command
  <2>4. CASE com.kind = "optional"
    BY <1>1, <2>1, <2>4, Zenon DEF generate_NDFA_for_command
  <2> QED
    BY <1>6, <2>2, <2>3, <2>4, Zenon DEF Unary
<1>7. CASE com.kind = "multior"
  BY <1>1, <1>7, Zenon DEF generate_NDFA_for_command
<1>8. CASE com.kind \in {"char_def", "ndq", "nsq"}
  <2>1. \A x : generate_NDFA_for_command(com, x, n)
                 = char_def_builder(CHOOSE gc \in Letters(com) : TRUE,
                                    com.action_name, n)
    BY <1>8, Zenon DEF generate_NDFA_for_command
  <2> QED
    BY <1>1, <2>1, Zenon
<1> QED
  BY <1>3, <1>4, <1>5, <1>6, <1>7, <1>8, Zenon DEF Simple

IsGen(b, f) ==
  f = [i \in 1 .. Len(b) |->
         [n \in Nat |-> generate_NDFA_for_command(b[i], f, n)]]

Generators(N) == [i \in 1 .. N |-> {g \in [Nat -> AllAutomata] : SpansAll(g)}]

LEMMA GeneratorStep ==
  ASSUME NEW b, Complete(b), NEW i \in 1 .. Len(b), NEW h,
         \A j \in 1 .. i - 1 : h[j] \in Generators(Len(b))[j],
         NEW g, g = [n \in Nat |-> generate_NDFA_for_command(b[i], h, n)]
  PROVE  g \in Generators(Len(b))[i]
<1>0. Len(b) \in Nat
  BY DEF Complete
<1>1. \A j \in 1 .. i - 1 : SpansAll(h[j])
  <2>1. \A j \in 1 .. i - 1 : j \in 1 .. Len(b)
    BY <1>0
  <2> QED
    BY <2>1 DEF Generators
<1>2. \A n \in Nat : Spans(generate_NDFA_for_command(b[i], h, n), n)
  BY <1>1, GenerateStep
<1>3. SpansAll(g) /\ \A n \in Nat : g[n] \in AllAutomata
  BY <1>2, SpansHas DEF SpansAll
<1>4. g \in [Nat -> AllAutomata]
  BY <1>3
<1> QED
  BY <1>3, <1>4 DEF Generators

LEMMA GenExists ==
  ASSUME NEW b, Complete(b)
  PROVE  \E f : IsGen(b, f)
<1> DEFINE N == Len(b)
           X == Generators(N)
           Made(i, h) == [n \in Nat |-> generate_NDFA_for_command(b[i], h, n)]
           F == [i \in 1 .. N |-> [h \in Earlier(X, 1, i) |-> Made(i, h)]]
<1>0. N \in Nat
  BY DEF Complete
<1>1. \A i \in 1 .. N : \A h \in Earlier(X, 1, i) : F[i][h] = Made(i, h)
  OBVIOUS
<1>2. ASSUME NEW i \in 1 .. N, NEW h \in Earlier(X, 1, i)
      PROVE  F[i][h] \in X[i]
  <2>1. \A j \in 1 .. i - 1 : h[j] \in X[j]
    BY DEF Earlier
  <2>2. Made(i, h) \in X[i]
    BY <1>1, <2>1, GeneratorStep
  <2> QED
    BY <1>1, <2>2
<1> HIDE DEF X, F, N
<1>3. PICK f : /\ Recursive(f, F, 1, N)
               /\ \A i \in 1 .. N : Before(f, 1, i) \in Earlier(X, 1, i)
  BY <1>0, <1>2, Recursion
<1>4. ASSUME NEW i \in 1 .. N PROVE f[i] = Made(i, f)
  <2>1. f[i] = Made(i, Before(f, 1, i))
    BY <1>1, <1>3 DEF Recursive
  <2>2. \A j \in 1 .. i - 1 : Before(f, 1, i)[j] = f[j]
    BY DEF Before
  <2>3. \A n \in Nat : generate_NDFA_for_command(b[i], Before(f, 1, i), n)
                         = generate_NDFA_for_command(b[i], f, n)
    <3>1. PICK h : h = Before(f, 1, i)
      OBVIOUS
    <3>2. i \in 1 .. Len(b) /\ \A j \in 1 .. i - 1 : h[j] = f[j]
      BY <2>2, <3>1 DEF N
    <3>3. \A n : generate_NDFA_for_command(b[i], h, n)
                   = generate_NDFA_for_command(b[i], f, n)
      BY <3>2, GenerateSame, ZenonT(30)
    <3> QED
      BY <3>1, <3>3
  <2>4. Made(i, Before(f, 1, i)) = Made(i, f)
    BY <2>3, Zenon
  <2> QED
    BY <2>1, <2>4
<1>5. f = [i \in 1 .. N |-> f[i]]
  BY <1>3 DEF Recursive
<1>6. IsGen(b, f)
  BY <1>4, <1>5 DEF IsGen, N
<1> QED
  BY <1>6

(* The automaton of a buffer has the states from 0 on.                     *)
LEMMA BuildSpans ==
  ASSUME NEW b, Complete(b), b # <<>>
  PROVE  Spans(build_NDFA(b), 0)
<1>1. PICK f : f = CHOOSE g : IsGen(b, g)
  OBVIOUS
<1>2. IsGen(b, f)
  BY <1>1, GenExists, Zenon
<1>3. build_NDFA(b) = f[Len(b)][0]
  BY <1>1, Zenon DEF build_NDFA, IsGen
<1>4. PICK N, X : N = Len(b) /\ X = Generators(N)
  OBVIOUS
<1>5. N \in Nat /\ N \in 1 .. N
  BY <1>4 DEF Complete
<1>6. ASSUME NEW i \in 1 .. N, \A j \in 1 .. i - 1 : f[j] \in X[j]
      PROVE  f[i] \in X[i]
  <2>1. f[i] = [n \in Nat |-> generate_NDFA_for_command(b[i], f, n)]
    BY <1>2, <1>4 DEF IsGen
  <2> QED
    <3>1. \A j \in 1 .. i - 1 : f[j] \in Generators(Len(b))[j]
      BY <1>4, <1>6
    <3> QED
      BY <1>4, <2>1, <3>1, GeneratorStep
<1>7. \A i \in 1 .. N : f[i] \in X[i]
  BY <1>5, <1>6, RecursionTyped
<1>8. SpansAll(f[N])
  BY <1>4, <1>5, <1>7 DEF Generators
<1> QED
  BY <1>3, <1>4, <1>8 DEF SpansAll

(* What is written behind a buffer leaves the commands of it in place.     *)
LEMMA PlacedSame ==
  ASSUME NEW a, NEW c, NEW i \in Nat, NEW com,
         \A k \in 1 .. i - 1 : c[k] = a[k], Placed(a, com, i),
         com.first \in Nat, com.second \in Nat
  PROVE  Placed(c, com, i)
<1>1. ASSUME com.kind = "multiconcat", NEW k \in com.first .. com.second
      PROVE  c[k].kind \in Simple
  <2>1. /\ com.first \in 1 .. i - 1 /\ com.second \in com.first .. i - 1
        /\ a[k].kind \in Simple
    BY <1>1 DEF Placed
  <2>2. k \in 1 .. i - 1
    BY <1>1, <2>1
  <2> QED
    BY <2>1, <2>2
<1> QED
  BY <1>1 DEF Placed

LEMMA OperandsNat ==
  ASSUME NEW b \in Seq(UnwrappedCommands), NEW i \in 1 .. Len(b)
  PROVE  /\ b[i] \in UnwrappedCommands /\ b[i].first \in Nat
         /\ b[i].second \in Nat /\ b[i].s \subseteq Chars
         /\ b[i].action_name \in Nat
<1>1. b[i] \in UnwrappedCommands
  OBVIOUS
<1> QED
  BY <1>1 DEF UnwrappedCommands

LEMMA AddCommand ==
  ASSUME NEW a, Complete(a), NEW com \in UnwrappedCommands,
         Placed(a, com, Len(a) + 1)
  PROVE  /\ Complete(Append(a, com)) /\ Append(a, com) # <<>>
         /\ Len(Append(a, com)) = Len(a) + 1
<1>1. PICK c : c = Append(a, com)
  OBVIOUS
<1>2. a \in Seq(UnwrappedCommands) /\ Len(a) \in Nat
  BY DEF Complete
<1>3. /\ c \in Seq(UnwrappedCommands) /\ Len(c) = Len(a) + 1 /\ c # <<>>
      /\ c[Len(a) + 1] = com /\ \A k \in 1 .. Len(a) : c[k] = a[k]
  BY <1>1, <1>2
<1>4. ASSUME NEW i \in 1 .. Len(c) PROVE InPlace(c, i)
  <2>1. CASE i = Len(a) + 1
    <3>1. com.first \in Nat /\ com.second \in Nat
      BY DEF UnwrappedCommands
    <3>2. \A k \in 1 .. i - 1 : c[k] = a[k]
      BY <1>2, <1>3, <2>1
    <3>3. Placed(c, com, i)
      BY <1>2, <2>1, <3>1, <3>2, PlacedSame
    <3> QED
      BY <1>3, <2>1, <3>3 DEF InPlace
  <2>2. CASE i # Len(a) + 1
    <3>1. i \in 1 .. Len(a) /\ i \in Nat
      BY <1>2, <1>3, <2>2
    <3>2. Placed(a, a[i], i)
      BY <3>1 DEF Complete, InPlace
    <3>3. a[i].first \in Nat /\ a[i].second \in Nat
      BY <1>2, <3>1, OperandsNat
    <3>4. \A k \in 1 .. i - 1 : c[k] = a[k]
      BY <1>2, <1>3, <3>1
    <3>5. Placed(c, a[i], i)
      BY <3>1, <3>2, <3>3, <3>4, PlacedSame
    <3> QED
      BY <1>3, <3>1, <3>5 DEF InPlace
  <2> QED
    BY <2>1, <2>2
<1> QED
  BY <1>1, <1>3, <1>4 DEF Complete

LEMMA TwoAppended ==
  ASSUME NEW S, NEW r \in Seq(S), NEW x \in S, NEW y \in S
  PROVE  r \o <<x, y>> = Append(Append(r, x), y)
OBVIOUS

Kinds == Binary \cup Unary
           \cup {"char_def", "multior", "ndq", "nsq", "multiconcat"}

LEMMA UnwrappedAre ==
  UnwrappedCommands = [kind : Kinds, action_name : Nat, first : Nat,
                       second : Nat, s : SUBSET Chars]
BY Zenon DEF UnwrappedCommands, Kinds

LEMMA OperandsMoved ==
  ASSUME NEW com \in UnwrappedCommands, NEW x \in Nat, NEW y \in Nat, NEW new,
         new = [com EXCEPT !.first = x, !.second = y]
  PROVE  /\ new \in UnwrappedCommands /\ new.kind = com.kind
         /\ new.s = com.s /\ new.first = x /\ new.second = y
         /\ new.action_name = com.action_name
BY UnwrappedAre

LEMMA OperandMoved ==
  ASSUME NEW com \in UnwrappedCommands, NEW x \in Nat, NEW new,
         new = [com EXCEPT !.first = x]
  PROVE  /\ new \in UnwrappedCommands /\ new.kind = com.kind
         /\ new.s = com.s /\ new.first = x /\ new.second = com.second
BY UnwrappedAre

Moved_on(b, n, i) ==
  CASE b[i].kind \in Binary \cup {"multiconcat"} ->
         [b[i] EXCEPT !.first = @ + n, !.second = @ + n]
    [] b[i].kind \in Unary -> [b[i] EXCEPT !.first = @ + n]
    [] OTHER -> b[i]

(* The commands of b moved behind n others.                                *)
MovedBehind(b, n, t) ==
  /\ t \in Seq(UnwrappedCommands) /\ Len(t) = Len(b)
  /\ \A j \in 1 .. Len(b) :
       /\ t[j] \in UnwrappedCommands /\ t[j].kind = b[j].kind
       /\ t[j].s = b[j].s
       /\ b[j].kind \in Binary \cup {"multiconcat"}
            => t[j].first = b[j].first + n /\ t[j].second = b[j].second + n
       /\ b[j].kind \in Unary => t[j].first = b[j].first + n

LEMMA ShiftedAre ==
  ASSUME NEW b \in Seq(UnwrappedCommands), NEW n \in Nat, NEW t,
         t = Shifted(b, n)
  PROVE  MovedBehind(b, n, t)
<1>1. t = Shifted(b, n)
  OBVIOUS
<1>2. n \in Nat /\ Len(b) \in Nat /\ b \in Seq(UnwrappedCommands)
  OBVIOUS
<1>3. ASSUME NEW j \in 1 .. Len(b)
      PROVE  /\ t[j] \in UnwrappedCommands /\ t[j].kind = b[j].kind
             /\ t[j].s = b[j].s
             /\ b[j].kind \in Binary \cup {"multiconcat"}
                  => t[j].first = b[j].first + n /\ t[j].second = b[j].second + n
             /\ b[j].kind \in Unary => t[j].first = b[j].first + n
  <2>1. j \in DOMAIN b /\ b[j] \in UnwrappedCommands
    BY <1>2
  <2>2. t[j] = CASE b[j].kind \in Binary \cup {"multiconcat"} ->
                      [b[j] EXCEPT !.first = @ + n, !.second = @ + n]
                 [] b[j].kind \in Unary -> [b[j] EXCEPT !.first = @ + n]
                 [] OTHER -> b[j]
    BY <1>1, <2>1, Zenon DEF Shifted
  <2>3. CASE b[j].kind \in Binary \cup {"multiconcat"}
    <3>1. b[j].kind \notin Unary
      BY <2>3 DEF Binary, Unary
    <3>2. t[j] = [b[j] EXCEPT !.first = b[j].first + n,
                              !.second = b[j].second + n]
      BY <2>2, <2>3, <3>1, Zenon
    <3>3. b[j].first + n \in Nat /\ b[j].second + n \in Nat
      BY <1>2, OperandsNat
    <3>4. PICK com, x, y : /\ com = b[j] /\ x = b[j].first + n
                           /\ y = b[j].second + n
      OBVIOUS
    <3>5. /\ com \in UnwrappedCommands /\ x \in Nat /\ y \in Nat
          /\ t[j] = [com EXCEPT !.first = x, !.second = y]
      BY <2>1, <3>2, <3>3, <3>4
    <3>6. /\ t[j] \in UnwrappedCommands /\ t[j].kind = com.kind
          /\ t[j].s = com.s /\ t[j].first = x /\ t[j].second = y
      <4>1. PICK new : new = t[j]
        OBVIOUS
      <4>2. new = [com EXCEPT !.first = x, !.second = y]
        BY <3>5, <4>1
      <4>3. /\ new \in UnwrappedCommands /\ new.kind = com.kind
            /\ new.s = com.s /\ new.first = x /\ new.second = y
        BY <3>5, <4>2, UnwrappedAre
      <4> QED
        BY <4>1, <4>3
    <3> QED
      BY <3>1, <3>4, <3>6
  <2>4. CASE b[j].kind \in Unary
    <3>1. b[j].kind \notin Binary \cup {"multiconcat"}
      BY <2>4 DEF Binary, Unary
    <3>2. t[j] = [b[j] EXCEPT !.first = b[j].first + n]
      BY <2>2, <2>4, <3>1, Zenon
    <3>3. b[j].first + n \in Nat /\ b[j].second \in Nat
      BY <1>2, OperandsNat
    <3>4. PICK com, x : com = b[j] /\ x = b[j].first + n
      OBVIOUS
    <3>5. /\ com \in UnwrappedCommands /\ x \in Nat
          /\ t[j] = [com EXCEPT !.first = x]
      BY <2>1, <3>2, <3>3, <3>4
    <3>6. /\ t[j] \in UnwrappedCommands /\ t[j].kind = com.kind
          /\ t[j].s = com.s /\ t[j].first = x
      BY <3>5, OperandMoved
    <3> QED
      BY <2>4, <3>1, <3>4, <3>6
  <2>5. CASE /\ b[j].kind \notin Binary \cup {"multiconcat"}
             /\ b[j].kind \notin Unary
    <3>1. t[j] = b[j]
      BY <2>2, <2>5, Zenon
    <3> QED
      BY <2>1, <2>5, <3>1
  <2> QED
    BY <2>3, <2>4, <2>5
<1>4. t \in Seq(UnwrappedCommands) /\ Len(t) = Len(b)
  <2>1. t = [j \in 1 .. Len(b) |-> t[j]]
    <3>1. DOMAIN b = 1 .. Len(b)
      BY <1>2
    <3>2. Shifted(b, n) = [i \in DOMAIN b |-> Moved_on(b, n, i)]
      BY Zenon DEF Shifted, Moved_on
    <3> QED
      BY <1>1, <3>1, <3>2
  <2>2. \A j \in 1 .. Len(b) : t[j] \in UnwrappedCommands
    BY <1>3
  <2>3. t \in [1 .. Len(b) -> UnwrappedCommands]
    BY <2>1, <2>2
  <2> QED
    BY <1>2, <2>3
<1> QED
  BY <1>3, <1>4 DEF MovedBehind

(* The commands of one buffer behind those of another.                     *)
LEMMA ShiftedComplete ==
  ASSUME NEW a, Complete(a), NEW b, Complete(b)
  PROVE  /\ Complete(a \o Shifted(b, Len(a)))
         /\ Len(a \o Shifted(b, Len(a))) = Len(a) + Len(b)
<1>1. PICK n, t, c : n = Len(a) /\ t = Shifted(b, n) /\ c = a \o t
  OBVIOUS
<1>2. /\ a \in Seq(UnwrappedCommands) /\ b \in Seq(UnwrappedCommands)
      /\ n \in Nat /\ Len(b) \in Nat
  BY <1>1 DEF Complete
<1>3. /\ t \in Seq(UnwrappedCommands) /\ Len(t) = Len(b)
      /\ \A j \in 1 .. Len(b) :
           /\ t[j] \in UnwrappedCommands /\ t[j].kind = b[j].kind
           /\ t[j].s = b[j].s
           /\ b[j].kind \in Binary \cup {"multiconcat"}
                => t[j].first = b[j].first + n /\ t[j].second = b[j].second + n
           /\ b[j].kind \in Unary => t[j].first = b[j].first + n
  <2>1. MovedBehind(b, n, t)
    BY <1>1, <1>2, ShiftedAre
  <2> QED
    BY <2>1 DEF MovedBehind
<1>4. t \in Seq(UnwrappedCommands) /\ Len(t) = Len(b)
  BY <1>3
<1>5. /\ c \in Seq(UnwrappedCommands) /\ Len(c) = n + Len(b)
      /\ \A k \in 1 .. n : c[k] = a[k]
      /\ \A j \in 1 .. Len(b) : c[n + j] = t[j]
  BY <1>1, <1>2, <1>4
<1>6. ASSUME NEW i \in 1 .. n PROVE InPlace(c, i)
  <2>1. i \in 1 .. Len(a) /\ i \in Nat
    BY <1>1, <1>2
  <2>2. Placed(a, a[i], i)
    BY <2>1 DEF Complete, InPlace
  <2>3. a[i].first \in Nat /\ a[i].second \in Nat
    BY <1>2, <2>1, OperandsNat
  <2>4. \A k \in 1 .. i - 1 : c[k] = a[k]
    BY <1>2, <1>5, <2>1
  <2>5. Placed(c, a[i], i)
    BY <2>1, <2>2, <2>3, <2>4, PlacedSame
  <2> QED
    BY <1>5, <2>5 DEF InPlace
<1>7. ASSUME NEW j \in 1 .. Len(b) PROVE InPlace(c, n + j)
  <2>1. PICK com : com = t[j] /\ com = c[n + j]
    BY <1>5
  <2>2. Placed(b, b[j], j)
    BY DEF Complete, InPlace
  <2>3. b[j].first \in Nat /\ b[j].second \in Nat /\ j \in Nat
    BY <1>2, OperandsNat
  <2>8. com.kind = b[j].kind
    BY <1>3, <2>1
  <2>4. com.kind \in Binary =>
          com.first \in 1 .. n + j - 1 /\ com.second \in 1 .. n + j - 1
    <3> SUFFICES ASSUME com.kind \in Binary
                 PROVE  com.first \in 1 .. n + j - 1 /\ com.second \in 1 .. n + j - 1
      OBVIOUS
    <3>1. b[j].first \in 1 .. j - 1 /\ b[j].second \in 1 .. j - 1
      BY <2>2, <2>8 DEF Placed
    <3>2. com.first = b[j].first + n /\ com.second = b[j].second + n
      BY <1>3, <2>1, <2>8
    <3> QED
      BY <1>2, <2>3, <3>1, <3>2
  <2>5. com.kind \in Unary => com.first \in 1 .. n + j - 1
    <3> SUFFICES ASSUME com.kind \in Unary PROVE com.first \in 1 .. n + j - 1
      OBVIOUS
    <3>1. b[j].first \in 1 .. j - 1
      BY <2>2, <2>8 DEF Placed
    <3>2. com.first = b[j].first + n
      BY <1>3, <2>1, <2>8
    <3> QED
      BY <1>2, <2>3, <3>1, <3>2
  <2>6. com.kind = "multiconcat"
          => /\ com.first \in 1 .. n + j - 1
             /\ com.second \in com.first .. n + j - 1
             /\ \A k \in com.first .. com.second : c[k].kind \in Simple
    <3> SUFFICES ASSUME com.kind = "multiconcat"
                 PROVE  /\ com.first \in 1 .. n + j - 1
                        /\ com.second \in com.first .. n + j - 1
                        /\ \A k \in com.first .. com.second :
                             c[k].kind \in Simple
      OBVIOUS
    <3>1. /\ b[j].first \in 1 .. j - 1 /\ b[j].second \in b[j].first .. j - 1
          /\ \A k \in b[j].first .. b[j].second : b[k].kind \in Simple
      BY <2>2, <2>8 DEF Placed
    <3>2. com.first = b[j].first + n /\ com.second = b[j].second + n
      BY <1>3, <2>1, <2>8
    <3>3. com.first \in 1 .. n + j - 1 /\ com.second \in com.first .. n + j - 1
      BY <1>2, <2>3, <3>1, <3>2
    <3>4. ASSUME NEW k \in com.first .. com.second PROVE c[k].kind \in Simple
      <4>1. /\ k - n \in b[j].first .. b[j].second /\ k - n \in 1 .. Len(b)
            /\ k = n + (k - n)
        BY <1>2, <2>3, <3>1, <3>2
      <4>2. c[k] = t[k - n]
        BY <1>5, <4>1
      <4>3. t[k - n].kind = b[k - n].kind
        BY <1>3, <4>1
      <4> QED
        BY <3>1, <4>1, <4>2, <4>3
    <3> QED
      BY <3>3, <3>4
  <2>7. com.kind = "char_def" => \E ch \in Chars : com.s = {ch}
    BY <1>3, <2>1, <2>2, <2>8 DEF Placed
  <2>10. com.kind = "multior" => com.s # {}
    BY <1>3, <2>1, <2>2, <2>8 DEF Placed
  <2>9. Placed(c, com, n + j)
    <3>1. PICK i : i = n + j
      OBVIOUS
    <3>2. /\ com.kind \in Binary =>
               com.first \in 1 .. i - 1 /\ com.second \in 1 .. i - 1
          /\ com.kind \in Unary => com.first \in 1 .. i - 1
      BY <1>2, <2>3, <2>4, <2>5, <3>1
    <3>3. com.kind = "multiconcat"
            => /\ com.first \in 1 .. i - 1
               /\ com.second \in com.first .. i - 1
               /\ \A k \in com.first .. com.second : c[k].kind \in Simple
      BY <1>2, <2>3, <2>6, <3>1
    <3>4. Placed(c, com, i)
      BY <2>7, <2>10, <3>2, <3>3, Zenon DEF Placed
    <3> QED
      BY <3>1, <3>4
  <2> QED
    BY <2>1, <2>9 DEF InPlace
<1>8. ASSUME NEW i \in 1 .. Len(c) PROVE InPlace(c, i)
  <2>1. CASE i \in 1 .. n
    BY <1>6, <2>1
  <2>2. CASE i \notin 1 .. n
    <3>1. i - n \in 1 .. Len(b) /\ i = n + (i - n)
      BY <1>2, <1>5, <2>2
    <3> QED
      BY <1>7, <3>1
  <2> QED
    BY <2>1, <2>2
<1>9. Complete(c)
  BY <1>5, <1>8 DEF Complete
<1> QED
  BY <1>1, <1>5, <1>9

LEMMA FreshCommand ==
  ASSUME NEW kind \in Kinds
  PROVE  /\ Unwrapped(kind) \in UnwrappedCommands
         /\ Unwrapped(kind).kind = kind
BY UnwrappedAre DEF Unwrapped

LEMMA AddBinary ==
  ASSUME NEW a, Complete(a), NEW name \in Binary,
         NEW x \in 1 .. Len(a), NEW y \in 1 .. Len(a), NEW com,
         com = [Unwrapped(name) EXCEPT !.first = x, !.second = y]
  PROVE  /\ Complete(Append(a, com)) /\ Append(a, com) # <<>>
         /\ Len(Append(a, com)) = Len(a) + 1 /\ com \in UnwrappedCommands
<1>1. name \in Kinds
  BY DEF Kinds
<1>2. PICK new : new = Unwrapped(name)
  OBVIOUS
<1>3. Len(a) \in Nat /\ x \in Nat /\ y \in Nat
  BY DEF Complete
<1>4. /\ com \in UnwrappedCommands /\ com.kind = name
      /\ com.first = x /\ com.second = y
  <2>1. new \in UnwrappedCommands /\ new.kind = name
    BY <1>1, <1>2, FreshCommand
  <2>2. com = [new EXCEPT !.first = x, !.second = y]
    BY <1>2
  <2> QED
    BY <1>3, <2>1, <2>2, UnwrappedAre
<1>5. Placed(a, com, Len(a) + 1)
  <2>1. /\ com.kind \notin Unary /\ com.kind # "multiconcat"
        /\ com.kind # "char_def" /\ com.kind # "multior"
    BY <1>4 DEF Binary, Unary
  <2>2. PICK i : i = Len(a) + 1
    OBVIOUS
  <2>3. com.first \in 1 .. i - 1 /\ com.second \in 1 .. i - 1
    BY <1>3, <1>4, <2>2
  <2>4. Placed(a, com, i)
    BY <2>1, <2>3, Zenon DEF Placed
  <2> QED
    BY <2>2, <2>4
<1> QED
  BY <1>4, <1>5, AddCommand

LEMMA AddUnary ==
  ASSUME NEW a, Complete(a), NEW name \in Unary, NEW x \in 1 .. Len(a), NEW com,
         com = [Unwrapped(name) EXCEPT !.first = x]
  PROVE  /\ Complete(Append(a, com)) /\ Append(a, com) # <<>>
         /\ Len(Append(a, com)) = Len(a) + 1 /\ com \in UnwrappedCommands
<1>1. name \in Kinds
  BY DEF Kinds
<1>2. PICK new : new = Unwrapped(name)
  OBVIOUS
<1>3. Len(a) \in Nat /\ x \in Nat
  BY DEF Complete
<1>4. com \in UnwrappedCommands /\ com.kind = name /\ com.first = x
  <2>1. new \in UnwrappedCommands /\ new.kind = name
    BY <1>1, <1>2, FreshCommand
  <2>2. com = [new EXCEPT !.first = x]
    BY <1>2
  <2> QED
    BY <1>3, <2>1, <2>2, UnwrappedAre
<1>5. Placed(a, com, Len(a) + 1)
  <2>1. /\ com.kind \notin Binary /\ com.kind # "multiconcat"
        /\ com.kind # "char_def" /\ com.kind # "multior"
    BY <1>4 DEF Binary, Unary
  <2>2. PICK i : i = Len(a) + 1
    OBVIOUS
  <2>3. com.first \in 1 .. i - 1
    BY <1>3, <1>4, <2>2
  <2>4. Placed(a, com, i)
    BY <2>1, <2>3, Zenon DEF Placed
  <2> QED
    BY <2>2, <2>4
<1> QED
  BY <1>4, <1>5, AddCommand

LEMMA AddChar ==
  ASSUME NEW a, Complete(a), NEW c \in Chars, NEW com,
         com = [Unwrapped("char_def") EXCEPT !.s = {c}]
  PROVE  /\ Complete(Append(a, com)) /\ Append(a, com) # <<>>
         /\ Len(Append(a, com)) = Len(a) + 1 /\ com \in UnwrappedCommands
<1>1. PICK new : new = Unwrapped("char_def")
  OBVIOUS
<1>2. com \in UnwrappedCommands /\ com.kind = "char_def" /\ com.s = {c}
  <2>1. new \in UnwrappedCommands /\ new.kind = "char_def"
    BY <1>1, FreshCommand DEF Kinds
  <2>2. com = [new EXCEPT !.s = {c}]
    BY <1>1
  <2> QED
    BY <2>1, <2>2, UnwrappedAre
<1>3. Placed(a, com, Len(a) + 1)
  BY <1>2 DEF Placed, Binary, Unary
<1> QED
  BY <1>2, <1>3, AddCommand

LEMMA EmptyComplete == Complete(<<>>)
BY DEF Complete

LEMMA OrComplete ==
  ASSUME NEW a, Complete(a), NEW b, Complete(b)
  PROVE  /\ Complete(regexp1_or_regexp2(a, b))
         /\ a # <<>> \/ b # <<>> => regexp1_or_regexp2(a, b) # <<>>
<1>1. CASE a = <<>> \/ b = <<>>
  BY <1>1 DEF regexp1_or_regexp2
<1>2. CASE a # <<>> /\ b # <<>>
  <2>1. PICK t, com :
          /\ t = a \o Shifted(b, Len(a))
          /\ com = [Unwrapped("or") EXCEPT !.first = Len(a),
                                           !.second = Len(a) + Len(b)]
    OBVIOUS
  <2>2. Complete(t) /\ Len(t) = Len(a) + Len(b)
    BY <2>1, ShiftedComplete
  <2>3. Len(a) \in 1 .. Len(t) /\ Len(a) + Len(b) \in 1 .. Len(t)
    BY <1>2, <2>2 DEF Complete
  <2>4. Complete(Append(t, com)) /\ Append(t, com) # <<>>
    BY <2>1, <2>2, <2>3, AddBinary DEF Binary
  <2>5. regexp1_or_regexp2(a, b) = t \o <<com>>
    BY <1>2, <2>1, Zenon DEF regexp1_or_regexp2
  <2>6. com \in UnwrappedCommands /\ t \in Seq(UnwrappedCommands)
    BY <2>1, <2>2, <2>3, AddBinary DEF Binary, Complete
  <2>7. t \o <<com>> = Append(t, com)
    BY <2>6
  <2> QED
    BY <2>4, <2>5, <2>7
<1> QED
  BY <1>1, <1>2

LEMMA AstComplete ==
  ASSUME NEW a, Complete(a), a # <<>>, NEW b, Complete(b)
  PROVE  /\ Complete(regexp1_with_regexp2ast(a, b))
         /\ regexp1_with_regexp2ast(a, b) # <<>>
<1>1. PICK n, t, x, y :
        /\ n = Len(a) + Len(b) /\ t = a \o Shifted(b, Len(a))
        /\ x = [Unwrapped("Kleene") EXCEPT !.first = n]
        /\ y = [Unwrapped("concat") EXCEPT !.first = Len(a), !.second = n + 1]
  OBVIOUS
<1>2. Complete(t) /\ Len(t) = n
  BY <1>1, ShiftedComplete
<1>3. Len(a) \in 1 .. n /\ n \in 1 .. n /\ n \in Nat
  BY <1>1 DEF Complete
<1>4. /\ Complete(Append(t, x)) /\ Len(Append(t, x)) = n + 1
      /\ x \in UnwrappedCommands
  BY <1>1, <1>2, <1>3, AddUnary DEF Unary
<1>5. PICK u : u = Append(t, x)
  OBVIOUS
<1>6. /\ Complete(Append(u, y)) /\ Append(u, y) # <<>>
      /\ y \in UnwrappedCommands
  <2>1. Complete(u) /\ Len(a) \in 1 .. Len(u) /\ n + 1 \in 1 .. Len(u)
    BY <1>3, <1>4, <1>5
  <2> QED
    BY <1>1, <2>1, AddBinary DEF Binary
<1>7. regexp1_with_regexp2ast(a, b) = t \o <<x, y>>
  BY <1>1, Zenon DEF regexp1_with_regexp2ast
<1>8. t \in Seq(UnwrappedCommands)
  BY <1>2 DEF Complete
<1>9. t \o <<x, y>> = Append(Append(t, x), y)
  BY <1>4, <1>6, <1>8, TwoAppended
<1> QED
  BY <1>5, <1>6, <1>7, <1>9

(* An action set on every command.                                         *)
ButAction(b, c) ==
  /\ c \in Seq(UnwrappedCommands) /\ Len(c) = Len(b)
  /\ \A i \in 1 .. Len(b) :
       /\ c[i] \in UnwrappedCommands /\ c[i].kind = b[i].kind
       /\ c[i].first = b[i].first /\ c[i].second = b[i].second
       /\ c[i].s = b[i].s

LEMMA ActionsAre ==
  ASSUME NEW b \in Seq(UnwrappedCommands), NEW act \in Nat, NEW c,
         c = WithAction(b, act)
  PROVE  ButAction(b, c)
<1>1. c = WithAction(b, act)
  OBVIOUS
<1>2. b \in Seq(UnwrappedCommands) /\ Len(b) \in Nat /\ DOMAIN b = 1 .. Len(b)
  OBVIOUS
<1>3. c = [i \in 1 .. Len(b) |-> [b[i] EXCEPT !.action_name = act]]
  BY <1>1, <1>2, Zenon DEF WithAction
<1>4. ASSUME NEW i \in 1 .. Len(b)
      PROVE  /\ c[i] \in UnwrappedCommands /\ c[i].kind = b[i].kind
             /\ c[i].first = b[i].first /\ c[i].second = b[i].second
             /\ c[i].s = b[i].s
  <2>1. PICK com : com = b[i]
    OBVIOUS
  <2>2. com \in UnwrappedCommands
    BY <1>2, <2>1
  <2>3. PICK new : new = c[i]
    OBVIOUS
  <2>4. new = [com EXCEPT !.action_name = act]
    BY <1>3, <2>1, <2>3
  <2>5. /\ new \in UnwrappedCommands /\ new.kind = com.kind
        /\ new.first = com.first /\ new.second = com.second /\ new.s = com.s
    BY <2>2, <2>4, UnwrappedAre
  <2> QED
    BY <2>1, <2>3, <2>5
<1>5. c \in Seq(UnwrappedCommands) /\ Len(c) = Len(b)
  <2>1. c \in [1 .. Len(b) -> UnwrappedCommands]
    BY <1>3, <1>4
  <2> QED
    BY <1>2, <2>1
<1> QED
  BY <1>4, <1>5 DEF ButAction

LEMMA ActionComplete ==
  ASSUME NEW b, Complete(b), b # <<>>, NEW act \in Nat
  PROVE  Complete(WithAction(b, act)) /\ WithAction(b, act) # <<>>
<1>1. PICK c : c = WithAction(b, act)
  OBVIOUS
<1>2. b \in Seq(UnwrappedCommands) /\ Len(b) \in Nat /\ DOMAIN b = 1 .. Len(b)
  BY DEF Complete
<1>3. ButAction(b, c)
  BY <1>1, <1>2, ActionsAre
<1>4. \A i \in 1 .. Len(b) :
        /\ c[i] \in UnwrappedCommands /\ c[i].kind = b[i].kind
        /\ c[i].first = b[i].first /\ c[i].second = b[i].second
        /\ c[i].s = b[i].s
  BY <1>3 DEF ButAction
<1>5. c \in Seq(UnwrappedCommands) /\ Len(c) = Len(b)
  BY <1>3 DEF ButAction
<1>6. ASSUME NEW i \in 1 .. Len(b) PROVE InPlace(c, i)
  <2>1. Placed(b, b[i], i)
    BY DEF Complete, InPlace
  <2>2. ASSUME b[i].kind = "multiconcat", NEW k \in b[i].first .. b[i].second
        PROVE  c[k].kind \in Simple
    <3>1. /\ b[i].first \in 1 .. i - 1 /\ b[i].second \in b[i].first .. i - 1
          /\ b[k].kind \in Simple
      BY <2>1, <2>2 DEF Placed
    <3>2. b[i].first \in Nat /\ b[i].second \in Nat
      BY <1>2, OperandsNat
    <3>3. k \in 1 .. Len(b)
      BY <1>2, <2>2, <3>1, <3>2
    <3> QED
      BY <1>4, <3>1, <3>3
  <2>3. PICK com, old : com = c[i] /\ old = b[i]
    OBVIOUS
  <2>4. /\ com.kind = old.kind /\ com.first = old.first
        /\ com.second = old.second /\ com.s = old.s
    BY <1>4, <2>3
  <2>5. Placed(c, com, i)
    BY <2>1, <2>2, <2>3, <2>4 DEF Placed
  <2> QED
    BY <2>3, <2>5 DEF InPlace
<1>7. c # <<>>
  BY <1>2, <1>5
<1> QED
  BY <1>1, <1>5, <1>6, <1>7 DEF Complete

-----------------------------------------------------------------------------
(* A recursion that needs the value before only: G[k] makes the value at k *)
(* of the one at k - 1.                                                    *)
Steps(f, G, s, m, n) ==
  f = [k \in m .. n |-> IF k = m THEN s ELSE G[k][f[k - 1]]]

LEMMA StepsExist ==
  ASSUME NEW m \in Nat, NEW n \in Nat, NEW X, NEW G, NEW s, s \in X[m],
         \A k \in m + 1 .. n : \A x \in X[k - 1] : G[k][x] \in X[k]
  PROVE  \E f : Steps(f, G, s, m, n) /\ \A k \in m .. n : f[k] \in X[k]
<1> DEFINE F == [k \in m .. n |-> [h \in Earlier(X, m, k) |->
                   IF k = m THEN s ELSE G[k][h[k - 1]]]]
<1>1. \A k \in m .. n : \A h \in Earlier(X, m, k) :
        F[k][h] = IF k = m THEN s ELSE G[k][h[k - 1]]
  OBVIOUS
<1>2. ASSUME NEW k \in m .. n, NEW h \in Earlier(X, m, k)
      PROVE  F[k][h] \in X[k]
  <2>1. CASE k = m
    BY <1>1, <2>1
  <2>2. CASE k # m
    <3>1. k - 1 \in m .. k - 1 /\ k \in m + 1 .. n
      BY <2>2
    <3>2. h[k - 1] \in X[k - 1]
      BY <3>1 DEF Earlier
    <3>3. G[k][h[k - 1]] \in X[k]
      BY <3>1, <3>2
    <3> QED
      BY <1>1, <2>2, <3>3
  <2> QED
    BY <2>1, <2>2
<1> HIDE DEF F
<1>3. PICK f : /\ Recursive(f, F, m, n)
               /\ \A k \in m .. n : Before(f, m, k) \in Earlier(X, m, k)
  BY <1>2, Recursion
<1>4. ASSUME NEW k \in m .. n
      PROVE  /\ f[k] = IF k = m THEN s ELSE G[k][f[k - 1]]
             /\ f[k] \in X[k]
  <2>1. f[k] = F[k][Before(f, m, k)]
    BY <1>3 DEF Recursive
  <2>2. f[k] = IF k = m THEN s ELSE G[k][Before(f, m, k)[k - 1]]
    BY <1>1, <1>3, <2>1
  <2>3. k # m => Before(f, m, k)[k - 1] = f[k - 1]
    BY DEF Before
  <2> QED
    BY <1>2, <1>3, <2>1, <2>2, <2>3
<1>5. f = [k \in m .. n |-> f[k]]
  BY <1>3 DEF Recursive
<1>6. Steps(f, G, s, m, n)
  BY <1>4, <1>5 DEF Steps
<1> QED
  BY <1>4, <1>6

-----------------------------------------------------------------------------
(* The commands of a string.                                               *)
Buffers == {b \in Seq(UnwrappedCommands) : Complete(b) /\ b # <<>>}

Char_of(c) == [Unwrapped("char_def") EXCEPT !.s = {c}]
Spell_on(r, c) ==
  r \o << Char_of(c), [Unwrapped("concat") EXCEPT
                         !.first = Len(r), !.second = Len(r) + 1] >>
IsSpelt(str, f) ==
  f = [k \in 1 .. Len(str) |-> IF k = 1 THEN <<Char_of(str[1])>>
                               ELSE Spell_on(f[k - 1], str[k])]

LEMMA CharBuffer ==
  ASSUME NEW c \in Chars
  PROVE  <<Char_of(c)>> \in Buffers
<1>1. PICK com : com = Char_of(c)
  OBVIOUS
<1>2. /\ Complete(Append(<<>>, com)) /\ Append(<<>>, com) # <<>>
      /\ com \in UnwrappedCommands
  BY <1>1, AddChar, EmptyComplete DEF Char_of
<1>3. Append(<<>>, com) = <<com>>
  OBVIOUS
<1> QED
  BY <1>1, <1>2, <1>3 DEF Buffers

LEMMA SpellBuffer ==
  ASSUME NEW c \in Chars, NEW r \in Buffers
  PROVE  Spell_on(r, c) \in Buffers
<1>1. PICK x, y, u : /\ x = Char_of(c) /\ u = Append(r, x)
                     /\ y = [Unwrapped("concat") EXCEPT
                               !.first = Len(r), !.second = Len(r) + 1]
  OBVIOUS
<1>2. Complete(r) /\ r # <<>> /\ r \in Seq(UnwrappedCommands)
  BY DEF Buffers
<1>3. Complete(u) /\ Len(u) = Len(r) + 1 /\ x \in UnwrappedCommands
  BY <1>1, <1>2, AddChar DEF Char_of
<1>4. Len(r) \in 1 .. Len(u) /\ Len(r) + 1 \in 1 .. Len(u)
  BY <1>2, <1>3
<1>5. /\ Complete(Append(u, y)) /\ Append(u, y) # <<>>
      /\ y \in UnwrappedCommands
  <2>1. "concat" \in Binary
    BY DEF Binary
  <2>2. PICK p, q : p = Len(r) /\ q = Len(r) + 1
    OBVIOUS
  <2>3. y = [Unwrapped("concat") EXCEPT !.first = p, !.second = q]
    BY <1>1, <2>2
  <2>4. p \in 1 .. Len(u) /\ q \in 1 .. Len(u)
    BY <1>4, <2>2
  <2> QED
    BY <1>3, <2>1, <2>3, <2>4, AddBinary
<1>6. Spell_on(r, c) = Append(u, y)
  BY <1>1, <1>2, <1>3, <1>5, TwoAppended DEF Spell_on
<1> QED
  BY <1>5, <1>6 DEF Buffers, Complete

LEMMA SpeltExists ==
  ASSUME NEW str \in Seq(Chars), str # <<>>
  PROVE  \E f : IsSpelt(str, f)
<1>1. PICK n, X, G :
        /\ n = Len(str) /\ X = [k \in 1 .. n |-> Buffers]
        /\ G = [k \in 1 .. n |-> [r \in Buffers |-> Spell_on(r, str[k])]]
  OBVIOUS
<1>2. n \in Nat /\ 1 \in 1 .. n /\ n \in 1 .. n
  BY <1>1
<1>3. \A k \in 1 .. n : str[k] \in Chars
  BY <1>1
<1>4. \A k \in 1 .. n : \A r \in Buffers : Spell_on(r, str[k]) \in Buffers
  BY <1>3, SpellBuffer
<1>5. <<Char_of(str[1])>> \in Buffers
  BY <1>2, <1>3, CharBuffer
<1>6. \E f : IsSpelt(str, f)
  <2>1. \A k \in 1 + 1 .. n : k \in 1 .. n /\ k - 1 \in 1 .. n
    BY <1>2
  <2>2. \A k \in 1 + 1 .. n : \A x \in X[k - 1] : G[k][x] \in X[k]
    BY <1>1, <1>4, <2>1
  <2>3. <<Char_of(str[1])>> \in X[1]
    BY <1>1, <1>2, <1>5
  <2>4. PICK f : /\ Steps(f, G, <<Char_of(str[1])>>, 1, n)
                 /\ \A k \in 1 .. n : f[k] \in X[k]
    BY <1>2, <2>2, <2>3, StepsExist
  <2>5. ASSUME NEW k \in 1 .. n
        PROVE  f[k] = IF k = 1 THEN <<Char_of(str[1])>>
                      ELSE Spell_on(f[k - 1], str[k])
    <3>1. f[k] = IF k = 1 THEN <<Char_of(str[1])>> ELSE G[k][f[k - 1]]
      BY <2>4 DEF Steps
    <3>2. k # 1 => k - 1 \in 1 .. n
      BY <1>2
    <3>3. k # 1 => f[k - 1] \in Buffers
      BY <1>1, <2>4, <3>2
    <3>4. k # 1 => G[k][f[k - 1]] = Spell_on(f[k - 1], str[k])
      BY <1>1, <3>3
    <3> QED
      BY <3>1, <3>4
  <2>6. f = [k \in 1 .. n |-> f[k]]
    BY <2>4 DEF Steps
  <2>7. IsSpelt(str, f)
    BY <1>1, <2>5, <2>6 DEF IsSpelt
  <2> QED
    BY <2>7
<1> QED
  BY <1>6

LEMMA StringComplete ==
  ASSUME NEW str \in Seq(Chars), str # <<>>
  PROVE  u32string_to_commands(str) \in Buffers
<1>1. PICK n, X, G :
        /\ n = Len(str) /\ X = [k \in 1 .. n |-> Buffers]
        /\ G = [k \in 1 .. n |-> [r \in Buffers |-> Spell_on(r, str[k])]]
  OBVIOUS
<1>2. n \in Nat /\ 1 \in 1 .. n /\ n \in 1 .. n
  BY <1>1
<1>3. \A k \in 1 .. n : str[k] \in Chars
  BY <1>1
<1>4. \A k \in 1 .. n : \A r \in Buffers : Spell_on(r, str[k]) \in Buffers
  BY <1>3, SpellBuffer
<1>5. <<Char_of(str[1])>> \in Buffers
  BY <1>2, <1>3, CharBuffer
<1>6. \E f : IsSpelt(str, f)
  BY SpeltExists
<1>7. PICK f : f = CHOOSE g : IsSpelt(str, g)
  OBVIOUS
<1>8. IsSpelt(str, f)
  BY <1>6, <1>7, Zenon
<1>9. u32string_to_commands(str) = f[Len(str)]
  BY <1>7, Zenon DEF u32string_to_commands, IsSpelt, Spell_on, Char_of
<1>10. ASSUME NEW k \in 1 .. n, \A j \in 1 .. k - 1 : f[j] \in X[j]
       PROVE  f[k] \in X[k]
  <2>1. f[k] = IF k = 1 THEN <<Char_of(str[1])>>
               ELSE Spell_on(f[k - 1], str[k])
    BY <1>1, <1>8 DEF IsSpelt
  <2>2. k # 1 => k - 1 \in 1 .. k - 1 /\ k - 1 \in 1 .. n
    BY <1>2
  <2>3. k # 1 => f[k - 1] \in Buffers
    BY <1>1, <1>10, <2>2
  <2> QED
    BY <1>1, <1>4, <1>5, <2>1, <2>3
<1>11. \A k \in 1 .. n : f[k] \in X[k]
  BY <1>2, <1>10, RecursionTyped
<1> QED
  BY <1>1, <1>2, <1>9, <1>11

-----------------------------------------------------------------------------
(* The commands of the keywords.                                           *)
Completes == {b \in Seq(UnwrappedCommands) : Complete(b)}

IsJoined(strs, f) ==
  f = [k \in 0 .. Len(strs) |->
         IF k = 0 THEN <<>>
         ELSE regexp1_or_regexp2(f[k - 1], u32string_to_commands(strs[k]))]

LEMMA StringsJoined ==
  ASSUME NEW strs \in Seq(Seq(Chars) \ {<<>>})
  PROVE  \E f : IsJoined(strs, f)
<1>1. PICK n, X, G :
        /\ n = Len(strs) /\ X = [k \in 0 .. n |-> Completes]
        /\ G = [k \in 0 .. n |-> [r \in Completes |->
                  regexp1_or_regexp2(r, u32string_to_commands(strs[k]))]]
  OBVIOUS
<1>2. n \in Nat /\ 0 \in 0 .. n /\ n \in 0 .. n
  BY <1>1
<1>3. ASSUME NEW k \in 1 .. n, NEW r \in Completes
      PROVE  regexp1_or_regexp2(r, u32string_to_commands(strs[k])) \in Completes
  <2>1. strs[k] \in Seq(Chars) \ {<<>>}
    BY <1>1
  <2>2. strs[k] \in Seq(Chars) /\ strs[k] # <<>>
    BY <2>1
  <2>3. u32string_to_commands(strs[k]) \in Buffers
    BY <2>2, StringComplete
  <2>4. Complete(regexp1_or_regexp2(r, u32string_to_commands(strs[k])))
    BY <2>3, OrComplete DEF Buffers, Completes
  <2> QED
    BY <2>4 DEF Completes, Complete
<1>5. <<>> \in Completes
  BY EmptyComplete DEF Completes, Complete
<1>6. \E f : IsJoined(strs, f)
  <2>1. \A k \in 0 + 1 .. n : k \in 1 .. n /\ k \in 0 .. n /\ k - 1 \in 0 .. n
    BY <1>2
  <2>2. \A k \in 0 + 1 .. n : \A x \in X[k - 1] : G[k][x] \in X[k]
    BY <1>1, <1>3, <2>1
  <2>3. <<>> \in X[0]
    BY <1>1, <1>2, <1>5
  <2>4. PICK f : /\ Steps(f, G, <<>>, 0, n)
                 /\ \A k \in 0 .. n : f[k] \in X[k]
    BY <1>2, <2>2, <2>3, StepsExist
  <2>5. ASSUME NEW k \in 0 .. n
        PROVE  f[k] = IF k = 0 THEN <<>>
                      ELSE regexp1_or_regexp2(f[k - 1],
                                              u32string_to_commands(strs[k]))
    <3>1. f[k] = IF k = 0 THEN <<>> ELSE G[k][f[k - 1]]
      BY <2>4 DEF Steps
    <3>2. k # 0 => k - 1 \in 0 .. n
      BY <1>2
    <3>3. k # 0 => f[k - 1] \in Completes
      BY <1>1, <2>4, <3>2
    <3>4. k # 0 => G[k][f[k - 1]]
                     = regexp1_or_regexp2(f[k - 1],
                                          u32string_to_commands(strs[k]))
      BY <1>1, <3>3
    <3> QED
      BY <3>1, <3>4
  <2>6. f = [k \in 0 .. n |-> f[k]]
    BY <2>4 DEF Steps
  <2>7. IsJoined(strs, f)
    BY <1>1, <2>5, <2>6 DEF IsJoined
  <2> QED
    BY <2>7
<1> QED
  BY <1>6

LEMMA StringsComplete ==
  ASSUME NEW strs \in Seq(Seq(Chars) \ {<<>>})
  PROVE  Complete(u32strings_to_commands(strs))
<1>1. PICK n, X, G :
        /\ n = Len(strs) /\ X = [k \in 0 .. n |-> Completes]
        /\ G = [k \in 0 .. n |-> [r \in Completes |->
                  regexp1_or_regexp2(r, u32string_to_commands(strs[k]))]]
  OBVIOUS
<1>2. n \in Nat /\ 0 \in 0 .. n /\ n \in 0 .. n
  BY <1>1
<1>3. ASSUME NEW k \in 1 .. n, NEW r \in Completes
      PROVE  regexp1_or_regexp2(r, u32string_to_commands(strs[k])) \in Completes
  <2>1. strs[k] \in Seq(Chars) \ {<<>>}
    BY <1>1
  <2>2. strs[k] \in Seq(Chars) /\ strs[k] # <<>>
    BY <2>1
  <2>3. u32string_to_commands(strs[k]) \in Buffers
    BY <2>2, StringComplete
  <2>4. Complete(regexp1_or_regexp2(r, u32string_to_commands(strs[k])))
    BY <2>3, OrComplete DEF Buffers, Completes
  <2> QED
    BY <2>4 DEF Completes, Complete
<1>5. <<>> \in Completes
  BY EmptyComplete DEF Completes, Complete
<1>6. \E f : IsJoined(strs, f)
  BY StringsJoined
<1>7. PICK f : f = CHOOSE g : IsJoined(strs, g)
  OBVIOUS
<1>8. IsJoined(strs, f)
  BY <1>6, <1>7, Zenon
<1>9. u32strings_to_commands(strs) = f[Len(strs)]
  BY <1>7, Zenon DEF u32strings_to_commands, IsJoined
<1>10. ASSUME NEW k \in 0 .. n, \A j \in 0 .. k - 1 : f[j] \in X[j]
       PROVE  f[k] \in X[k]
  <2>1. f[k] = IF k = 0 THEN <<>>
               ELSE regexp1_or_regexp2(f[k - 1], u32string_to_commands(strs[k]))
    BY <1>1, <1>8 DEF IsJoined
  <2>2. k # 0 => k - 1 \in 0 .. k - 1 /\ k - 1 \in 0 .. n /\ k \in 1 .. n
    BY <1>2
  <2>3. k # 0 => f[k - 1] \in Completes
    BY <1>1, <1>10, <2>2
  <2> QED
    BY <1>1, <1>3, <1>5, <2>1, <2>2, <2>3
<1>11. \A k \in 0 .. n : f[k] \in X[k]
  BY <1>2, <1>10, RecursionTyped
<1> QED
  BY <1>1, <1>2, <1>9, <1>11 DEF Completes

-----------------------------------------------------------------------------
(* The commands fused.                                                     *)

LEMMA FrontComplete ==
  ASSUME NEW b \in Seq(UnwrappedCommands), b # <<>>
  PROVE  /\ Front(b) \in Seq(UnwrappedCommands) /\ Len(Front(b)) = Len(b) - 1
         /\ Complete(b) => Complete(Front(b))
<1>1. PICK c, n : c = Front(b) /\ n = Len(b) - 1
  OBVIOUS
<1>2. c = SubSeq(b, 1, n)
  BY <1>1 DEF Front
<1>3. n \in Nat /\ n <= Len(b) /\ Len(b) \in Nat
  BY <1>1
<1>4. /\ c \in Seq(UnwrappedCommands) /\ Len(c) = n
      /\ \A k \in 1 .. n : c[k] = b[k]
  BY <1>2, <1>3
<1>5. ASSUME Complete(b), NEW i \in 1 .. n PROVE InPlace(c, i)
  <2>1. i \in 1 .. Len(b) /\ i \in Nat
    BY <1>3
  <2>2. Placed(b, b[i], i)
    BY <1>5, <2>1 DEF Complete, InPlace
  <2>3. b[i].first \in Nat /\ b[i].second \in Nat
    BY <2>1, OperandsNat
  <2>4. \A k \in 1 .. i - 1 : c[k] = b[k]
    BY <1>3, <1>4
  <2>5. Placed(c, b[i], i)
    BY <2>1, <2>2, <2>3, <2>4, PlacedSame
  <2> QED
    BY <1>4, <2>5 DEF InPlace
<1>6. Complete(b) => Complete(c)
  BY <1>4, <1>5 DEF Complete
<1> QED
  BY <1>1, <1>4, <1>6

(* A command of its own: a character or a set of them.                     *)
LEMMA AddSimple ==
  ASSUME NEW a \in Seq(UnwrappedCommands), NEW com \in UnwrappedCommands,
         com.kind \in Simple,
         com.kind = "char_def" => \E c \in Chars : com.s = {c}
  PROVE  /\ Append(a, com) \in Seq(UnwrappedCommands)
         /\ Len(Append(a, com)) = Len(a) + 1
         /\ Complete(a) /\ (com.kind = "multior" => com.s # {})
              => Complete(Append(a, com))
<1>1. ASSUME com.kind = "multior" => com.s # {}
      PROVE  Placed(a, com, Len(a) + 1)
  <2>1. /\ com.kind \notin Binary /\ com.kind \notin Unary
        /\ com.kind # "multiconcat"
    BY DEF Simple, Binary, Unary
  <2> QED
    BY <1>1, <2>1 DEF Placed
<1> QED
  BY <1>1, AddCommand

(* A command with operands already there.                                  *)
LEMMA AddOperator ==
  ASSUME NEW a \in Seq(UnwrappedCommands), NEW com \in UnwrappedCommands,
         com.kind \in Binary \cup Unary, com.first \in 1 .. Len(a),
         com.kind \in Binary => com.second \in 1 .. Len(a)
  PROVE  /\ Append(a, com) \in Seq(UnwrappedCommands)
         /\ Len(Append(a, com)) = Len(a) + 1
         /\ Complete(a) => Complete(Append(a, com))
<1>1. Placed(a, com, Len(a) + 1)
  <2>1. /\ com.kind # "multiconcat" /\ com.kind # "char_def"
        /\ com.kind # "multior"
    BY DEF Binary, Unary
  <2>2. PICK i : i = Len(a) + 1
    OBVIOUS
  <2>3. com.first \in 1 .. i - 1
    BY <2>2
  <2>4. com.kind \in Binary => com.second \in 1 .. i - 1
    BY <2>2
  <2>5. Placed(a, com, i)
    BY <2>1, <2>3, <2>4, Zenon DEF Placed
  <2> QED
    BY <2>2, <2>5
<1> QED
  BY <1>1, AddCommand

LEMMA FuseOr ==
  ASSUME NEW out \in Seq(UnwrappedCommands), NEW com \in UnwrappedCommands,
         com.kind = "or", NEW fst \in 1 .. Len(out) - 1
  PROVE  /\ Fuse_or(out, com, fst) \in Seq(UnwrappedCommands)
         /\ Len(Fuse_or(out, com, fst)) >= fst
         /\ Complete(out) => Complete(Fuse_or(out, com, fst))
<1>1. PICK a, b, n : a = out[fst] /\ b = Last(out) /\ n = Len(out)
  OBVIOUS
<1>2. n \in Nat /\ n >= 2 /\ fst \in Nat /\ fst \in 1 .. n /\ n \in 1 .. n
  BY <1>1
<1>3. a \in UnwrappedCommands /\ b \in UnwrappedCommands
  BY <1>1, <1>2 DEF Last
<1>4. CASE Fusible(a) /\ Fusible(b)
  <2>1. PICK new, u, old, s : /\ old = Unwrapped("multior")
                              /\ s = a.s \cup b.s
                              /\ new = [old EXCEPT !.s = s]
                              /\ u = Front(Front(out))
    OBVIOUS
  <2>2. s \subseteq Chars
    BY <1>3, <2>1 DEF UnwrappedCommands
  <2>3. old \in UnwrappedCommands /\ old.kind = "multior"
    BY <2>1, FreshCommand DEF Kinds
  <2>4. new \in UnwrappedCommands /\ new.kind = "multior"
    BY <2>1, <2>2, <2>3, UnwrappedAre
  <2>5. PICK v : v = Front(out)
    OBVIOUS
  <2>6. /\ v \in Seq(UnwrappedCommands) /\ Len(v) = n - 1 /\ v # <<>>
        /\ Complete(out) => Complete(v)
    <3>1. out # <<>>
      BY <1>1, <1>2
    <3>2. /\ v \in Seq(UnwrappedCommands) /\ Len(v) = n - 1
          /\ Complete(out) => Complete(v)
      BY <1>1, <2>5, <3>1, FrontComplete
    <3> QED
      BY <1>2, <3>2
  <2>7. /\ u \in Seq(UnwrappedCommands) /\ Len(u) = n - 2
        /\ Complete(out) => Complete(u)
    <3>1. u = Front(v)
      BY <2>1, <2>5
    <3>2. /\ u \in Seq(UnwrappedCommands) /\ Len(u) = Len(v) - 1
          /\ Complete(v) => Complete(u)
      BY <2>6, <3>1, FrontComplete
    <3> QED
      BY <1>2, <2>6, <3>2
  <2>13. ASSUME Complete(out) PROVE s # {}
    <3>1. Placed(out, a, fst)
      BY <1>1, <1>2, <2>13 DEF Complete, InPlace
    <3>2. a.kind = "char_def" => a.s # {}
      BY <3>1 DEF Placed
    <3>3. a.kind = "multior" => a.s # {}
      BY <3>1 DEF Placed
    <3> QED
      BY <1>4, <2>1, <3>2, <3>3 DEF Fusible
  <2>8. /\ Append(u, new) \in Seq(UnwrappedCommands)
        /\ Len(Append(u, new)) = Len(u) + 1
        /\ Complete(out) => Complete(Append(u, new))
    <3>1. new.s = s
      BY <2>1, <2>3 DEF UnwrappedCommands
    <3>2. new.kind \in Simple /\ new.kind # "char_def"
      BY <2>4 DEF Simple
    <3>3. /\ Append(u, new) \in Seq(UnwrappedCommands)
          /\ Len(Append(u, new)) = Len(u) + 1
          /\ Complete(u) /\ (new.kind = "multior" => new.s # {})
               => Complete(Append(u, new))
      BY <2>4, <2>7, <3>2, AddSimple
    <3> QED
      BY <2>7, <2>13, <3>1, <3>3
  <2>9. Fuse_or(out, com, fst) = Append(u, new)
    BY <1>1, <1>4, <2>1, Zenon DEF Fuse_or
  <2>10. PICK w : w = Append(u, new)
    OBVIOUS
  <2>11. Len(w) = n - 2 + 1
    BY <2>7, <2>8, <2>10
  <2>12. Len(w) >= fst
    <3>1. fst \in 1 .. n - 1
      BY <1>1
    <3> QED
      BY <1>2, <2>11, <3>1
  <2> QED
    BY <2>7, <2>8, <2>9, <2>10, <2>12
<1>5. CASE ~(Fusible(a) /\ Fusible(b))
  <2>1. PICK new : new = [com EXCEPT !.first = fst, !.second = n,
                                     !.action_name = 0]
    OBVIOUS
  <2>2. /\ new \in UnwrappedCommands /\ new.kind = "or"
        /\ new.first = fst /\ new.second = n
    BY <1>2, <2>1, UnwrappedAre
  <2>3. /\ Append(out, new) \in Seq(UnwrappedCommands)
        /\ Len(Append(out, new)) = n + 1
        /\ Complete(out) => Complete(Append(out, new))
    <3>1. new.kind \in Binary
      BY <2>2 DEF Binary
    <3> QED
      BY <1>1, <1>2, <2>2, <3>1, AddOperator
  <2>4. Fuse_or(out, com, fst) = Append(out, new)
    BY <1>1, <1>5, <2>1, Zenon DEF Fuse_or
  <2> QED
    BY <1>2, <2>3, <2>4
<1> QED
  BY <1>4, <1>5

(* What a fused command does to the commands before it.                    *)
Fused(out, new) ==
  /\ new \in Seq(UnwrappedCommands) /\ Len(new) > Len(out)
  /\ Complete(out) => Complete(new)

Fusers == {g \in [Seq(UnwrappedCommands) -> Seq(UnwrappedCommands)] :
             \A out \in Seq(UnwrappedCommands) : Fused(out, g[out])}

(* The operands of a multiconcat, put behind out.                          *)
Put(out, b, x, y) == out \o SubSeq(b, x, y)
Behind(out, new, m) ==
  /\ new \in Seq(UnwrappedCommands) /\ Len(new) = m
  /\ \A k \in Len(out) + 1 .. m : new[k].kind \in Simple
  /\ Complete(out) => Complete(new)

LEMMA SimplesAdded ==
  ASSUME NEW b, Complete(b), NEW x \in Nat, NEW y \in Nat,
         x >= 1, x <= y, y <= Len(b),
         \A k \in x .. y : b[k].kind \in Simple,
         NEW out \in Seq(UnwrappedCommands)
  PROVE  Behind(out, Put(out, b, x, y), Len(out) + y - x + 1)
<1>1. PICK s, new, n, m :
        /\ s = SubSeq(b, x, y) /\ new = out \o s /\ n = Len(out)
        /\ m = y - x + 1
  OBVIOUS
<1>2. b \in Seq(UnwrappedCommands) /\ Len(b) \in Nat /\ n \in Nat /\ m \in Nat
  BY <1>1 DEF Complete
<1>3. /\ s \in Seq(UnwrappedCommands) /\ Len(s) = m
      /\ \A k \in 1 .. m : s[k] = b[x + k - 1]
  BY <1>1, <1>2
<1>4. /\ new \in Seq(UnwrappedCommands) /\ Len(new) = n + m
      /\ \A k \in 1 .. n : new[k] = out[k]
      /\ \A k \in 1 .. m : new[n + k] = s[k]
  BY <1>1, <1>2, <1>3
<1>5. ASSUME NEW k \in n + 1 .. n + m
      PROVE  /\ new[k] \in UnwrappedCommands /\ new[k].kind \in Simple
             /\ new[k].kind = "char_def" => \E c \in Chars : new[k].s = {c}
             /\ new[k].kind = "multior" => new[k].s # {}
  <2>1. k - n \in 1 .. m /\ k = n + (k - n) /\ x + (k - n) - 1 \in x .. y
    BY <1>1, <1>2
  <2>2. PICK j \in x .. y : new[k] = b[j]
    BY <1>3, <1>4, <2>1
  <2>3. j \in 1 .. Len(b)
    BY <1>2
  <2>4. b[j].kind \in Simple /\ b[j] \in UnwrappedCommands
    BY <1>2, <2>3
  <2>5. /\ b[j].kind = "char_def" => \E c \in Chars : b[j].s = {c}
        /\ b[j].kind = "multior" => b[j].s # {}
    BY <2>3 DEF Complete, InPlace, Placed
  <2> QED
    BY <2>2, <2>4, <2>5
<1>6. ASSUME Complete(out), NEW i \in 1 .. n + m PROVE InPlace(new, i)
  <2>1. CASE i \in 1 .. n
    <3>1. Placed(out, out[i], i) /\ i \in Nat /\ i \in 1 .. Len(out)
      BY <1>1, <1>6, <2>1 DEF Complete, InPlace
    <3>2. out[i].first \in Nat /\ out[i].second \in Nat
      BY <3>1, OperandsNat
    <3>3. \A k \in 1 .. i - 1 : new[k] = out[k]
      BY <1>2, <1>4, <2>1
    <3>4. Placed(new, out[i], i)
      BY <3>1, <3>2, <3>3, PlacedSame
    <3> QED
      BY <1>4, <2>1, <3>4 DEF InPlace
  <2>2. CASE i \notin 1 .. n
    <3>1. i \in n + 1 .. n + m
      BY <1>2, <2>2
    <3>2. PICK com : com = new[i]
      OBVIOUS
    <3>3. /\ com.kind \in Simple
          /\ com.kind = "char_def" => \E c \in Chars : com.s = {c}
          /\ com.kind = "multior" => com.s # {}
      BY <1>5, <3>1, <3>2
    <3>4. /\ com.kind \notin Binary /\ com.kind \notin Unary
          /\ com.kind # "multiconcat"
      BY <3>3 DEF Simple, Binary, Unary
    <3> QED
      BY <3>2, <3>3, <3>4 DEF InPlace, Placed
  <2> QED
    BY <2>1, <2>2
<1>7. Complete(out) => Complete(new)
  BY <1>4, <1>6 DEF Complete
<1>8. /\ new \in Seq(UnwrappedCommands) /\ Len(new) = n + y - x + 1
      /\ \A k \in n + 1 .. n + y - x + 1 : new[k].kind \in Simple
  BY <1>1, <1>2, <1>4, <1>5
<1>9. Behind(out, new, n + y - x + 1)
  BY <1>1, <1>7, <1>8 DEF Behind
<1> QED
  BY <1>1, <1>9 DEF Put

LEMMA FuseMulticoncat ==
  ASSUME NEW b, Complete(b), NEW i \in 1 .. Len(b), NEW com, com = b[i],
         com.kind = "multiconcat", NEW out \in Seq(UnwrappedCommands), NEW res,
         res = out \o SubSeq(b, com.first, com.second)
                   \o << [com EXCEPT !.first = Len(out) + 1,
                                     !.second = Len(out) + com.second
                                                  - com.first + 1] >>
  PROVE  Fused(out, res)
<1>1. PICK x, y, n, t, m, z, new :
        /\ x = com.first /\ y = com.second /\ n = Len(out)
        /\ t = out \o SubSeq(b, x, y) /\ m = n + 1 /\ z = n + y - x + 1
        /\ new = [com EXCEPT !.first = m, !.second = z]
  OBVIOUS
<1>2. /\ com \in UnwrappedCommands /\ x \in Nat /\ y \in Nat
      /\ i \in Nat /\ i <= Len(b) /\ Len(b) \in Nat /\ n \in Nat
  <2>1. b \in Seq(UnwrappedCommands)
    BY DEF Complete
  <2> QED
    BY <1>1, <2>1, OperandsNat
<1>3. /\ x \in 1 .. i - 1 /\ y \in x .. i - 1
      /\ \A k \in x .. y : b[k].kind \in Simple
  <2>1. Placed(b, com, i)
    BY <1>1 DEF Complete, InPlace
  <2> QED
    BY <1>1, <2>1 DEF Placed
<1>4. x >= 1 /\ x <= y /\ y <= Len(b)
  BY <1>2, <1>3
<1>5. /\ t \in Seq(UnwrappedCommands) /\ Len(t) = z
      /\ \A k \in n + 1 .. Len(t) : t[k].kind \in Simple
      /\ Complete(out) => Complete(t)
  <2>1. /\ t = out \o SubSeq(b, x, y) /\ n = Len(out) /\ x \in Nat /\ y \in Nat
        /\ x >= 1 /\ x <= y /\ y <= Len(b)
        /\ \A k \in x .. y : b[k].kind \in Simple
    BY <1>1, <1>2, <1>3, <1>4
  <2>2. Behind(out, Put(out, b, x, y), Len(out) + y - x + 1)
    BY <2>1, SimplesAdded
  <2>3. Behind(out, t, z)
    BY <1>1, <2>2, Zenon DEF Put
  <2> QED
    BY <1>1, <2>3 DEF Behind
<1>6. z \in Nat /\ z >= n + 1
  BY <1>1, <1>2, <1>4, SMTT(30)
<1>7. /\ new \in UnwrappedCommands /\ new.kind = "multiconcat"
      /\ new.first = m /\ new.second = z /\ m \in Nat /\ m = n + 1
  <2>1. m \in Nat /\ m = n + 1
    BY <1>1, <1>2
  <2>2. new = [com EXCEPT !.first = m, !.second = z]
    BY <1>1
  <2>3. /\ new \in UnwrappedCommands /\ new.kind = com.kind
        /\ new.first = m /\ new.second = z
    BY <1>2, <1>6, <2>1, <2>2, UnwrappedAre
  <2> QED
    BY <2>1, <2>3
<1>8. Placed(t, new, z + 1)
  <2>1. /\ new.kind \notin Binary /\ new.kind \notin Unary
        /\ new.kind # "char_def" /\ new.kind # "multior"
    BY <1>7 DEF Binary, Unary
  <2>2. PICK j : j = z + 1
    OBVIOUS
  <2>3. new.first \in 1 .. j - 1 /\ new.second \in new.first .. j - 1
    BY <1>2, <1>6, <1>7, <2>2
  <2>4. \A k \in new.first .. new.second : t[k].kind \in Simple
    BY <1>5, <1>7
  <2>5. Placed(t, new, j)
    BY <2>1, <2>3, <2>4, Zenon DEF Placed
  <2> QED
    BY <2>2, <2>5
<1>9. /\ Complete(out) => Complete(Append(t, new))
      /\ Append(t, new) \in Seq(UnwrappedCommands)
      /\ Len(Append(t, new)) = z + 1
  <2>1. Complete(out) => Complete(Append(t, new))
    BY <1>5, <1>7, <1>8, AddCommand
  <2>2. t \in Seq(UnwrappedCommands) /\ new \in UnwrappedCommands /\ Len(t) = z
    BY <1>5, <1>7
  <2>3. /\ Append(t, new) \in Seq(UnwrappedCommands)
        /\ Len(Append(t, new)) = z + 1
    BY <2>2
  <2> QED
    BY <2>1, <2>3
<1>10. Append(t, new) = t \o <<new>>
  BY <1>5, <1>7
<1>11. PICK u : u = Append(t, new)
  OBVIOUS
<1>12. Fused(out, u)
  <2>1. /\ u \in Seq(UnwrappedCommands) /\ Len(u) = z + 1
        /\ Complete(out) => Complete(u)
    BY <1>9, <1>11
  <2>2. z \in Nat /\ Len(out) \in Nat /\ z + 1 > Len(out)
    BY <1>1, <1>2, <1>6
  <2> QED
    BY <2>1, <2>2 DEF Fused
<1>13. res = t \o <<new>>
  BY <1>1, Zenon
<1> QED
  BY <1>10, <1>11, <1>12, <1>13

LEMMA FuseStep ==
  ASSUME NEW b, Complete(b), NEW i \in 1 .. Len(b), NEW fuse,
         \A j \in 1 .. i - 1 : fuse[j] \in Fusers,
         NEW out \in Seq(UnwrappedCommands)
  PROVE  Fused(out, fuse_unwrapped_commandsR(b, b[i], fuse, out))
<1>1. PICK com : com = b[i]
  OBVIOUS
<1>2. com \in UnwrappedCommands /\ Placed(b, com, i) /\ i \in Nat
  <2>1. Len(b) \in Nat /\ i \in DOMAIN b
    BY DEF Complete
  <2> QED
    BY <1>1, <2>1 DEF Complete, InPlace
<1>3. /\ com.kind \in Binary \cup Unary \cup Simple \cup {"multiconcat"}
      /\ com.first \in Nat /\ com.second \in Nat
  BY <1>2, Zenon DEF UnwrappedCommands, Simple
<1>4. PICK one, two, n : /\ one = fuse[com.first][out] /\ n = Len(one)
                         /\ two = fuse[com.second][one]
  OBVIOUS
<1>5. ASSUME com.first \in 1 .. i - 1
      PROVE  /\ one \in Seq(UnwrappedCommands) /\ n > Len(out) /\ n \in Nat
             /\ Complete(out) => Complete(one) /\ Len(out) \in Nat
  <2>1. Fused(out, one)
    BY <1>4, <1>5 DEF Fusers
  <2> QED
    BY <1>4, <2>1 DEF Fused
<1>6. CASE com.kind \in Binary
  <2>1. com.first \in 1 .. i - 1 /\ com.second \in 1 .. i - 1
    BY <1>2, <1>6 DEF Placed
  <2>2. /\ one \in Seq(UnwrappedCommands) /\ n > Len(out) /\ n \in Nat
        /\ Len(out) \in Nat /\ Complete(out) => Complete(one)
    BY <1>5, <2>1
  <2>3. /\ two \in Seq(UnwrappedCommands) /\ Len(two) > n /\ Len(two) \in Nat
        /\ Complete(one) => Complete(two)
    <3>1. Fused(one, two)
      BY <1>4, <2>1, <2>2 DEF Fusers
    <3> QED
      BY <1>4, <3>1 DEF Fused
  <2>4. n \in 1 .. Len(two) - 1 /\ n \in 1 .. Len(two) /\ Len(two) \in 1 .. Len(two)
    BY <2>2, <2>3
  <2>5. CASE com.kind = "or"
    <3>0. /\ com.kind # "concat" /\ com.kind \notin Unary
          /\ com.kind # "multiconcat"
      BY <2>5 DEF Unary
    <3>1. fuse_unwrapped_commandsR(b, com, fuse, out) = Fuse_or(two, com, n)
      BY <1>4, <2>5, <3>0, Zenon DEF fuse_unwrapped_commandsR
    <3>2. PICK u : u = Fuse_or(two, com, n)
      OBVIOUS
    <3>3. /\ u \in Seq(UnwrappedCommands) /\ Len(u) >= n
          /\ Complete(two) => Complete(u)
      BY <1>2, <2>3, <2>4, <2>5, <3>2, FuseOr
    <3>4. Len(u) > Len(out)
      BY <2>2, <3>3
    <3> QED
      BY <1>1, <2>2, <2>3, <3>1, <3>2, <3>3, <3>4 DEF Fused
  <2>6. CASE com.kind = "concat"
    <3>1. PICK new, u, m : /\ m = Len(two) /\ u = Append(two, new)
                           /\ new = [com EXCEPT !.first = n, !.second = m]
      OBVIOUS
    <3>0. /\ com.kind # "or" /\ com.kind \notin Unary
          /\ com.kind # "multiconcat"
      BY <2>6 DEF Unary
    <3>2. fuse_unwrapped_commandsR(b, com, fuse, out) = u
      BY <1>4, <2>6, <3>0, <3>1, Zenon DEF fuse_unwrapped_commandsR
    <3>3. /\ new \in UnwrappedCommands /\ new.kind = com.kind
          /\ new.first = n /\ new.second = m
      <4>1. m \in Nat /\ new = [com EXCEPT !.first = n, !.second = m]
        BY <2>3, <3>1
      <4> QED
        BY <1>2, <2>2, <4>1, UnwrappedAre
    <3>4. /\ u \in Seq(UnwrappedCommands) /\ Len(u) = m + 1
          /\ Complete(two) => Complete(u)
      BY <1>6, <2>3, <2>4, <3>1, <3>3, AddOperator
    <3>5. Len(u) > Len(out)
      BY <2>2, <2>3, <3>1, <3>4
    <3> QED
      BY <1>1, <2>2, <2>3, <3>2, <3>4, <3>5 DEF Fused
  <2> QED
    BY <1>6, <2>5, <2>6, Zenon DEF Binary
<1>7. CASE com.kind \in Unary
  <2>1. /\ one \in Seq(UnwrappedCommands) /\ n > Len(out) /\ n \in Nat
        /\ Len(out) \in Nat /\ Complete(out) => Complete(one)
    BY <1>2, <1>5, <1>7 DEF Placed
  <2>2. PICK new, u : u = Append(one, new) /\ new = [com EXCEPT !.first = n]
    OBVIOUS
  <2>3. fuse_unwrapped_commandsR(b, com, fuse, out) = u
    <3>1. /\ com.kind # "or" /\ com.kind # "concat"
          /\ com.kind # "multiconcat"
      BY <1>7 DEF Unary
    <3> QED
      BY <1>4, <1>7, <2>2, <3>1, Zenon DEF fuse_unwrapped_commandsR
  <2>4. new \in UnwrappedCommands /\ new.kind = com.kind /\ new.first = n
    BY <1>2, <2>1, <2>2, OperandMoved
  <2>5. /\ u \in Seq(UnwrappedCommands) /\ Len(u) = n + 1
        /\ Complete(one) => Complete(u)
    <3>1. n \in 1 .. n /\ new.kind \notin Binary
      BY <1>7, <2>1, <2>4 DEF Binary, Unary
    <3> QED
      BY <1>4, <1>7, <2>1, <2>2, <2>4, <3>1, AddOperator, ZenonT(30)
  <2>6. Len(u) > Len(out)
    BY <2>1, <2>5
  <2> QED
    BY <1>1, <2>1, <2>3, <2>5, <2>6 DEF Fused
<1>8. CASE com.kind = "multiconcat"
  <2>1. fuse_unwrapped_commandsR(b, com, fuse, out)
          = out \o SubSeq(b, com.first, com.second)
                \o << [com EXCEPT !.first = Len(out) + 1,
                                  !.second = Len(out) + com.second
                                               - com.first + 1] >>
    <3>1. com.kind \notin Unary /\ com.kind # "or" /\ com.kind # "concat"
      BY <1>8 DEF Unary
    <3> QED
      BY <1>8, <3>1, Zenon DEF fuse_unwrapped_commandsR
  <2> QED
    BY <1>1, <1>8, <2>1, FuseMulticoncat
<1>9. CASE com.kind \in Simple
  <2>1. /\ com.kind \notin Unary /\ com.kind # "or" /\ com.kind # "concat"
        /\ com.kind # "multiconcat"
    BY <1>9 DEF Unary, Simple
  <2>2. fuse_unwrapped_commandsR(b, com, fuse, out) = Append(out, com)
    BY <2>1, Zenon DEF fuse_unwrapped_commandsR
  <2>3. /\ Append(out, com) \in Seq(UnwrappedCommands)
        /\ Len(Append(out, com)) = Len(out) + 1
        /\ Complete(out) => Complete(Append(out, com))
    <3>1. /\ com.kind = "char_def" => \E c \in Chars : com.s = {c}
          /\ com.kind = "multior" => com.s # {}
      BY <1>2 DEF Placed
    <3> QED
      BY <1>2, <1>9, <3>1, AddSimple
  <2>4. PICK u : u = Append(out, com)
    OBVIOUS
  <2>5. Fused(out, u)
    BY <2>3, <2>4 DEF Fused
  <2> QED
    BY <1>1, <2>2, <2>4, <2>5
<1> QED
  BY <1>3, <1>6, <1>7, <1>8, <1>9

(* Of the other commands only those before it matter.                      *)
LEMMA FuseSame ==
  ASSUME NEW b, Complete(b), NEW i \in 1 .. Len(b), NEW g, NEW h,
         \A j \in 1 .. i - 1 : g[j] = h[j], NEW out
  PROVE  fuse_unwrapped_commandsR(b, b[i], g, out)
           = fuse_unwrapped_commandsR(b, b[i], h, out)
<1>1. PICK com : com = b[i]
  OBVIOUS
<1>2. com \in UnwrappedCommands /\ Placed(b, com, i) /\ i \in Nat
  <2>1. Len(b) \in Nat /\ i \in DOMAIN b
    BY DEF Complete
  <2> QED
    BY <1>1, <2>1 DEF Complete, InPlace
<1>3. com.kind \in Binary \cup Unary \cup Simple \cup {"multiconcat"}
  BY <1>2, Zenon DEF UnwrappedCommands, Simple
<1>4. CASE com.kind \in Binary
  <2>1. g[com.first] = h[com.first] /\ g[com.second] = h[com.second]
    BY <1>2, <1>4 DEF Placed
  <2>2. com.kind \notin Unary /\ com.kind # "multiconcat"
    BY <1>4 DEF Binary, Unary
  <2>3. CASE com.kind = "or"
    <3>1. com.kind # "concat"
      BY <2>3
    <3>2. \A f : fuse_unwrapped_commandsR(b, com, f, out)
                   = Fuse_or(f[com.second][f[com.first][out]], com,
                             Len(f[com.first][out]))
      BY <2>2, <2>3, <3>1, Zenon DEF fuse_unwrapped_commandsR
    <3> QED
      BY <1>1, <2>1, <3>2, Zenon
  <2>4. CASE com.kind = "concat"
    <3>1. com.kind # "or"
      BY <2>4
    <3>2. PICK one, two : /\ one = g[com.first][out] /\ one = h[com.first][out]
                          /\ two = g[com.second][one] /\ two = h[com.second][one]
      BY <2>1
    <3>3. fuse_unwrapped_commandsR(b, com, g, out)
            = Append(two, [com EXCEPT !.first = Len(one), !.second = Len(two)])
      BY <2>2, <2>4, <3>1, <3>2, Zenon DEF fuse_unwrapped_commandsR
    <3>4. fuse_unwrapped_commandsR(b, com, h, out)
            = Append(two, [com EXCEPT !.first = Len(one), !.second = Len(two)])
      BY <2>2, <2>4, <3>1, <3>2, Zenon DEF fuse_unwrapped_commandsR
    <3> QED
      BY <1>1, <3>3, <3>4
  <2> QED
    BY <1>4, <2>3, <2>4, Zenon DEF Binary
<1>5. CASE com.kind \in Unary
  <2>1. g[com.first] = h[com.first]
    BY <1>2, <1>5 DEF Placed
  <2>2. com.kind # "or" /\ com.kind # "concat" /\ com.kind # "multiconcat"
    BY <1>5 DEF Unary
  <2>3. \A f : fuse_unwrapped_commandsR(b, com, f, out)
                 = Append(f[com.first][out],
                          [com EXCEPT !.first = Len(f[com.first][out])])
    BY <1>5, <2>2, Zenon DEF fuse_unwrapped_commandsR
  <2> QED
    BY <1>1, <2>1, <2>3, Zenon
<1>6. CASE com.kind = "multiconcat"
  <2>1. com.kind \notin Unary /\ com.kind # "or" /\ com.kind # "concat"
    BY <1>6 DEF Unary
  <2>2. \A f : fuse_unwrapped_commandsR(b, com, f, out)
                 = out \o SubSeq(b, com.first, com.second)
                       \o << [com EXCEPT !.first = Len(out) + 1,
                                         !.second = Len(out) + com.second
                                                      - com.first + 1] >>
    BY <1>6, <2>1, Zenon DEF fuse_unwrapped_commandsR
  <2> QED
    BY <1>1, <2>2, Zenon
<1>7. CASE com.kind \in Simple
  <2>1. /\ com.kind \notin Unary /\ com.kind # "or" /\ com.kind # "concat"
        /\ com.kind # "multiconcat"
    BY <1>7 DEF Unary, Simple
  <2>2. \A f : fuse_unwrapped_commandsR(b, com, f, out) = Append(out, com)
    BY <2>1, Zenon DEF fuse_unwrapped_commandsR
  <2> QED
    BY <1>1, <2>2, Zenon
<1> QED
  BY <1>3, <1>4, <1>5, <1>6, <1>7, Zenon

IsFuse(b, f) ==
  f = [i \in 1 .. Len(b) |->
         [out \in Seq(UnwrappedCommands) |->
            fuse_unwrapped_commandsR(b, b[i], f, out)]]

Fuser(b, i, h) ==
  [out \in Seq(UnwrappedCommands) |-> fuse_unwrapped_commandsR(b, b[i], h, out)]

LEMMA FuserStep ==
  ASSUME NEW b, Complete(b), NEW i \in 1 .. Len(b), NEW h,
         \A j \in 1 .. i - 1 : h[j] \in Fusers
  PROVE  Fuser(b, i, h) \in Fusers
<1>1. PICK g : g = [out \in Seq(UnwrappedCommands) |->
                      fuse_unwrapped_commandsR(b, b[i], h, out)]
  OBVIOUS
<1>2. \A out \in Seq(UnwrappedCommands) :
        Fused(out, fuse_unwrapped_commandsR(b, b[i], h, out))
  BY FuseStep
<1>3. \A out \in Seq(UnwrappedCommands) :
        Fused(out, g[out]) /\ g[out] \in Seq(UnwrappedCommands)
  BY <1>1, <1>2 DEF Fused
<1>4. g \in [Seq(UnwrappedCommands) -> Seq(UnwrappedCommands)]
  BY <1>1, <1>3
<1> QED
  BY <1>1, <1>3, <1>4 DEF Fusers, Fuser

LEMMA FuseExists ==
  ASSUME NEW b, Complete(b)
  PROVE  \E f : IsFuse(b, f)
<1> DEFINE N == Len(b)
           X == [i \in 1 .. N |-> Fusers]
           Made(i, h) == [out \in Seq(UnwrappedCommands) |->
                            fuse_unwrapped_commandsR(b, b[i], h, out)]
           F == [i \in 1 .. N |-> [h \in Earlier(X, 1, i) |-> Made(i, h)]]
<1>0. N \in Nat
  BY DEF Complete
<1>1. \A i \in 1 .. N : \A h \in Earlier(X, 1, i) : F[i][h] = Made(i, h)
  OBVIOUS
<1>2. ASSUME NEW i \in 1 .. N, NEW h \in Earlier(X, 1, i)
      PROVE  F[i][h] \in X[i]
  <2>1. \A j \in 1 .. i - 1 : h[j] \in X[j] /\ j \in 1 .. N
    BY <1>0 DEF Earlier
  <2>2. \A j \in 1 .. i - 1 : h[j] \in Fusers
    BY <2>1
  <2>3. Made(i, h) \in Fusers
    BY <2>2, FuserStep DEF Fuser
  <2> QED
    BY <1>1, <2>3
<1> HIDE DEF X, F, N
<1>3. PICK f : /\ Recursive(f, F, 1, N)
               /\ \A i \in 1 .. N : Before(f, 1, i) \in Earlier(X, 1, i)
  BY <1>0, <1>2, Recursion
<1>4. ASSUME NEW i \in 1 .. N PROVE f[i] = Made(i, f)
  <2>1. f[i] = Made(i, Before(f, 1, i))
    BY <1>1, <1>3 DEF Recursive
  <2>2. \A j \in 1 .. i - 1 : Before(f, 1, i)[j] = f[j]
    BY DEF Before
  <2>3. \A out \in Seq(UnwrappedCommands) :
          fuse_unwrapped_commandsR(b, b[i], Before(f, 1, i), out)
            = fuse_unwrapped_commandsR(b, b[i], f, out)
    <3>1. PICK h : h = Before(f, 1, i)
      OBVIOUS
    <3>2. i \in 1 .. Len(b) /\ \A j \in 1 .. i - 1 : h[j] = f[j]
      BY <2>2, <3>1 DEF N
    <3>3. \A out : fuse_unwrapped_commandsR(b, b[i], h, out)
                     = fuse_unwrapped_commandsR(b, b[i], f, out)
      BY <3>2, FuseSame
    <3> QED
      BY <3>1, <3>3
  <2>4. Made(i, Before(f, 1, i)) = Made(i, f)
    BY <2>3, Zenon
  <2> QED
    BY <2>1, <2>4
<1>5. f = [i \in 1 .. N |-> f[i]]
  BY <1>3 DEF Recursive
<1>6. IsFuse(b, f)
  BY <1>4, <1>5 DEF IsFuse, N
<1> QED
  BY <1>6

(* The fused commands are a buffer again.                                  *)
LEMMA FuseComplete ==
  ASSUME NEW b, Complete(b), b # <<>>
  PROVE  /\ Complete(fuse_unwrapped_commands(b))
         /\ fuse_unwrapped_commands(b) # <<>>
<1>1. PICK f : f = CHOOSE g : IsFuse(b, g)
  OBVIOUS
<1>2. IsFuse(b, f)
  BY <1>1, FuseExists, Zenon
<1>3. fuse_unwrapped_commands(b) = f[Len(b)][<<>>]
  BY <1>1, Zenon DEF fuse_unwrapped_commands, IsFuse
<1>4. PICK N, X : N = Len(b) /\ X = [i \in 1 .. N |-> Fusers]
  OBVIOUS
<1>5. N \in Nat /\ N \in 1 .. N
  BY <1>4 DEF Complete
<1>6. ASSUME NEW i \in 1 .. N, \A j \in 1 .. i - 1 : f[j] \in X[j]
      PROVE  f[i] \in X[i]
  <2>1. f[i] = Fuser(b, i, f)
    BY <1>2, <1>4 DEF IsFuse, Fuser
  <2>2. \A j \in 1 .. i - 1 : j \in 1 .. N
    BY <1>5
  <2>3. \A j \in 1 .. i - 1 : f[j] \in Fusers
    BY <1>4, <1>6, <2>2
  <2>4. f[i] \in Fusers
    BY <1>4, <2>1, <2>3, FuserStep
  <2> QED
    BY <1>4, <2>4
<1>7. \A i \in 1 .. N : f[i] \in X[i]
  BY <1>5, <1>6, RecursionTyped
<1>8. f[N] \in Fusers
  BY <1>4, <1>5, <1>7
<1>9. PICK new : new = f[N][<<>>]
  OBVIOUS
<1>10. Fused(<<>>, new)
  <2>1. <<>> \in Seq(UnwrappedCommands)
    OBVIOUS
  <2> QED
    BY <1>8, <1>9, <2>1 DEF Fusers
<1>11. Complete(new) /\ Len(new) > 0
  BY <1>10, EmptyComplete DEF Fused
<1> QED
  BY <1>3, <1>4, <1>9, <1>11

-----------------------------------------------------------------------------
(* The commands as the parsers write them: an operand comes before its     *)
(* command, and those of a multiconcat are characters or classes.          *)
Leaves == {"char_def", "char_class_def"}
RawCommands ==
  [name : Binary \cup Unary \cup Leaves \cup {"multiconcat"},
   action_name : Nat, first : Nat, second : Nat,
   c : Nat, cls : Classes \cup {"none"}]

RawPlaced(b, com, i) ==
  /\ com.name \in Binary => com.first \in 1 .. i - 1 /\ com.second \in 1 .. i - 1
  /\ com.name \in Unary => com.first \in 1 .. i - 1
  /\ com.name = "multiconcat"
       => /\ com.first \in 1 .. i - 1 /\ com.second \in com.first .. i - 1
          /\ \A k \in com.first .. com.second : b[k].name \in Leaves
  /\ com.name = "char_def" => com.c \in Chars /\ com.cls = "none"
  /\ com.name = "char_class_def" => com.cls \in Classes

Raw(b) ==
  b \in Seq(RawCommands) /\ \A i \in 1 .. Len(b) : RawPlaced(b, b[i], i)

LEMMA UnwrapIs ==
  ASSUME NEW com \in RawCommands,
         com.name = "char_def" => com.c \in Chars,
         com.name = "char_class_def" => com.cls \in Classes
  PROVE  LET u == unwrap(com)
         IN  /\ u \in UnwrappedCommands
             /\ u.first = com.first /\ u.second = com.second
             /\ com.name \in Leaves => u.kind \in Simple
             /\ com.name \notin Leaves => u.kind = com.name
             /\ u.kind = "char_def" => \E c \in Chars : u.s = {c}
             /\ u.kind = "multior" => u.s # {}
<1>1. PICK u : u = unwrap(com)
  OBVIOUS
<1>2. /\ com.name \in Binary \cup Unary \cup Leaves \cup {"multiconcat"}
      /\ com.action_name \in Nat /\ com.first \in Nat /\ com.second \in Nat
  BY DEF RawCommands
<1>3. PICK kind, s : /\ kind = u.kind /\ s = u.s
                     /\ u = [kind |-> kind, action_name |-> com.action_name,
                             first |-> com.first, second |-> com.second,
                             s |-> s]
  BY <1>1, Zenon DEF unwrap
<1>4. ASSUME kind \in Kinds, s \subseteq Chars
      PROVE  /\ u \in UnwrappedCommands
             /\ u.first = com.first /\ u.second = com.second
  BY <1>2, <1>3, <1>4, UnwrappedAre
<1>5. CASE com.name = "char_def"
  <2>1. com.name # "char_class_def"
    BY <1>5
  <2>2. kind = "char_def" /\ s = {com.c}
    BY <1>1, <1>3, <1>5, <2>1, Zenon DEF unwrap
  <2>3. com.c \in Chars
    BY <1>5
  <2>4. kind \in Kinds /\ s \subseteq Chars /\ kind \in Simple
    BY <2>2, <2>3 DEF Kinds, Simple
  <2>5. com.name \in Leaves
    BY <1>5 DEF Leaves
  <2> QED
    BY <1>1, <1>3, <1>4, <2>2, <2>3, <2>4, <2>5
<1>6. CASE com.name = "char_class_def" /\ com.cls \in QuoteClasses
  <2>1. com.name # "char_def"
    BY <1>6
  <2>2. kind = com.cls /\ s = {}
    BY <1>1, <1>3, <1>6, <2>1, Zenon DEF unwrap
  <2>3. /\ kind \in Kinds /\ s \subseteq Chars /\ kind \in Simple
        /\ kind # "char_def" /\ kind # "multior"
    BY <1>6, <2>2 DEF Kinds, Simple, QuoteClasses
  <2>4. com.name \in Leaves
    BY <1>6 DEF Leaves
  <2> QED
    BY <1>1, <1>3, <1>4, <2>3, <2>4
<1>7. CASE com.name = "char_class_def" /\ com.cls \notin QuoteClasses
  <2>1. com.name # "char_def"
    BY <1>7
  <2>2. kind = "multior" /\ s = char_classes[com.cls]
    BY <1>1, <1>3, <1>7, <2>1, Zenon DEF unwrap
  <2>3. com.cls \in DOMAIN char_classes
    BY <1>7 DEF Classes
  <2>4. s \subseteq Chars /\ s # {}
    BY <2>2, <2>3, CategoriesAssumption, ClassesAssumption
  <2>5. kind \in Kinds /\ kind \in Simple /\ kind # "char_def"
    BY <2>2 DEF Kinds, Simple
  <2>6. com.name \in Leaves
    BY <1>7 DEF Leaves
  <2> QED
    BY <1>1, <1>3, <1>4, <2>4, <2>5, <2>6
<1>8. CASE com.name \notin Leaves
  <2>1. com.name # "char_def" /\ com.name # "char_class_def"
    BY <1>8 DEF Leaves
  <2>2. kind = com.name /\ s = {}
    BY <1>1, <1>3, <2>1, Zenon DEF unwrap
  <2>3. /\ kind \in Kinds /\ s \subseteq Chars /\ kind # "char_def"
        /\ kind # "multior"
    BY <1>2, <1>8, <2>1, <2>2 DEF Kinds, Binary, Unary
  <2> QED
    BY <1>1, <1>3, <1>4, <1>8, <2>2, <2>3
<1> QED
  BY <1>5, <1>6, <1>7, <1>8 DEF Leaves

LEMMA UnwrapComplete ==
  ASSUME NEW b, Raw(b)
  PROVE  /\ Complete(unwrap_commands(b))
         /\ b # <<>> => unwrap_commands(b) # <<>>
<1>1. PICK u : u = unwrap_commands(b)
  OBVIOUS
<1>2. b \in Seq(RawCommands) /\ Len(b) \in Nat /\ DOMAIN b = 1 .. Len(b)
  BY DEF Raw
<1>3. u = [i \in 1 .. Len(b) |-> unwrap(b[i])]
  BY <1>1, <1>2, Zenon DEF unwrap_commands
<1>4. ASSUME NEW i \in 1 .. Len(b)
      PROVE  /\ b[i] \in RawCommands /\ u[i] \in UnwrappedCommands
             /\ u[i].first = b[i].first /\ u[i].second = b[i].second
             /\ b[i].name \in Leaves => u[i].kind \in Simple
             /\ b[i].name \notin Leaves => u[i].kind = b[i].name
             /\ u[i].kind = "char_def" => \E c \in Chars : u[i].s = {c}
             /\ u[i].kind = "multior" => u[i].s # {}
  <2>1. b[i] \in RawCommands
    BY <1>2
  <2>2. /\ b[i].name = "char_def" => b[i].c \in Chars
        /\ b[i].name = "char_class_def" => b[i].cls \in Classes
    BY DEF Raw, RawPlaced
  <2>3. u[i] = unwrap(b[i])
    BY <1>3
  <2> QED
    BY <2>1, <2>2, <2>3, UnwrapIs
<1>5. u \in Seq(UnwrappedCommands) /\ Len(u) = Len(b)
  <2>1. u \in [1 .. Len(b) -> UnwrappedCommands]
    BY <1>3, <1>4
  <2> QED
    BY <1>2, <2>1
<1>6. ASSUME NEW i \in 1 .. Len(b) PROVE InPlace(u, i)
  <2>1. PICK com, old : com = u[i] /\ old = b[i]
    OBVIOUS
  <2>2. /\ com.first = old.first /\ com.second = old.second
        /\ old.name \in Leaves => com.kind \in Simple
        /\ old.name \notin Leaves => com.kind = old.name
        /\ com.kind = "char_def" => \E c \in Chars : com.s = {c}
        /\ com.kind = "multior" => com.s # {}
        /\ old.first \in Nat /\ old.second \in Nat
    BY <1>4, <2>1 DEF RawCommands
  <2>3. RawPlaced(b, old, i)
    BY <2>1 DEF Raw
  <2>4. ASSUME com.kind \notin Simple PROVE com.kind = old.name
    BY <2>2, <2>4
  <2>5. com.kind \in Binary => com.first \in 1 .. i - 1 /\ com.second \in 1 .. i - 1
    BY <2>2, <2>3, <2>4 DEF RawPlaced, Binary, Simple
  <2>6. com.kind \in Unary => com.first \in 1 .. i - 1
    BY <2>2, <2>3, <2>4 DEF RawPlaced, Unary, Simple
  <2>7. com.kind = "multiconcat"
          => /\ com.first \in 1 .. i - 1 /\ com.second \in com.first .. i - 1
             /\ \A k \in com.first .. com.second : u[k].kind \in Simple
    <3> SUFFICES ASSUME com.kind = "multiconcat"
                 PROVE  /\ com.first \in 1 .. i - 1
                        /\ com.second \in com.first .. i - 1
                        /\ \A k \in com.first .. com.second : u[k].kind \in Simple
      OBVIOUS
    <3>1. old.name = "multiconcat"
      BY <2>4 DEF Simple
    <3>2. /\ com.first \in 1 .. i - 1 /\ com.second \in com.first .. i - 1
          /\ \A k \in com.first .. com.second : b[k].name \in Leaves
      BY <2>2, <2>3, <3>1 DEF RawPlaced
    <3>3. com.first \in Nat /\ com.second \in Nat
      BY <2>2
    <3>4. \A k \in com.first .. com.second : k \in 1 .. Len(b)
      BY <1>2, <3>2, <3>3
    <3> QED
      BY <1>4, <3>2, <3>4
  <2>8. Placed(u, com, i)
    BY <2>2, <2>5, <2>6, <2>7, Zenon DEF Placed
  <2> QED
    BY <2>1, <2>8 DEF InPlace
<1>7. b # <<>> => u # <<>>
  BY <1>2, <1>5
<1> QED
  BY <1>1, <1>5, <1>6, <1>7 DEF Complete

RawNames == Binary \cup Unary \cup Leaves \cup {"multiconcat"}

LEMMA RawAre ==
  RawCommands = [name : RawNames, action_name : Nat, first : Nat, second : Nat,
                 c : Nat, cls : Classes \cup {"none"}]
BY Zenon DEF RawCommands, RawNames

LEMMA RawOperands ==
  ASSUME NEW b \in Seq(RawCommands), NEW i \in 1 .. Len(b)
  PROVE  b[i] \in RawCommands /\ b[i].first \in Nat /\ b[i].second \in Nat
<1>1. b[i] \in RawCommands
  OBVIOUS
<1> QED
  BY <1>1 DEF RawCommands

LEMMA RawPlacedSame ==
  ASSUME NEW a, NEW c, NEW i \in Nat, NEW com,
         \A k \in 1 .. i - 1 : c[k].name = a[k].name, RawPlaced(a, com, i),
         com.first \in Nat, com.second \in Nat
  PROVE  RawPlaced(c, com, i)
<1>1. ASSUME com.name = "multiconcat", NEW k \in com.first .. com.second
      PROVE  c[k].name \in Leaves
  <2>1. /\ com.first \in 1 .. i - 1 /\ com.second \in com.first .. i - 1
        /\ a[k].name \in Leaves
    BY <1>1 DEF RawPlaced
  <2>2. k \in 1 .. i - 1
    BY <1>1, <2>1
  <2> QED
    BY <2>1, <2>2
<1> QED
  BY <1>1 DEF RawPlaced

LEMMA AddRaw ==
  ASSUME NEW a, Raw(a), NEW com \in RawCommands, RawPlaced(a, com, Len(a) + 1)
  PROVE  /\ Raw(Append(a, com)) /\ Len(Append(a, com)) = Len(a) + 1
         /\ Len(a) \in Nat /\ Append(a, com)[Len(a) + 1] = com
         /\ \A k \in 1 .. Len(a) : Append(a, com)[k] = a[k]
<1>1. PICK c : c = Append(a, com)
  OBVIOUS
<1>2. a \in Seq(RawCommands) /\ Len(a) \in Nat
  BY DEF Raw
<1>3. /\ c \in Seq(RawCommands) /\ Len(c) = Len(a) + 1
      /\ c[Len(a) + 1] = com /\ \A k \in 1 .. Len(a) : c[k] = a[k]
  BY <1>1, <1>2
<1>4. ASSUME NEW i \in 1 .. Len(c) PROVE RawPlaced(c, c[i], i)
  <2>1. CASE i = Len(a) + 1
    <3>1. com.first \in Nat /\ com.second \in Nat
      BY DEF RawCommands
    <3>2. \A k \in 1 .. i - 1 : c[k].name = a[k].name
      BY <1>2, <1>3, <2>1
    <3>3. RawPlaced(c, com, i)
      BY <1>2, <2>1, <3>1, <3>2, RawPlacedSame
    <3> QED
      BY <1>3, <2>1, <3>3
  <2>2. CASE i # Len(a) + 1
    <3>1. i \in 1 .. Len(a) /\ i \in Nat
      BY <1>2, <1>3, <2>2
    <3>2. RawPlaced(a, a[i], i)
      BY <3>1 DEF Raw
    <3>3. a[i].first \in Nat /\ a[i].second \in Nat
      BY <1>2, <3>1, RawOperands
    <3>4. \A k \in 1 .. i - 1 : c[k].name = a[k].name
      BY <1>2, <1>3, <3>1
    <3>5. RawPlaced(c, a[i], i)
      BY <3>1, <3>2, <3>3, <3>4, RawPlacedSame
    <3> QED
      BY <1>3, <3>1, <3>5
  <2> QED
    BY <2>1, <2>2
<1> QED
  BY <1>1, <1>2, <1>3, <1>4 DEF Raw

(* A character or a class.                                                 *)
LEMMA LeafRaw ==
  ASSUME NEW com \in {Char_def(c) : c \in Chars}
                       \cup {Char_class_def(cls) : cls \in Classes}
  PROVE  /\ com \in RawCommands /\ com.name \in Leaves
         /\ \A b, i : RawPlaced(b, com, i)
<1>1. CASE com \in {Char_def(c) : c \in Chars}
  <2>1. PICK c \in Chars : com = Char_def(c)
    BY <1>1
  <2>2. c \in Nat
    BY CharsFinite
  <2>3. com.name = "char_def" /\ com.c = c /\ com.cls = "none"
    BY <2>1 DEF Char_def, Command
  <2>4. com \in RawCommands
    BY <2>1, <2>2 DEF Char_def, Command, RawCommands, Leaves
  <2>5. \A b, i : RawPlaced(b, com, i)
    BY <2>3 DEF RawPlaced, Binary, Unary
  <2> QED
    BY <2>3, <2>4, <2>5 DEF Leaves
<1>2. CASE com \in {Char_class_def(cls) : cls \in Classes}
  <2>1. PICK cls \in Classes : com = Char_class_def(cls)
    BY <1>2
  <2>2. com.name = "char_class_def" /\ com.cls = cls
    BY <2>1 DEF Char_class_def, Command
  <2>3. com \in RawCommands
    BY <2>1 DEF Char_class_def, Command, RawCommands, Leaves
  <2>4. \A b, i : RawPlaced(b, com, i)
    BY <2>2 DEF RawPlaced, Binary, Unary
  <2> QED
    BY <2>2, <2>3, <2>4 DEF Leaves
<1> QED
  BY <1>1, <1>2

(* An operator over what is already there.                                 *)
LEMMA OperatorRaw ==
  ASSUME NEW b, Raw(b), NEW name \in Binary \cup {"multiconcat"},
         NEW x \in 1 .. Len(b), NEW y \in 1 .. Len(b),
         name = "multiconcat" => x <= y /\ \A k \in x .. y : b[k].name \in Leaves,
         NEW com, com = [Command(name) EXCEPT !.first = x, !.second = y]
  PROVE  com \in RawCommands /\ RawPlaced(b, com, Len(b) + 1)
<1>1. Len(b) \in Nat /\ x \in Nat /\ y \in Nat
  BY DEF Raw
<1>2. name \in RawNames
  BY DEF RawNames
<1>3. /\ com \in RawCommands /\ com.name = name /\ com.first = x
      /\ com.second = y
  <2>1. PICK new : new = Command(name)
    OBVIOUS
  <2>2. new \in RawCommands /\ new.name = name
    BY <1>2, <2>1, RawAre DEF Command
  <2>3. com = [new EXCEPT !.first = x, !.second = y]
    BY <2>1
  <2> QED
    BY <1>1, <2>2, <2>3, RawAre
<1>4. PICK i : i = Len(b) + 1
  OBVIOUS
<1>5. RawPlaced(b, com, i)
  <2>1. com.name \notin Unary /\ com.name \notin Leaves
    BY <1>3 DEF Binary, Unary, Leaves
  <2>2. com.name # "char_def" /\ com.name # "char_class_def"
    BY <2>1 DEF Leaves
  <2>3. com.first \in 1 .. i - 1 /\ com.second \in 1 .. i - 1
    BY <1>1, <1>3, <1>4
  <2>4. com.name = "multiconcat"
          => /\ com.second \in com.first .. i - 1
             /\ \A k \in com.first .. com.second : b[k].name \in Leaves
    BY <1>1, <1>3, <1>4
  <2> QED
    BY <2>1, <2>2, <2>3, <2>4 DEF RawPlaced
<1> QED
  BY <1>3, <1>4, <1>5

LEMMA UnaryRaw ==
  ASSUME NEW b, Raw(b), NEW name \in Unary, NEW x \in 1 .. Len(b), NEW com,
         com = [Command(name) EXCEPT !.first = x]
  PROVE  com \in RawCommands /\ RawPlaced(b, com, Len(b) + 1)
<1>1. Len(b) \in Nat /\ x \in Nat
  BY DEF Raw
<1>2. name \in RawNames
  BY DEF RawNames
<1>3. com \in RawCommands /\ com.name = name /\ com.first = x
  <2>1. PICK new : new = Command(name)
    OBVIOUS
  <2>2. new \in RawCommands /\ new.name = name
    BY <1>2, <2>1, RawAre DEF Command
  <2>3. com = [new EXCEPT !.first = x]
    BY <2>1
  <2> QED
    BY <1>1, <2>2, <2>3, RawAre
<1>4. PICK i : i = Len(b) + 1
  OBVIOUS
<1>5. RawPlaced(b, com, i)
  <2>1. /\ com.name \notin Binary /\ com.name # "multiconcat"
        /\ com.name # "char_def" /\ com.name # "char_class_def"
    BY <1>3 DEF Binary, Unary
  <2>2. com.first \in 1 .. i - 1
    BY <1>1, <1>3, <1>4
  <2> QED
    BY <2>1, <2>2 DEF RawPlaced
<1> QED
  BY <1>3, <1>4, <1>5

-----------------------------------------------------------------------------
(* The buffers of the two texts of %idents, as long as no error is counted.*)
Shaped(b) ==
  /\ sp \in Fields
  /\ sp.number_of_ors # 0 => sp.arg1 \in 1 .. Len(b)
  /\ sp.state = "State_concat"
       => /\ sp.first_concatenated \in 1 .. Len(b)
          /\ \A k \in sp.first_concatenated .. Len(b) : b[k].name \in Leaves

RawInv ==
  ~failed
    => /\ DOMAIN bufs = Parts
       /\ \A p \in Parts : Raw(bufs[p])
       /\ part # "id_begin" => bufs["id_begin"] # <<>>
       /\ part \in Parts => Shaped(bufs[part])

LEMMA AlternativeRaw ==
  ASSUME NEW b, Raw(b), Shaped(b), sp.state = "State_concat",
         NEW c, c = write_or_command(write_concatenated(b))
  PROVE  Raw(c) /\ Len(c) \in Nat /\ Len(c) >= 1
<1>1. PICK k, m, q :
        k = sp.first_concatenated /\ m = sp.number_of_ors /\ q = sp.arg1
  OBVIOUS
<1>2. /\ k \in 1 .. Len(b) /\ \A j \in k .. Len(b) : b[j].name \in Leaves
      /\ m # 0 => q \in 1 .. Len(b)
      /\ Len(b) \in Nat
  BY <1>1 DEF Shaped, Raw
<1>3. PICK d : d = write_concatenated(b)
  OBVIOUS
<1>4. Raw(d) /\ Len(d) \in Nat /\ Len(d) >= Len(b)
  <2>1. CASE sp.number_of_concatenated > 1
    <3>1. PICK n, com : /\ n = Len(b)
                        /\ com = [Command("multiconcat") EXCEPT
                                    !.first = k, !.second = n]
      OBVIOUS
    <3>2. d = Append(b, com)
      BY <1>1, <1>3, <2>1, <3>1, Zenon DEF write_concatenated
    <3>3. /\ n \in 1 .. Len(b) /\ k \in 1 .. Len(b) /\ k <= n
          /\ \A j \in k .. n : b[j].name \in Leaves
      BY <1>2, <3>1
    <3>4. com \in RawCommands /\ RawPlaced(b, com, Len(b) + 1)
      BY <3>1, <3>3, OperatorRaw
    <3>5. Raw(d) /\ Len(d) = Len(b) + 1
      BY <3>2, <3>4, AddRaw
    <3> QED
      BY <1>2, <3>5
  <2>2. CASE ~(sp.number_of_concatenated > 1)
    <3>1. d = b
      BY <1>3, <2>2, Zenon DEF write_concatenated
    <3> QED
      BY <1>2, <3>1
  <2> QED
    BY <2>1, <2>2
<1>5. Len(d) >= 1
  BY <1>2, <1>4
<1>6. CASE m = 0
  <2>1. c = d
    BY <1>1, <1>3, <1>6 DEF write_or_command
  <2> QED
    BY <1>4, <1>5, <2>1
<1>7. CASE m # 0
  <2>1. PICK n, com : /\ n = Len(d)
                      /\ com = [Command("or") EXCEPT !.first = q, !.second = n]
    OBVIOUS
  <2>2. c = Append(d, com)
    BY <1>1, <1>3, <1>7, <2>1, Zenon DEF write_or_command
  <2>3. q \in 1 .. Len(d) /\ n \in 1 .. Len(d)
    BY <1>2, <1>4, <1>5, <1>7, <2>1
  <2>4. com \in RawCommands /\ RawPlaced(d, com, Len(d) + 1)
    <3>1. "or" \in Binary \cup {"multiconcat"} /\ "or" # "multiconcat"
      BY DEF Binary
    <3> QED
      BY <1>4, <2>1, <2>3, <3>1, OperatorRaw
  <2>5. Raw(c) /\ Len(c) = Len(d) + 1
    BY <1>4, <2>2, <2>4, AddRaw
  <2> QED
    BY <1>4, <1>5, <2>5
<1> QED
  BY <1>6, <1>7

LEMMA LetterRaw ==
  ASSUME NEW l \in Lexems, IsLetter(l)
  PROVE  /\ l.com \in RawCommands /\ l.com.name \in Leaves
         /\ \A b, i : RawPlaced(b, l.com, i)
<1>1. \A com \in IdLetters : Letter(com).com = com
  BY DEF Letter
<1>2. l \notin {Begin, End, Bar, Another}
  BY LexemsApart DEF Marks
<1>3. l.com \in IdLetters
  BY <1>1, <1>2 DEF Lexems
<1>4. l.com \in {Char_def(c) : c \in Chars}
                  \cup {Char_class_def(cls) : cls \in Classes}
  BY <1>3, SrpAssumption
<1> QED
  BY <1>4, LeafRaw

(* This buffer becomes b, the other one stays.                             *)
LEMMA BufferWritten ==
  ASSUME DOMAIN bufs = Parts, \A p \in Parts : Raw(bufs[p]), part \in Parts,
         NEW b, Raw(b), bufs' = [bufs EXCEPT ![part] = b]
  PROVE  /\ DOMAIN bufs' = Parts /\ \A p \in Parts : Raw(bufs'[p])
         /\ bufs'[part] = b
         /\ part # "id_begin" => bufs'["id_begin"] = bufs["id_begin"]
BY DEF Parts

LEMMA RawBeginExpr ==
  ASSUME RawInv, state_begin_expr_proc
  PROVE  RawInv'
<1> SUFFICES ASSUME ~failed' PROVE RawInv'
  BY DEF RawInv
<1>0. part \in Parts /\ sp.state = "State_begin_expr" /\ bufs' = bufs
  BY DEF state_begin_expr_proc, Reading
<1>1. PICK l \in Upcoming \ {Eof} :
        /\ failed' = (failed \/ l # Begin)
        /\ IF l = End THEN Return
           ELSE /\ sp' = [sp EXCEPT !.state = "State_begin_concat"]
                /\ UNCHANGED part
  BY DEF state_begin_expr_proc
<1>2. ~failed /\ l # End
  BY <1>1, LexemsApart
<1>3. UNCHANGED part /\ sp' = [sp EXCEPT !.state = "State_begin_concat"]
  BY <1>1, <1>2
<1>4. Shaped(bufs[part])
  BY <1>0, <1>2 DEF RawInv
<1>5. /\ sp' \in Fields /\ sp'.state = "State_begin_concat"
      /\ sp'.number_of_ors = sp.number_of_ors /\ sp'.arg1 = sp.arg1
  BY <1>3, <1>4 DEF Shaped, Fields
<1>6. Shaped(bufs[part])'
  BY <1>0, <1>3, <1>4, <1>5 DEF Shaped
<1> QED
  BY <1>0, <1>2, <1>3, <1>6 DEF RawInv

LEMMA RawBeginConcat ==
  ASSUME SrpInv, BufInv, RawInv, state_begin_concat_proc
  PROVE  RawInv'
<1> SUFFICES ASSUME ~failed' PROVE RawInv'
  BY DEF RawInv
<1>0. part \in Parts /\ sp.state = "State_begin_concat"
  BY DEF state_begin_concat_proc, Reading
<1>1. PICK l \in Upcoming \ {Eof} :
        /\ current_lexem(l)
        /\ failed' = (failed \/ no_alternative(l))
        /\ IF IsLetter(l)
           THEN LET b == Append(bufs[part], l.com)
                IN /\ bufs' = [bufs EXCEPT ![part] = b]
                   /\ sp' = [sp EXCEPT !.state = "State_concat",
                                       !.first_concatenated = Len(b),
                                       !.number_of_concatenated = 1]
                   /\ UNCHANGED part
           ELSE /\ IF l = End THEN Return ELSE UNCHANGED <<part, sp>>
                /\ UNCHANGED bufs
  BY DEF state_begin_concat_proc
<1>2. ~failed /\ IsLetter(l)
  BY <1>1 DEF no_alternative
<1>3. PICK b, c, n : b = bufs[part] /\ c = Append(b, l.com) /\ n = Len(c)
  OBVIOUS
<1>4. /\ bufs' = [bufs EXCEPT ![part] = c] /\ UNCHANGED part
      /\ sp' = [sp EXCEPT !.state = "State_concat", !.first_concatenated = n,
                          !.number_of_concatenated = 1]
  BY <1>1, <1>2, <1>3
<1>5. l \in Lexems
  BY <1>0, <1>1, <1>2, LexemTaken
<1>6. Raw(b) /\ Shaped(b) /\ DOMAIN bufs = Parts /\ \A p \in Parts : Raw(bufs[p])
  BY <1>0, <1>2, <1>3 DEF RawInv
<1>7. /\ Raw(c) /\ n = Len(b) + 1 /\ Len(b) \in Nat /\ c[n] = l.com
      /\ l.com.name \in Leaves
  <2>1. /\ l.com \in RawCommands /\ l.com.name \in Leaves
        /\ RawPlaced(b, l.com, Len(b) + 1)
    BY <1>2, <1>5, LetterRaw
  <2>2. /\ Raw(c) /\ Len(c) = Len(b) + 1 /\ Len(b) \in Nat
        /\ c[Len(b) + 1] = l.com
    BY <1>3, <1>6, <2>1, AddRaw
  <2> QED
    BY <1>3, <2>1, <2>2
<1>8. /\ DOMAIN bufs' = Parts /\ \A p \in Parts : Raw(bufs'[p])
      /\ bufs'[part] = c
      /\ part # "id_begin" => bufs'["id_begin"] = bufs["id_begin"]
  BY <1>0, <1>4, <1>6, <1>7, BufferWritten
<1>9. /\ sp' \in Fields /\ sp'.first_concatenated = n
      /\ sp'.number_of_ors = sp.number_of_ors /\ sp'.arg1 = sp.arg1
  <2>1. n \in Nat /\ sp \in Fields
    BY <1>6, <1>7 DEF Shaped
  <2> QED
    BY <1>4, <2>1 DEF Fields
<1>10. Shaped(c)'
  <2>1. n \in 1 .. Len(c) /\ \A k \in n .. Len(c) : c[k].name \in Leaves
    BY <1>3, <1>7
  <2>2. sp'.number_of_ors # 0 => sp'.arg1 \in 1 .. Len(c)
    <3>1. sp'.number_of_ors # 0 => sp'.arg1 \in 1 .. Len(b)
      BY <1>6, <1>9 DEF Shaped
    <3> QED
      BY <1>3, <1>7, <3>1
  <2> QED
    BY <1>9, <2>1, <2>2 DEF Shaped
<1> QED
  BY <1>0, <1>2, <1>4, <1>8, <1>10 DEF RawInv

LEMMA RawConcat ==
  ASSUME SrpInv, BufInv, RawInv, state_concat_proc
  PROVE  RawInv'
<1> SUFFICES ASSUME ~failed' PROVE RawInv'
  BY DEF RawInv
<1>0. part \in Parts /\ sp.state = "State_concat"
  BY DEF state_concat_proc, Reading
<1>1. PICK l \in Upcoming \ {Eof} :
        /\ current_lexem(l)
        /\ failed' = (failed \/ ~(l \in {Bar, End} \/ (IsLetter(l) /\ Allowed(l))))
        /\ CASE IsLetter(l) ->
                  /\ bufs' = [bufs EXCEPT ![part] = Append(@, l.com)]
                  /\ sp' = [sp EXCEPT !.number_of_concatenated = @ + 1]
                  /\ UNCHANGED part
             [] l = Bar ->
                  /\ bufs' = [bufs EXCEPT ![part] = Alternative]
                  /\ sp' = [sp EXCEPT !.state = "State_begin_concat",
                                      !.number_of_ors = @ + 1,
                                      !.number_of_concatenated = 0,
                                      !.arg1 = Len(Alternative)]
                  /\ UNCHANGED part
             [] l = End -> bufs' = [bufs EXCEPT ![part] = Alternative] /\ Return
             [] OTHER -> UNCHANGED <<bufs, sp, part>>
  BY DEF state_concat_proc
<1>2. ~failed /\ (l \in {Bar, End} \/ IsLetter(l))
  BY <1>1
<1>3. /\ ~IsLetter(Bar) /\ ~IsLetter(End) /\ Bar # End
  BY LexemsApart DEF Marks
<1>4. l \in Lexems
  BY <1>0, <1>1, <1>2, LexemTaken
<1>5. PICK b, c, a, n, m : /\ b = bufs[part] /\ c = Append(b, l.com)
                           /\ a = Alternative /\ n = Len(a)
                           /\ m = sp.number_of_ors + 1
  OBVIOUS
<1>6. /\ IsLetter(l) =>
           /\ bufs' = [bufs EXCEPT ![part] = c] /\ UNCHANGED part
           /\ sp' = [sp EXCEPT !.number_of_concatenated = @ + 1]
      /\ l = Bar =>
           /\ bufs' = [bufs EXCEPT ![part] = a] /\ UNCHANGED part
           /\ sp' = [sp EXCEPT !.state = "State_begin_concat",
                               !.number_of_ors = m,
                               !.number_of_concatenated = 0,
                               !.arg1 = n]
      /\ l = End => bufs' = [bufs EXCEPT ![part] = a] /\ Return
  BY <1>1, <1>3, <1>5
<1>7. /\ Raw(b) /\ Shaped(b) /\ DOMAIN bufs = Parts
      /\ \A p \in Parts : Raw(bufs[p])
      /\ part # "id_begin" => bufs["id_begin"] # <<>>
  BY <1>0, <1>2, <1>5 DEF RawInv
<1>8. Raw(a) /\ n \in Nat /\ n >= 1
  <2>1. a = write_or_command(write_concatenated(b))
    BY <1>5 DEF Alternative
  <2> QED
    BY <1>0, <1>5, <1>7, <2>1, AlternativeRaw
<1>9. CASE IsLetter(l)
  <2>1. /\ Raw(c) /\ Len(c) = Len(b) + 1 /\ Len(b) \in Nat
        /\ c[Len(b) + 1] = l.com /\ l.com.name \in Leaves
        /\ \A k \in 1 .. Len(b) : c[k] = b[k]
    BY <1>4, <1>5, <1>7, <1>9, LetterRaw, AddRaw
  <2>2. /\ DOMAIN bufs' = Parts /\ \A p \in Parts : Raw(bufs'[p])
        /\ bufs'[part] = c
        /\ part # "id_begin" => bufs'["id_begin"] = bufs["id_begin"]
    BY <1>0, <1>6, <1>7, <1>9, <2>1, BufferWritten
  <2>3. /\ sp' \in Fields /\ sp'.first_concatenated = sp.first_concatenated
        /\ sp'.number_of_ors = sp.number_of_ors /\ sp'.arg1 = sp.arg1
    BY <1>6, <1>7, <1>9 DEF Shaped, Fields
  <2>4. PICK k : k = sp.first_concatenated
    OBVIOUS
  <2>5. k \in 1 .. Len(b) /\ \A j \in k .. Len(b) : b[j].name \in Leaves
    BY <1>0, <1>7, <2>4 DEF Shaped
  <2>6. k \in 1 .. Len(c)
    BY <2>1, <2>5
  <2>7. ASSUME NEW j \in k .. Len(c) PROVE c[j].name \in Leaves
    <3>1. j = Len(b) + 1 \/ (j \in k .. Len(b) /\ j \in 1 .. Len(b))
      BY <2>1, <2>5
    <3> QED
      BY <2>1, <2>5, <3>1
  <2>8. sp'.number_of_ors # 0 => sp'.arg1 \in 1 .. Len(c)
    <3>1. sp'.number_of_ors # 0 => sp'.arg1 \in 1 .. Len(b)
      BY <1>7, <2>3 DEF Shaped
    <3> QED
      BY <2>1, <3>1
  <2>9. Shaped(c)'
    BY <2>3, <2>4, <2>6, <2>7, <2>8 DEF Shaped
  <2> QED
    BY <1>0, <1>6, <1>7, <1>9, <2>2, <2>9 DEF RawInv
<1>10. CASE l = Bar
  <2>1. /\ DOMAIN bufs' = Parts /\ \A p \in Parts : Raw(bufs'[p])
        /\ bufs'[part] = a
        /\ part # "id_begin" => bufs'["id_begin"] = bufs["id_begin"]
    BY <1>0, <1>6, <1>7, <1>8, <1>10, BufferWritten
  <2>2. /\ sp' \in Fields /\ sp'.arg1 = n /\ sp'.state = "State_begin_concat"
    <3>1. sp \in Fields /\ m \in Nat
      BY <1>5, <1>7 DEF Shaped, Fields
    <3>2. sp' = [sp EXCEPT !.state = "State_begin_concat",
                           !.number_of_ors = m, !.number_of_concatenated = 0,
                           !.arg1 = n]
      BY <1>6, <1>10
    <3>3. sp' \in Fields
      BY <1>8, <3>1, <3>2 DEF Fields
    <3> QED
      BY <3>1, <3>2, <3>3 DEF Fields
  <2>3. n \in 1 .. Len(a)
    BY <1>5, <1>8
  <2>4. Shaped(a)'
    BY <2>2, <2>3 DEF Shaped
  <2> QED
    BY <1>0, <1>6, <1>7, <1>10, <2>1, <2>4 DEF RawInv
<1>11. CASE l = End
  <2>1. /\ DOMAIN bufs' = Parts /\ \A p \in Parts : Raw(bufs'[p])
        /\ bufs'[part] = a
        /\ part # "id_begin" => bufs'["id_begin"] = bufs["id_begin"]
    BY <1>0, <1>6, <1>7, <1>8, <1>11, BufferWritten
  <2>2. a # <<>>
    BY <1>5, <1>8
  <2>3. bufs'["id_begin"] # <<>>
    BY <1>0, <1>7, <2>1, <2>2 DEF Parts
  <2>4. /\ sp' \in Fields /\ sp'.state = "State_begin_expr"
        /\ sp'.number_of_ors = 0
    BY <1>6, <1>11 DEF Return, Start, Fields
  <2>5. \A x : Shaped(x)'
    BY <2>4 DEF Shaped
  <2> QED
    BY <2>1, <2>3, <2>5 DEF RawInv
<1> QED
  BY <1>2, <1>9, <1>10, <1>11

LEMMA RawRunOut ==
  ASSUME run_out PROVE RawInv'
BY DEF run_out, RawInv

LEMMA RawKept ==
  ASSUME RawInv, UNCHANGED srpVars
  PROVE  RawInv'
<1>1. \A b : Shaped(b)' <=> Shaped(b)
  BY DEF Shaped, srpVars
<1> QED
  BY <1>1 DEF RawInv, srpVars

LEMMA RawInit ==
  ASSUME SrpInit, part = "id_begin"
  PROVE  RawInv
<1>1. /\ DOMAIN bufs = Parts /\ \A p \in Parts : bufs[p] = <<>>
      /\ sp = Start
  BY DEF SrpInit
<1>2. Raw(<<>>)
  BY DEF Raw
<1>3. \A b : Shaped(b)
  BY <1>1 DEF Shaped, Start, Fields
<1> QED
  BY <1>1, <1>2, <1>3 DEF RawInv

(* The commands put together for identifiers.                              *)
LEMMA IdentComplete ==
  ASSUME RawInv, ~failed, part = "parsed"
  PROVE  Complete(ident_commands) /\ ident_commands # <<>>
<1>1. /\ Raw(bufs["id_begin"]) /\ Raw(bufs["id_body"])
      /\ bufs["id_begin"] # <<>>
  BY DEF RawInv, Parts
<1>2. /\ Complete(unwrap_commands(bufs["id_begin"]))
      /\ unwrap_commands(bufs["id_begin"]) # <<>>
      /\ Complete(unwrap_commands(bufs["id_body"]))
  BY <1>1, UnwrapComplete
<1> QED
  BY <1>2, AstComplete DEF ident_commands

-----------------------------------------------------------------------------
(* The expression of numbers or strings: the operands on the stack are in  *)
(* the buffer.                                                             *)
Stack(n) == Seq([lo : Nat, hi : 1 .. n])

ExprInv == Raw(buf) /\ operands \in Stack(Len(buf))

LEMMA TopIs ==
  ASSUME ExprInv, NEW k \in 0 .. 1, Len(operands) > k
  PROVE  Top(k).lo \in Nat /\ Top(k).hi \in 1 .. Len(buf)
<1>1. operands \in Seq([lo : Nat, hi : 1 .. Len(buf)])
  BY DEF ExprInv, Stack
<1>2. Len(operands) - k \in 1 .. Len(operands)
  BY <1>1
<1>3. PICK S : S = [lo : Nat, hi : 1 .. Len(buf)]
  OBVIOUS
<1>4. Top(k) \in S
  <2>1. PICK i : i = Len(operands) - k
    OBVIOUS
  <2>2. operands \in Seq(S) /\ i \in 1 .. Len(operands)
    BY <1>1, <1>2, <1>3, <2>1
  <2>3. operands[i] \in S
    BY <2>2
  <2> QED
    BY <2>1, <2>3, Zenon DEF Top
<1> QED
  BY <1>3, <1>4

LEMMA Reduced ==
  ASSUME ExprInv, NEW com \in RawCommands, RawPlaced(buf, com, Len(buf) + 1),
         NEW op \in [lo : Nat, hi : 1 .. Len(buf) + 1],
         NEW n \in Nat, Reduce(com, op, n)
  PROVE  ExprInv'
<1>1. /\ buf' = Append(buf, com) /\ Len(operands) >= n
      /\ operands' = Append(SubSeq(operands, 1, Len(operands) - n), op)
  BY DEF Reduce
<1>2. Raw(buf') /\ Len(buf') = Len(buf) + 1 /\ Len(buf) \in Nat
  BY <1>1, AddRaw DEF ExprInv
<1>3. PICK S, T : /\ S = [lo : Nat, hi : 1 .. Len(buf)]
                  /\ T = [lo : Nat, hi : 1 .. Len(buf) + 1]
  OBVIOUS
<1>4. operands \in Seq(S) /\ S \subseteq T /\ op \in T
  <2>1. 1 .. Len(buf) \subseteq 1 .. Len(buf) + 1
    BY <1>2
  <2> QED
    BY <1>3, <2>1 DEF ExprInv, Stack
<1>5. PICK r, m : m = Len(operands) - n /\ r = SubSeq(operands, 1, m)
  OBVIOUS
<1>6. m \in Nat /\ m <= Len(operands)
  BY <1>1, <1>4, <1>5
<1>7. r \in Seq(T)
  <2>1. \A i \in 1 .. m : i \in 1 .. Len(operands)
    BY <1>4, <1>6
  <2>2. Len(r) = m /\ r \in Seq(S) /\ \A i \in 1 .. m : r[i] = operands[i]
    BY <1>4, <1>5, <1>6
  <2>3. \A i \in 1 .. m : r[i] \in T
    BY <1>4, <2>1, <2>2
  <2>4. r \in [1 .. m -> T]
    BY <2>2, <2>3
  <2> QED
    BY <1>6, <2>4
<1>8. operands' \in Seq(T)
  BY <1>1, <1>4, <1>5, <1>7
<1> QED
  BY <1>2, <1>3, <1>8 DEF ExprInv, Stack

LEMMA ExprH ==
  ASSUME ExprInv, H_is_d PROVE ExprInv'
<1>1. PICK com \in ExprLeaves : Reduce(com, Alone, 0)
  BY DEF H_is_d
<1>2. com \in RawCommands /\ RawPlaced(buf, com, Len(buf) + 1)
  BY AutomataAssumption, LeafRaw
<1>3. Len(buf) \in Nat
  BY DEF ExprInv, Raw
<1>4. Alone \in [lo : Nat, hi : 1 .. Len(buf) + 1]
  BY <1>3 DEF Alone
<1> QED
  BY <1>1, <1>2, <1>4, Reduced

LEMMA ExprBinary ==
  ASSUME ExprInv, NEW name \in Binary, binary(name) PROVE ExprInv'
<1>1. PICK x, y, com, op :
        /\ x = Top(1).hi /\ y = Top(0).hi
        /\ com = [Command(name) EXCEPT !.first = x, !.second = y]
        /\ op = [lo |-> Top(1).lo, hi |-> Len(buf) + 1]
  OBVIOUS
<1>2. Len(operands) >= 2 /\ Reduce(com, op, 2)
  BY <1>1, Zenon DEF binary
<1>3. Len(operands) \in Nat
  BY DEF ExprInv, Stack
<1>4. x \in 1 .. Len(buf) /\ y \in 1 .. Len(buf) /\ Top(1).lo \in Nat
  BY <1>1, <1>2, <1>3, TopIs
<1>5. name # "multiconcat" /\ name \in Binary \cup {"multiconcat"}
  BY DEF Binary
<1>6. com \in RawCommands /\ RawPlaced(buf, com, Len(buf) + 1)
  BY <1>1, <1>4, <1>5, OperatorRaw DEF ExprInv
<1>7. op \in [lo : Nat, hi : 1 .. Len(buf) + 1]
  <2>1. Len(buf) \in Nat
    BY DEF ExprInv, Raw
  <2> QED
    BY <1>1, <1>4, <2>1
<1> QED
  BY <1>2, <1>6, <1>7, Reduced

LEMMA ExprUnary ==
  ASSUME ExprInv, F_is_Gc PROVE ExprInv'
<1>1. PICK name \in Unary :
        Reduce([Command(name) EXCEPT !.first = Top(0).hi],
               [lo |-> Top(0).lo, hi |-> Len(buf) + 1], 1)
  BY DEF F_is_Gc
<1>2. PICK x, com, op : /\ x = Top(0).hi
                        /\ com = [Command(name) EXCEPT !.first = x]
                        /\ op = [lo |-> Top(0).lo, hi |-> Len(buf) + 1]
  OBVIOUS
<1>3. Reduce(com, op, 1)
  BY <1>1, <1>2, Zenon
<1>4. Len(operands) \in Nat /\ Len(operands) > 0
  BY DEF ExprInv, Stack, F_is_Gc
<1>5. x \in 1 .. Len(buf) /\ Top(0).lo \in Nat
  BY <1>2, <1>4, TopIs
<1>6. com \in RawCommands /\ RawPlaced(buf, com, Len(buf) + 1)
  BY <1>2, <1>5, UnaryRaw DEF ExprInv
<1>7. op \in [lo : Nat, hi : 1 .. Len(buf) + 1]
  <2>1. Len(buf) \in Nat
    BY DEF ExprInv, Raw
  <2> QED
    BY <1>2, <1>5, <2>1
<1> QED
  BY <1>3, <1>6, <1>7, Reduced

LEMMA ExprAction ==
  ASSUME ExprInv, G_is_Ha PROVE ExprInv'
<1>1. PICK act \in Acts :
        buf' = [i \in DOMAIN buf |->
                  IF i \in Top(0).lo .. Top(0).hi
                  THEN [buf[i] EXCEPT !.action_name = act] ELSE buf[i]]
  BY DEF G_is_Ha
<1>2. operands' = operands /\ act \in Nat
  BY AutomataAssumption DEF G_is_Ha
<1>3. /\ buf \in Seq(RawCommands) /\ Len(buf) \in Nat
      /\ DOMAIN buf = 1 .. Len(buf)
  BY DEF ExprInv, Raw
<1>4. ASSUME NEW i \in 1 .. Len(buf)
      PROVE  /\ buf'[i] \in RawCommands /\ buf'[i].name = buf[i].name
             /\ buf'[i].first = buf[i].first /\ buf'[i].second = buf[i].second
             /\ buf'[i].c = buf[i].c /\ buf'[i].cls = buf[i].cls
  <2>1. PICK com, new : com = buf[i] /\ new = buf'[i]
    OBVIOUS
  <2>2. com \in RawCommands
    BY <1>3, <2>1
  <2>3. new = [com EXCEPT !.action_name = act] \/ new = com
    BY <1>1, <1>3, <2>1
  <2>4. /\ new \in RawCommands /\ new.name = com.name
        /\ new.first = com.first /\ new.second = com.second
        /\ new.c = com.c /\ new.cls = com.cls
    BY <1>2, <2>2, <2>3, RawAre
  <2> QED
    BY <2>1, <2>4
<1>5. buf' \in Seq(RawCommands) /\ Len(buf') = Len(buf)
  <2>1. DOMAIN buf' = 1 .. Len(buf) /\ buf' = [i \in 1 .. Len(buf) |-> buf'[i]]
    BY <1>1, <1>3
  <2>2. buf' \in [1 .. Len(buf) -> RawCommands]
    BY <1>4, <2>1
  <2> QED
    BY <1>3, <2>2
<1>6. ASSUME NEW i \in 1 .. Len(buf') PROVE RawPlaced(buf', buf'[i], i)
  <2>1. PICK com, new : com = buf[i] /\ new = buf'[i]
    OBVIOUS
  <2>2. i \in 1 .. Len(buf) /\ i \in Nat
    BY <1>5
  <2>3. /\ RawPlaced(buf, com, i) /\ com.first \in Nat /\ com.second \in Nat
    BY <1>3, <2>1, <2>2, RawOperands DEF ExprInv, Raw
  <2>4. \A k \in 1 .. i - 1 : buf'[k].name = buf[k].name
    BY <1>3, <1>4, <2>2
  <2>5. RawPlaced(buf', com, i)
    BY <2>2, <2>3, <2>4, RawPlacedSame
  <2>6. /\ new.name = com.name /\ new.first = com.first
        /\ new.second = com.second /\ new.c = com.c /\ new.cls = com.cls
    BY <1>4, <2>1, <2>2
  <2>7. RawPlaced(buf', new, i)
    BY <2>5, <2>6 DEF RawPlaced
  <2> QED
    BY <2>1, <2>7
<1>7. Raw(buf')
  BY <1>5, <1>6 DEF Raw
<1> QED
  BY <1>2, <1>5, <1>7 DEF ExprInv, Stack

LEMMA ExprKept ==
  ASSUME ExprInv, UNCHANGED <<buf, operands>> PROVE ExprInv'
BY DEF ExprInv

LEMMA ExprInit ==
  ASSUME buf = <<>>, operands = <<>> PROVE ExprInv
BY DEF ExprInv, Raw, Stack

LEMMA ExprComplete ==
  ASSUME ExprInv, Len(operands) = 1
  PROVE  Complete(unwrap_commands(buf)) /\ unwrap_commands(buf) # <<>>
<1>1. Top(0).hi \in 1 .. Len(buf)
  BY TopIs
<1>2. buf # <<>> /\ Raw(buf)
  BY <1>1 DEF ExprInv
<1> QED
  BY <1>2, UnwrapComplete

-----------------------------------------------------------------------------
(* The subset construction: what is kept while an unmarked state gets its  *)
(* jumps, and from one state to the next.                                  *)

Distinct(s) == \A i, j \in DOMAIN s : s[i] = s[j] => i = j
Jumps(l) == [from : 0 .. l - 1, gc : Gen_chars, act : Nat, to : 0 .. l - 1]

Sound(acc, n) ==
  /\ acc.sets \in Seq(SUBSET (0 .. n)) /\ Distinct(acc.sets)
  /\ acc.unmarked \in Seq(0 .. Len(acc.sets) - 1) /\ Distinct(acc.unmarked)
  /\ acc.jumps \subseteq Jumps(Len(acc.sets))
  /\ \A e, f \in acc.jumps : e.from = f.from /\ e.gc = f.gc => e = f
  /\ \A e \in acc.jumps : \A k \in DOMAIN acc.unmarked :
       e.from # acc.unmarked[k]

(* The state t is being processed and has its jumps by the characters done. *)
Processed(acc, n, t, done) ==
  /\ Sound(acc, n) /\ t \in 0 .. Len(acc.sets) - 1
  /\ \A k \in DOMAIN acc.unmarked : acc.unmarked[k] # t
  /\ \A e \in acc.jumps : e.from = t => e.gc \in done

LEMMA ActionIs ==
  ASSUME NEW n \in Nat, NEW js, js \subseteq EdgesIn(0, n), NEW S, NEW gc
  PROVE  action_for_jump(js, S, gc) \in Nat
<1>1. PICK A : A = {e \in By(js, S, gc) : e.act # 0}
  OBVIOUS
<1>2. /\ A = {} => action_for_jump(js, S, gc) = 0
      /\ A # {} => action_for_jump(js, S, gc) =
                     (CHOOSE e \in A : \A f \in A : e.from <= f.from).act
  BY <1>1 DEF action_for_jump
<1>3. \A e \in A : e.from \in Nat /\ e.act \in Nat
  BY <1>1 DEF By, EdgesIn
<1>4. CASE A # {}
  <2>1. PICK x \in {e.from : e \in A} : \A y \in {e.from : e \in A} : x <= y
    <3>1. {e.from : e \in A} \subseteq Nat /\ {e.from : e \in A} # {}
      BY <1>3, <1>4
    <3> QED
      BY <3>1, FirstOf
  <2>2. \E e \in A : \A f \in A : e.from <= f.from
    BY <2>1
  <2>3. (CHOOSE e \in A : \A f \in A : e.from <= f.from) \in A
    BY <2>2
  <2> QED
    BY <1>2, <1>3, <1>4, <2>3
<1> QED
  BY <1>2, <1>4

LEMMA DistinctAppended ==
  ASSUME NEW S, NEW s \in Seq(S), Distinct(s), NEW x,
         \A k \in DOMAIN s : s[k] # x
  PROVE  Distinct(Append(s, x))
<1>1. PICK r : r = Append(s, x)
  OBVIOUS
<1>2. /\ Len(s) \in Nat /\ DOMAIN s = 1 .. Len(s)
      /\ DOMAIN r = 1 .. Len(s) + 1 /\ r[Len(s) + 1] = x
      /\ \A k \in 1 .. Len(s) : r[k] = s[k]
  BY <1>1
<1>3. ASSUME NEW i \in DOMAIN r, NEW j \in DOMAIN r, r[i] = r[j] PROVE i = j
  <2>1. i \in 1 .. Len(s) \/ i = Len(s) + 1
    BY <1>2
  <2>2. j \in 1 .. Len(s) \/ j = Len(s) + 1
    BY <1>2
  <2> QED
    BY <1>2, <1>3, <2>1, <2>2 DEF Distinct
<1> QED
  BY <1>1, <1>3 DEF Distinct

LEMMA DistinctFront ==
  ASSUME NEW S, NEW s \in Seq(S), s # <<>>, Distinct(s)
  PROVE  /\ Front(s) \in Seq(S) /\ Distinct(Front(s)) /\ Last(s) \in S
         /\ \A k \in DOMAIN Front(s) : Front(s)[k] # Last(s)
         /\ \A k \in DOMAIN Front(s) : k \in DOMAIN s /\ Front(s)[k] = s[k]
         /\ Len(s) \in DOMAIN s /\ Last(s) = s[Len(s)]
<1>1. PICK n, r : n = Len(s) /\ r = Front(s)
  OBVIOUS
<1>2. n \in Nat /\ n # 0 /\ n - 1 \in Nat /\ DOMAIN s = 1 .. n
  BY <1>1
<1>3. r = SubSeq(s, 1, n - 1) /\ Last(s) = s[n] /\ n \in 1 .. n
  BY <1>1, <1>2 DEF Front, Last
<1>4. /\ Len(r) = n - 1 /\ DOMAIN r = 1 .. n - 1
      /\ \A k \in 1 .. n - 1 : r[k] = s[k] /\ k \in 1 .. n /\ k # n
  BY <1>2, <1>3
<1>5. \A k \in 1 .. n : s[k] \in S
  BY <1>1
<1>6. r \in Seq(S)
  <2>1. r = [k \in 1 .. n - 1 |-> r[k]]
    BY <1>2, <1>3
  <2>2. r \in [1 .. n - 1 -> S]
    BY <1>4, <1>5, <2>1
  <2> QED
    BY <1>2, <2>2
<1>7. Distinct(r) /\ \A k \in DOMAIN r : r[k] # Last(s)
  BY <1>2, <1>3, <1>4 DEF Distinct
<1> QED
  BY <1>1, <1>2, <1>3, <1>4, <1>5, <1>6, <1>7

(* One more jump, to a set that is numbered already or to a new one.       *)
LEMMA JumpAdded ==
  ASSUME NEW n \in Nat, NEW a, Spans(a, 0), n = a.final_state,
         NEW acc, NEW t, NEW done, Processed(acc, n, t, done),
         NEW gc \in Gen_chars, gc \notin done
  PROVE  Processed(AddJump(acc, a, t, gc), n, t, done \cup {gc})
<1>1. PICK ss, un, js, L :
        ss = acc.sets /\ un = acc.unmarked /\ js = acc.jumps /\ L = Len(ss)
  OBVIOUS
<1>2. /\ ss \in Seq(SUBSET (0 .. n)) /\ Distinct(ss)
      /\ un \in Seq(0 .. L - 1) /\ Distinct(un)
      /\ js \subseteq Jumps(L)
      /\ \A e, f \in js : e.from = f.from /\ e.gc = f.gc => e = f
      /\ \A e \in js : \A k \in DOMAIN un : e.from # un[k]
      /\ t \in 0 .. L - 1
      /\ \A k \in DOMAIN un : un[k] # t
      /\ \A e \in js : e.from = t => e.gc \in done
  BY <1>1 DEF Processed, Sound
<1>3. L \in Nat /\ DOMAIN ss = 1 .. L /\ DOMAIN un = 1 .. Len(un)
      /\ Len(un) \in Nat
  BY <1>1, <1>2
<1>4. PICK u, act : /\ u = epsilon_closure(a, Moved(a, ss[t + 1], gc))
                    /\ act = action_for_jump(a.edges, ss[t + 1], gc)
  OBVIOUS
<1>5. u \subseteq 0 .. n /\ act \in Nat
  <2>1. /\ a.edges \subseteq EdgesIn(0, n) /\ 0 \in Nat
        /\ \A e \in a.edges : e.to \in 0 .. n
    <3>1. a.edges \subseteq EdgesIn(0, a.final_state)
      BY SpansHas
    <3> QED
      BY <3>1 DEF EdgesIn
  <2>2. Moved(a, ss[t + 1], gc) \subseteq 0 .. n
    BY <2>1 DEF Moved, By
  <2>3. u \subseteq 0 .. n
    BY <1>4, <2>1, <2>2, ClosureIs
  <2>4. act \in Nat
    BY <1>4, <2>1, ActionIs
  <2> QED
    BY <2>3, <2>4
<1>6. PICK rs, rn, m, M :
        /\ rs = IF \A k \in DOMAIN ss : ss[k] # u THEN Append(ss, u) ELSE ss
        /\ rn = IF \A k \in DOMAIN ss : ss[k] # u THEN Append(un, Len(rs) - 1)
                ELSE un
        /\ m = NumberOf(u, rs) /\ M = Len(rs)
  OBVIOUS
<1>7. AddJump(acc, a, t, gc) =
        [sets |-> rs, unmarked |-> rn, jumps |-> js \cup {Edge(t, gc, act, m)}]
  BY <1>1, <1>4, <1>6 DEF AddJump
<1>8. /\ rs \in Seq(SUBSET (0 .. n)) /\ Distinct(rs)
      /\ rn \in Seq(0 .. M - 1) /\ Distinct(rn)
      /\ M \in Nat /\ L <= M /\ \E k \in DOMAIN rs : rs[k] = u
      /\ \A k \in DOMAIN rn : rn[k] = L \/ \E j \in DOMAIN un : rn[k] = un[j]
  <2>1. CASE \A k \in DOMAIN ss : ss[k] # u
    <3>1. rs = Append(ss, u) /\ M = L + 1 /\ rs[L + 1] = u
          /\ DOMAIN rs = 1 .. L + 1
      BY <1>1, <1>2, <1>3, <1>6, <2>1
    <3>2. rn = Append(un, L)
      <4>1. rn = Append(un, Len(rs) - 1)
        BY <1>6, <2>1
      <4>2. Len(rs) - 1 = L
        BY <1>3, <1>6, <3>1
      <4> QED
        BY <4>1, <4>2
    <3>3. rs \in Seq(SUBSET (0 .. n))
      BY <1>2, <1>5, <3>1
    <3>4. Distinct(rs)
      BY <1>2, <2>1, <3>1, DistinctAppended
    <3>5. 0 .. L - 1 \subseteq 0 .. M - 1 /\ L \in 0 .. M - 1
      BY <1>3, <3>1
    <3>6. PICK S, T : S = 0 .. L - 1 /\ T = 0 .. M - 1
      OBVIOUS
    <3>7. un \in Seq(S) /\ S \subseteq T /\ L \in T
      BY <1>2, <3>5, <3>6
    <3>8. un \in Seq(T)
      BY <3>7
    <3>9. rn \in Seq(T)
      BY <3>2, <3>7, <3>8
    <3>10. \A k \in DOMAIN un : un[k] # L
      <4>1. \A k \in DOMAIN un : un[k] \in S
        BY <3>7
      <4>2. L \notin S
        BY <1>3, <3>6
      <4> QED
        BY <4>1, <4>2
    <3>11. Distinct(rn)
      BY <1>2, <3>2, <3>10, DistinctAppended
    <3>12. \A k \in DOMAIN rn : rn[k] = L \/ \E j \in DOMAIN un : rn[k] = un[j]
      BY <1>3, <3>2, <3>8
    <3>13. M \in Nat /\ L <= M /\ L + 1 \in DOMAIN rs
      BY <1>3, <3>1
    <3> QED
      BY <3>1, <3>3, <3>4, <3>6, <3>9, <3>11, <3>12, <3>13
  <2>2. CASE ~ \A k \in DOMAIN ss : ss[k] # u
    <3>1. rs = ss /\ rn = un /\ M = L
      BY <1>1, <1>6, <2>2
    <3> QED
      BY <1>2, <1>3, <2>2, <3>1
  <2> QED
    BY <2>1, <2>2
<1>9. m \in 0 .. M - 1
  <2>1. PICK k : k = CHOOSE j \in DOMAIN rs : rs[j] = u
    OBVIOUS
  <2>2. k \in DOMAIN rs /\ m = k - 1
    BY <1>6, <1>8, <2>1 DEF NumberOf
  <2>3. DOMAIN rs = 1 .. M
    BY <1>6, <1>8
  <2> QED
    BY <1>8, <2>2, <2>3
<1>10. PICK e : e = Edge(t, gc, act, m)
  OBVIOUS
<1>11. /\ e \in Jumps(M) /\ e.from = t /\ e.gc = gc
       /\ Jumps(L) \subseteq Jumps(M) /\ t \in 0 .. M - 1
  <2>1. 0 .. L - 1 \subseteq 0 .. M - 1
    BY <1>3, <1>8
  <2> QED
    BY <1>2, <1>5, <1>9, <1>10, <2>1 DEF Edge, Jumps
<1>12. PICK J : J = js \cup {e}
  OBVIOUS
<1>13. J \subseteq Jumps(M)
  BY <1>2, <1>11, <1>12
<1>14. \A f, g \in J : f.from = g.from /\ f.gc = g.gc => f = g
  <2>1. \A f \in js : f.from = t => f.gc # gc
    BY <1>2
  <2> QED
    BY <1>2, <1>11, <1>12, <2>1
<1>15. \A f \in js : f.from \in 0 .. L - 1
  BY <1>2 DEF Jumps
<1>16. \A k \in DOMAIN rn : rn[k] # t
  <2>1. t # L
    BY <1>2, <1>3
  <2> QED
    BY <1>2, <1>8, <2>1
<1>17. \A f \in J : \A k \in DOMAIN rn : f.from # rn[k]
  <2>1. ASSUME NEW f \in js, NEW k \in DOMAIN rn PROVE f.from # rn[k]
    <3>1. f.from # L
      BY <1>3, <1>15
    <3> QED
      BY <1>2, <1>8, <3>1
  <2> QED
    BY <1>11, <1>12, <1>16, <2>1
<1>18. \A f \in J : f.from = t => f.gc \in done \cup {gc}
  BY <1>2, <1>11, <1>12
<1>19. PICK r : r = [sets |-> rs, unmarked |-> rn, jumps |-> J]
  OBVIOUS
<1>20. r.sets = rs /\ r.unmarked = rn /\ r.jumps = J /\ M = Len(rs)
  BY <1>6, <1>19
<1>21. Sound(r, n)
  BY <1>8, <1>13, <1>14, <1>17, <1>20 DEF Sound
<1>22. Processed(r, n, t, done \cup {gc})
  BY <1>11, <1>16, <1>18, <1>20, <1>21 DEF Processed
<1> QED
  BY <1>7, <1>10, <1>12, <1>19, <1>22

(* The values of the turns of one unmarked state.                          *)
Accs(n) ==
  [sets : Seq(SUBSET (0 .. n)), unmarked : Seq(Nat),
   jumps : SUBSET [from : Nat, gc : Gen_chars, act : Nat, to : Nat]]
Under(n, t, done) == {acc \in Accs(n) : Processed(acc, n, t, done)}

LEMMA ProcessedIn ==
  ASSUME NEW n, NEW t, NEW done, NEW ss, NEW un, NEW js, NEW acc,
         acc = [sets |-> ss, unmarked |-> un, jumps |-> js],
         Processed(acc, n, t, done)
  PROVE  acc \in Under(n, t, done)
<1>1. /\ ss \in Seq(SUBSET (0 .. n)) /\ un \in Seq(0 .. Len(ss) - 1)
      /\ js \subseteq Jumps(Len(ss))
  BY DEF Processed, Sound
<1>2. 0 .. Len(ss) - 1 \subseteq Nat
  OBVIOUS
<1>3. PICK S : S = 0 .. Len(ss) - 1
  OBVIOUS
<1>4. un \in Seq(Nat)
  BY <1>1, <1>2, <1>3
<1>5. js \subseteq [from : Nat, gc : Gen_chars, act : Nat, to : Nat]
  BY <1>1, <1>2 DEF Jumps
<1> QED
  BY <1>1, <1>4, <1>5 DEF Under, Accs

Tried(gcs, k) == {gcs[i] : i \in 1 .. k}
IsTurn(f, begin, a, t, gcs) ==
  f = [k \in 0 .. Len(gcs) |-> IF k = 0 THEN begin
                               ELSE AddJump(f[k - 1], a, t, gcs[k])]

(* All the jumps of the state t, by different characters.                  *)
LEMMA TurnsProcessed ==
  ASSUME NEW n \in Nat, NEW a, Spans(a, 0), n = a.final_state,
         NEW t, NEW gcs \in Seq(Gen_chars), Distinct(gcs),
         NEW s, s \in Under(n, t, {})
  PROVE  /\ \E f : IsTurn(f, s, a, t, gcs)
         /\ \A f : IsTurn(f, s, a, t, gcs) =>
              f[Len(gcs)] \in Under(n, t, Tried(gcs, Len(gcs)))
<1>1. PICK l, X, G :
        /\ l = Len(gcs)
        /\ X = [k \in 0 .. l |-> Under(n, t, Tried(gcs, k))]
        /\ G = [k \in 1 .. l |-> [acc \in Accs(n) |->
                                    AddJump(acc, a, t, gcs[k])]]
  OBVIOUS
<1>2. /\ l \in Nat /\ 0 \in 0 .. l /\ l \in 0 .. l /\ DOMAIN gcs = 1 .. l
      /\ 0 \in Nat
  BY <1>1
<1>3. s \in X[0]
  <2>1. Tried(gcs, 0) = {}
    BY DEF Tried
  <2> QED
    BY <1>1, <1>2, <2>1
<1>4. ASSUME NEW k \in 1 .. l, NEW acc \in Under(n, t, Tried(gcs, k - 1))
      PROVE  AddJump(acc, a, t, gcs[k]) \in Under(n, t, Tried(gcs, k))
  <2>1. gcs[k] \in Gen_chars /\ gcs[k] \notin Tried(gcs, k - 1)
    <3>1. \A i \in 1 .. k - 1 : i \in 1 .. l /\ i # k
      BY <1>2
    <3> QED
      BY <1>2, <3>1 DEF Tried, Distinct
  <2>2. Tried(gcs, k) = Tried(gcs, k - 1) \cup {gcs[k]}
    <3>1. \A i : i \in 1 .. k <=> i \in 1 .. k - 1 \/ i = k
      BY <1>2
    <3> QED
      BY <3>1 DEF Tried
  <2>3. Processed(acc, n, t, Tried(gcs, k - 1))
    BY DEF Under
  <2>4. Processed(AddJump(acc, a, t, gcs[k]), n, t,
                  Tried(gcs, k - 1) \cup {gcs[k]})
    BY <2>1, <2>3, JumpAdded
  <2>5. \E ss, un, js : AddJump(acc, a, t, gcs[k]) =
          [sets |-> ss, unmarked |-> un, jumps |-> js]
    BY Zenon DEF AddJump
  <2> QED
    BY <2>2, <2>4, <2>5, ProcessedIn
<1>5. \A k \in 1 .. l : \A acc \in Accs(n) :
        G[k][acc] = AddJump(acc, a, t, gcs[k])
  BY <1>1
<1>6. \A k \in 0 .. l : X[k] = Under(n, t, Tried(gcs, k))
  BY <1>1
<1>7. \A k \in 0 + 1 .. l : k \in 1 .. l /\ k - 1 \in 0 .. l /\ k \in 0 .. l
  BY <1>2
<1>8. \A k : Under(n, t, Tried(gcs, k)) \subseteq Accs(n)
  BY DEF Under
<1>9. \A k \in 0 + 1 .. l : \A x \in X[k - 1] : G[k][x] \in X[k]
  BY <1>4, <1>5, <1>6, <1>7, <1>8
<1>10. PICK f : Steps(f, G, s, 0, l) /\ \A k \in 0 .. l : f[k] \in X[k]
  BY <1>2, <1>3, <1>9, StepsExist
<1>11. ASSUME NEW k \in 0 .. l
       PROVE  f[k] = IF k = 0 THEN s ELSE AddJump(f[k - 1], a, t, gcs[k])
  <2>1. f[k] = IF k = 0 THEN s ELSE G[k][f[k - 1]]
    BY <1>10 DEF Steps
  <2>2. k # 0 => k \in 0 + 1 .. l
    BY <1>2
  <2>3. k # 0 => f[k - 1] \in Accs(n)
    BY <1>6, <1>7, <1>8, <1>10, <2>2
  <2>4. k # 0 => G[k][f[k - 1]] = AddJump(f[k - 1], a, t, gcs[k])
    BY <1>5, <1>7, <2>2, <2>3
  <2> QED
    BY <2>1, <2>4
<1>12. f = [k \in 0 .. l |-> f[k]]
  BY <1>10 DEF Steps
<1>13. IsTurn(f, s, a, t, gcs)
  BY <1>1, <1>11, <1>12 DEF IsTurn
<1>14. ASSUME NEW g, IsTurn(g, s, a, t, gcs)
       PROVE  g[l] \in Under(n, t, Tried(gcs, l))
  <2>1. \A k \in 0 .. l :
          g[k] = IF k = 0 THEN s ELSE AddJump(g[k - 1], a, t, gcs[k])
    BY <1>1, <1>14 DEF IsTurn
  <2>2. ASSUME NEW k \in 0 .. l, \A j \in 0 .. k - 1 : g[j] \in X[j]
        PROVE  g[k] \in X[k]
    <3>1. k # 0 => k - 1 \in 0 .. k - 1 /\ k - 1 \in 0 .. l /\ k \in 1 .. l
      BY <1>2
    <3>2. k # 0 => g[k - 1] \in Under(n, t, Tried(gcs, k - 1))
      BY <1>6, <2>2, <3>1
    <3>3. k # 0 => AddJump(g[k - 1], a, t, gcs[k])
                     \in Under(n, t, Tried(gcs, k))
      BY <1>4, <3>1, <3>2
    <3>4. k = 0 => g[k] \in X[k]
      BY <1>3, <2>1
    <3>5. k # 0 => g[k] \in X[k]
      BY <1>6, <2>1, <3>3
    <3> QED
      BY <3>4, <3>5
  <2>3. \A k \in 0 .. l : g[k] \in X[k]
    BY <1>2, <2>2, RecursionTyped
  <2> QED
    BY <1>2, <1>6, <2>3
<1> QED
  BY <1>1, <1>13, <1>14

-----------------------------------------------------------------------------
(* The variables of the construction.                                      *)
Built == [sets |-> sets, unmarked |-> unmarked, jumps |-> jumps]

LEMMA ConvertSound ==
  ASSUME Spans(ndfa, 0), Sound(Built, ndfa.final_state), convert_NDFA_to_DFA
  PROVE  Sound(Built', ndfa.final_state)
<1>1. PICK n, t, gcs, s :
        /\ n = ndfa.final_state /\ t = Last(unmarked)
        /\ gcs = InOrder(jump_chars_set(ndfa.edges, sets[t + 1]))
        /\ s = [sets |-> sets, unmarked |-> Front(unmarked), jumps |-> jumps]
  OBVIOUS
<1>2. n \in Nat /\ ndfa.edges \subseteq EdgesIn(0, n)
  BY <1>1, SpansHas
<1>3. gcs \in Seq(Gen_chars) /\ Distinct(gcs)
  <2>1. PICK S : S = jump_chars_set(ndfa.edges, sets[t + 1])
    OBVIOUS
  <2>2. S \subseteq Gen_chars
    BY <1>2, <2>1 DEF jump_chars_set, EdgesIn, Symbols
  <2>3. S \subseteq Nat /\ IsFiniteSet(S)
    BY <2>2, CharsFinite, FS_Subset
  <2>4. /\ Cardinality(S) \in Nat
        /\ gcs \in Seq(S) /\ Len(gcs) = Cardinality(S)
        /\ \A i, j \in 1 .. Cardinality(S) : gcs[i] = gcs[j] => i = j
    BY <1>1, <2>1, <2>3, InOrderIs
  <2>5. DOMAIN gcs = 1 .. Cardinality(S)
    BY <2>4
  <2> QED
    BY <2>2, <2>4, <2>5 DEF Distinct
<1>4. unmarked # <<>>
  BY DEF convert_NDFA_to_DFA
<1>5. /\ sets \in Seq(SUBSET (0 .. n)) /\ Distinct(sets)
      /\ unmarked \in Seq(0 .. Len(sets) - 1) /\ Distinct(unmarked)
      /\ jumps \subseteq Jumps(Len(sets))
      /\ \A e, f \in jumps : e.from = f.from /\ e.gc = f.gc => e = f
      /\ \A e \in jumps : \A k \in DOMAIN unmarked : e.from # unmarked[k]
  BY <1>1 DEF Sound, Built
<1>6. /\ Front(unmarked) \in Seq(0 .. Len(sets) - 1)
      /\ Distinct(Front(unmarked)) /\ t \in 0 .. Len(sets) - 1
      /\ \A k \in DOMAIN Front(unmarked) : Front(unmarked)[k] # t
      /\ \A k \in DOMAIN Front(unmarked) :
           k \in DOMAIN unmarked /\ Front(unmarked)[k] = unmarked[k]
      /\ Len(unmarked) \in DOMAIN unmarked /\ t = unmarked[Len(unmarked)]
  <2>1. PICK S : S = 0 .. Len(sets) - 1
    OBVIOUS
  <2>2. unmarked \in Seq(S)
    BY <1>5, <2>1
  <2> QED
    BY <1>1, <1>4, <1>5, <2>1, <2>2, DistinctFront
<1>7. Processed(s, n, t, {})
  <2>1. s.sets = sets /\ s.unmarked = Front(unmarked) /\ s.jumps = jumps
    BY <1>1
  <2>2. Sound(s, n)
    BY <1>5, <1>6, <2>1 DEF Sound
  <2>3. \A e \in jumps : e.from # t
    BY <1>5, <1>6
  <2> QED
    BY <1>6, <2>1, <2>2, <2>3 DEF Processed
<1>8. s \in Under(n, t, {})
  BY <1>1, <1>7, ProcessedIn
<1>9. PICK f : f = CHOOSE g : IsTurn(g, s, ndfa, t, gcs)
  OBVIOUS
<1>10. IsTurn(f, s, ndfa, t, gcs)
  BY <1>1, <1>2, <1>3, <1>8, <1>9, TurnsProcessed
<1>11. f[Len(gcs)] \in Under(n, t, Tried(gcs, Len(gcs)))
  BY <1>1, <1>2, <1>3, <1>8, <1>10, TurnsProcessed
<1>12. /\ sets' = f[Len(gcs)].sets /\ unmarked' = f[Len(gcs)].unmarked
       /\ jumps' = f[Len(gcs)].jumps
  BY <1>1, <1>9, Zenon DEF convert_NDFA_to_DFA, IsTurn
<1>13. Sound(f[Len(gcs)], n)
  BY <1>11 DEF Under, Processed
<1> QED
  BY <1>1, <1>12, <1>13 DEF Sound, Built

LEMMA CountedOnce ==
  ASSUME NEW S, NEW s \in Seq(S), Distinct(s)
  PROVE  Cardinality(Range(s)) = Len(s)
<1>1. Len(s) \in Nat /\ DOMAIN s = 1 .. Len(s)
  OBVIOUS
<1>2. Range(s) = {s[i] : i \in 1 .. Len(s)}
  BY <1>1 DEF Range
<1>3. s = [i \in 1 .. Len(s) |-> s[i]]
  BY <1>1
<1>4. s \in [1 .. Len(s) -> Range(s)]
  BY <1>2, <1>3
<1>5. s \in Injection(1 .. Len(s), Range(s))
  BY <1>1, <1>4 DEF Injection, IsInjective, Distinct
<1>6. s \in Surjection(1 .. Len(s), Range(s))
  BY <1>2, <1>4 DEF Surjection
<1>7. ExistsBijection(1 .. Len(s), Range(s))
  BY <1>5, <1>6 DEF ExistsBijection, Bijection
<1> QED
  BY <1>1, <1>7, FS_CountingElements

DfaInv ==
  /\ stage \in {"text", "rejected", "subset", "refine", "minimal", "done"}
  /\ stage \in {"text", "rejected"}
       => sets = <<>> /\ unmarked = <<>> /\ jumps = {}
  /\ stage \notin {"text", "rejected"}
       => Spans(ndfa, 0) /\ Sound(Built, ndfa.final_state)

LEMMA BuildSound ==
  ASSUME DfaInv, stage = "text", NEW b, Complete(b), b # <<>>,
         NEW opt, build_automaton(b, opt)
  PROVE  DfaInv'
<1>1. PICK c : c = IF opt THEN fuse_unwrapped_commands(b) ELSE b
  OBVIOUS
<1>2. Complete(c) /\ c # <<>>
  <2>1. CASE opt
    BY <1>1, <2>1, FuseComplete
  <2>2. CASE ~opt
    BY <1>1, <2>2
  <2> QED
    BY <2>1, <2>2
<1>3. /\ ndfa' = build_NDFA(c) /\ unmarked' = <<0>> /\ jumps' = {}
      /\ stage' = "subset"
      /\ sets' = <<epsilon_closure(ndfa', {ndfa'.begin_state})>>
  BY <1>1 DEF build_automaton, DfaInv
<1>4. PICK a, n, u : /\ a = ndfa' /\ n = a.final_state
                     /\ u = epsilon_closure(a, {a.begin_state})
  OBVIOUS
<1>5. Spans(a, 0)
  BY <1>2, <1>3, <1>4, BuildSpans
<1>6. /\ n \in Nat /\ a.begin_state = 0
      /\ \A e \in a.edges : e.to \in 0 .. n
  <2>1. /\ n \in Nat /\ a.begin_state = 0
        /\ a.edges \subseteq EdgesIn(0, n)
    BY <1>4, <1>5, SpansHas
  <2> QED
    BY <2>1 DEF EdgesIn
<1>7. u \subseteq 0 .. n
  <2>1. {a.begin_state} \subseteq 0 .. n
    BY <1>6
  <2> QED
    BY <1>4, <1>6, <2>1, ClosureIs
<1>8. PICK r : r = Built'
  OBVIOUS
<1>9. r.sets = <<u>> /\ r.unmarked = <<0>> /\ r.jumps = {}
  BY <1>3, <1>4, <1>8 DEF Built
<1>10. Sound(r, n)
  <2>1. <<u>> \in Seq(SUBSET (0 .. n)) /\ Distinct(<<u>>) /\ Len(<<u>>) = 1
    BY <1>7 DEF Distinct
  <2>2. <<0>> \in Seq(0 .. 0) /\ Distinct(<<0>>) /\ 1 - 1 = 0
    BY DEF Distinct
  <2> QED
    BY <1>9, <2>1, <2>2 DEF Sound
<1> QED
  BY <1>3, <1>4, <1>5, <1>8, <1>10 DEF DfaInv

LEMMA BuiltKept ==
  ASSUME UNCHANGED <<sets, unmarked, jumps>>
  PROVE  Built' = Built
BY DEF Built

LEMMA DfaStep ==
  ASSUME DfaInv, DfaNext PROVE DfaInv'
<1>1. CASE convert_NDFA_to_DFA
  <2>1. stage = "subset" /\ stage' = "subset" /\ ndfa' = ndfa
    BY <1>1 DEF convert_NDFA_to_DFA
  <2>2. Spans(ndfa, 0) /\ Sound(Built, ndfa.final_state)
    BY <2>1 DEF DfaInv
  <2>3. Sound(Built', ndfa.final_state)
    BY <1>1, <2>2, ConvertSound
  <2> QED
    BY <2>1, <2>2, <2>3 DEF DfaInv
<1>2. CASE ~convert_NDFA_to_DFA
  <2>1. /\ UNCHANGED <<ndfa, sets, unmarked, jumps>>
        /\ stage \in {"subset", "refine", "minimal"}
        /\ stage' \in {"refine", "minimal", "done"}
    BY <1>2 DEF DfaNext, begin_minimization, end_minimization,
                split_states_into_equivalence_classes, group_jumps
  <2>2. Built' = Built
    BY <2>1, BuiltKept
  <2> QED
    BY <2>1, <2>2 DEF DfaInv
<1> QED
  BY <1>1, <1>2

LEMMA DfaKept ==
  ASSUME DfaInv, UNCHANGED <<stage, ndfa, sets, unmarked, jumps>>
  PROVE  DfaInv'
<1>1. Built' = Built
  BY BuiltKept
<1> QED
  BY <1>1 DEF DfaInv

LEMMA DfaTyped ==
  ASSUME DfaInv
  PROVE  /\ stage \in {"text", "rejected", "subset", "refine", "minimal", "done"}
         /\ sets \in Seq(SUBSET (0 .. ndfa.final_state))
         /\ Cardinality(Range(sets)) = Len(sets)
         /\ unmarked \in Seq(0 .. Len(sets) - 1)
         /\ jumps \subseteq [from : 0 .. Len(sets) - 1, gc : Gen_chars, act : Nat,
                             to : 0 .. Len(sets) - 1]
         /\ \A e, f \in jumps : e.from = f.from /\ e.gc = f.gc => e = f
<1>1. CASE stage \in {"text", "rejected"}
  <2>1. sets = <<>> /\ unmarked = <<>> /\ jumps = {}
    BY <1>1 DEF DfaInv
  <2>2. \A S : <<>> \in Seq(S)
    OBVIOUS
  <2>3. Distinct(<<>>) /\ <<>> \in Seq({})
    BY DEF Distinct
  <2>4. Cardinality(Range(sets)) = Len(sets)
    BY <2>1, <2>3, CountedOnce
  <2> QED
    BY <2>1, <2>2, <2>4 DEF DfaInv
<1>2. CASE stage \notin {"text", "rejected"}
  <2>1. /\ sets \in Seq(SUBSET (0 .. ndfa.final_state)) /\ Distinct(sets)
        /\ unmarked \in Seq(0 .. Len(sets) - 1)
        /\ jumps \subseteq Jumps(Len(sets))
        /\ \A e, f \in jumps : e.from = f.from /\ e.gc = f.gc => e = f
    BY <1>2 DEF DfaInv, Sound, Built
  <2>2. Cardinality(Range(sets)) = Len(sets)
    BY <2>1, CountedOnce
  <2> QED
    BY <2>1, <2>2 DEF DfaInv, Jumps
<1> QED
  BY <1>1, <1>2

-----------------------------------------------------------------------------
(* All of it: the texts, the buffers, the operands and the construction.   *)
TypeInv ==
  /\ ApartInv
  /\ task # "expression" => RawInv
  /\ task = "expression" => part = "parsed" /\ ExprInv
  /\ DfaInv

LEMMA InitTyped ==
  ASSUME Init PROVE TypeInv
<1>1. ApartInv
  BY InitApart
<1>2. stage = "text" /\ sets = <<>> /\ unmarked = <<>> /\ jumps = {}
      /\ buf = <<>> /\ operands = <<>> /\ SrpInit
  BY DEF Init, DfaInit
<1>3. DfaInv
  BY <1>2 DEF DfaInv
<1>4. task = IF part = "parsed" THEN "expression" ELSE "identifiers"
  BY DEF Init
<1>5. task # "expression" => RawInv
  <2>1. task # "expression" => part = "id_begin"
    BY <1>2, <1>4 DEF SrpInit
  <2> QED
    BY <1>2, <2>1, RawInit
<1>6. ExprInv
  BY <1>2, ExprInit
<1>7. task = "expression" => part = "parsed"
  BY <1>4
<1> QED
  BY <1>1, <1>3, <1>5, <1>6, <1>7 DEF TypeInv

LEMMA TypedKept ==
  ASSUME TypeInv, ApartInv', UNCHANGED <<srpVars, task, buf, operands>>
  PROVE  /\ task' # "expression" => RawInv'
         /\ task' = "expression" => part' = "parsed" /\ ExprInv'
<1>1. task' = task /\ part' = part
  BY DEF srpVars
<1> QED
  BY <1>1, RawKept, ExprKept DEF TypeInv

LEMMA GenerateTyped ==
  ASSUME TypeInv, ApartInv', generate_idents PROVE TypeInv'
<1>1. /\ task = "identifiers" /\ part = "parsed" /\ ~failed /\ stage = "text"
      /\ UNCHANGED srpVars
  BY DEF generate_idents
<1>2. PICK kws, joined, b :
        /\ kws \in KeywordLists /\ joined \in BOOLEAN
        /\ task' = IF joined THEN "idkeywords" ELSE "identifiers"
        /\ b = IF joined THEN regexp1_or_regexp2(ident_commands,
                                                 u32strings_to_commands(kws))
               ELSE ident_commands
        /\ build_automaton(WithAction(b, WriteAction), TRUE)
  <2>1. PICK kws \in KeywordLists :
          LET joined == Meets(keyword_begin(kws), first_chars(bufs["id_begin"]))
          IN /\ task' = IF joined THEN "idkeywords" ELSE "identifiers"
             /\ build_automaton(
                  WithAction(IF joined
                             THEN regexp1_or_regexp2(ident_commands,
                                                     u32strings_to_commands(kws))
                             ELSE ident_commands, WriteAction), TRUE)
    BY DEF generate_idents
  <2>2. CASE Meets(keyword_begin(kws), first_chars(bufs["id_begin"]))
    <3>1. PICK b : b = regexp1_or_regexp2(ident_commands,
                                          u32strings_to_commands(kws))
      OBVIOUS
    <3>2. task' = "idkeywords"
          /\ build_automaton(WithAction(b, WriteAction), TRUE)
      BY <2>1, <2>2, <3>1
    <3> QED
      BY <3>1, <3>2
  <2>3. CASE ~Meets(keyword_begin(kws), first_chars(bufs["id_begin"]))
    <3>1. PICK b : b = ident_commands
      OBVIOUS
    <3>2. task' = "identifiers"
          /\ build_automaton(WithAction(b, WriteAction), TRUE)
      BY <2>1, <2>3, <3>1
    <3> QED
      BY <3>1, <3>2
  <2> QED
    BY <2>2, <2>3
<1>3. RawInv /\ RawInv'
  BY <1>1, RawKept DEF TypeInv
<1>4. Complete(ident_commands) /\ ident_commands # <<>>
  BY <1>1, <1>3, IdentComplete
<1>5. Complete(b) /\ b # <<>>
  <2>1. kws \in Seq(Seq(Chars) \ {<<>>})
    BY <1>2, AutomataAssumption
  <2>2. Complete(u32strings_to_commands(kws))
    BY <2>1, StringsComplete
  <2>3. CASE joined
    BY <1>2, <1>4, <2>2, <2>3, OrComplete
  <2>4. CASE ~joined
    BY <1>2, <1>4, <2>4
  <2> QED
    BY <2>3, <2>4
<1>6. PICK c : c = WithAction(b, WriteAction)
  OBVIOUS
<1>7. Complete(c) /\ c # <<>>
  <2>1. WriteAction \in Nat
    BY AutomataAssumption
  <2> QED
    BY <1>5, <1>6, <2>1, ActionComplete
<1>8. build_automaton(c, TRUE)
  BY <1>2, <1>6
<1>9. DfaInv'
  BY <1>1, <1>7, <1>8, BuildSound DEF TypeInv
<1> QED
  BY <1>2, <1>3, <1>9 DEF TypeInv

LEMMA ExpressionTyped ==
  ASSUME TypeInv, ApartInv',
         H_is_d \/ T_is_TbE \/ E_is_EF \/ F_is_Gc \/ G_is_Ha
  PROVE  TypeInv'
<1>1. task = "expression" /\ UNCHANGED <<srpVars, dfaVars, task>>
  BY DEF H_is_d, T_is_TbE, E_is_EF, binary, F_is_Gc, Reduce, G_is_Ha
<1>2. ExprInv /\ part = "parsed"
  BY <1>1 DEF TypeInv
<1>3. ExprInv'
  <2>1. T_is_TbE => ExprInv'
    BY <1>2, ExprBinary DEF T_is_TbE, Binary
  <2>2. E_is_EF => ExprInv'
    BY <1>2, ExprBinary DEF E_is_EF, Binary
  <2> QED
    BY <1>2, <2>1, <2>2, ExprH, ExprUnary, ExprAction
<1>4. DfaInv'
  BY <1>1, DfaKept DEF TypeInv, dfaVars
<1> QED
  BY <1>1, <1>2, <1>3, <1>4 DEF TypeInv, srpVars

LEMMA StepTyped ==
  ASSUME TypeInv, Next PROVE TypeInv'
<1>1. ApartInv /\ ApartInv'
  BY StepApart DEF TypeInv
<1>2. CASE read_idents
  <2>1. /\ task = "identifiers" /\ task' = task /\ SrpNext
        /\ UNCHANGED <<stage, ndfa, sets, unmarked, jumps>>
    BY <1>2 DEF read_idents, dfaVars
  <2>2. SrpInv /\ BufInv /\ RawInv
    BY <1>1, <2>1 DEF ApartInv, IInv, TypeInv
  <2>3. RawInv'
    BY <2>1, <2>2, RawBeginExpr, RawBeginConcat, RawConcat, RawRunOut
       DEF SrpNext
  <2>4. DfaInv'
    BY <2>1, DfaKept DEF TypeInv
  <2> QED
    BY <1>1, <2>1, <2>3, <2>4 DEF TypeInv
<1>3. CASE reject
  <2>1. /\ UNCHANGED <<srpVars, task, buf, operands, ndfa, sets, unmarked, jumps>>
        /\ stage = "text" /\ stage' = "rejected"
    BY <1>3 DEF reject
  <2>2. DfaInv'
    BY <2>1 DEF TypeInv, DfaInv
  <2> QED
    BY <1>1, <2>1, <2>2, TypedKept DEF TypeInv
<1>4. CASE generate_idents
  BY <1>1, <1>4, GenerateTyped
<1>5. CASE H_is_d \/ T_is_TbE \/ E_is_EF \/ F_is_Gc \/ G_is_Ha
  BY <1>1, <1>5, ExpressionTyped
<1>6. CASE generate_expression
  <2>1. /\ stage = "text" /\ task = "expression" /\ Len(operands) = 1
        /\ build_automaton(unwrap_commands(buf), FALSE)
        /\ UNCHANGED <<srpVars, task, buf, operands>>
    BY <1>6 DEF generate_expression
  <2>2. PICK b : b = unwrap_commands(buf)
    OBVIOUS
  <2>3. Complete(b) /\ b # <<>>
    BY <2>1, <2>2, ExprComplete DEF TypeInv
  <2>4. build_automaton(b, FALSE)
    BY <2>1, <2>2
  <2>5. DfaInv'
    BY <2>1, <2>3, <2>4, BuildSound DEF TypeInv
  <2> QED
    BY <1>1, <2>1, <2>5, TypedKept DEF TypeInv
<1>7. CASE Build
  <2>1. DfaNext /\ UNCHANGED <<srpVars, task, buf, operands>>
    BY <1>7 DEF Build
  <2>2. DfaInv'
    BY <2>1, DfaStep DEF TypeInv
  <2> QED
    BY <1>1, <2>1, <2>2, TypedKept DEF TypeInv
<1> QED
  BY <1>2, <1>3, <1>4, <1>5, <1>6, <1>7 DEF Next

LEMMA TypedStutter ==
  ASSUME TypeInv, UNCHANGED vars
  PROVE  TypeInv'
<1>1. /\ UNCHANGED <<srpVars, task, buf, operands, keywords>>
      /\ UNCHANGED <<stage, ndfa, sets, unmarked, jumps>>
      /\ texts' = texts
  BY DEF vars, dfaVars, srpVars
<1>2. ApartInv'
  BY <1>1, SrpKept, BufKept DEF TypeInv, ApartInv, IInv, Unlike
<1>3. DfaInv'
  BY <1>1, DfaKept DEF TypeInv
<1> QED
  BY <1>1, <1>2, <1>3, TypedKept DEF TypeInv

(* Every buffer that is built of the texts or of the rules of an expression *)
(* is complete, every automaton built of it has its edges between its own   *)
(* states, and the subset construction keeps to its types: its sets are     *)
(* different sets of states, the unmarked ones are among them, and no state *)
(* ever has two jumps by one character (Commands, Ndfa, convert_NDFA_to_DFA). *)
THEOREM TypeCorrect == Spec => []TypeOK
<1>1. TypeInv /\ UNCHANGED vars => TypeInv'
  BY TypedStutter
<1>2. TypeInv => TypeOK
  <2> SUFFICES ASSUME TypeInv PROVE TypeOK
    OBVIOUS
  <2>1. part \in Parts \cup {"parsed"}
    BY DEF TypeInv, ApartInv, IInv, SrpInv
  <2>2. DfaInv
    BY DEF TypeInv
  <2> QED
    BY <2>1, <2>2, DfaTyped DEF TypeOK
<1> QED
  BY <1>1, <1>2, InitTyped, StepTyped, PTL DEF Spec

-----------------------------------------------------------------------------
(* The language of an automaton, without counting: the words accepted from *)
(* a state are those in every family of sets of words, one of every state, *)
(* that has the empty word in the last states and is closed under the      *)
(* edges, taken backwards.  An automaton is understood by giving such a    *)
(* family (LangLeast), or by following its edges in another (LangMapped).  *)

Strings  == Seq(Gen_chars)
AllEdges == [from : Nat, gc : Symbols, act : Nat, to : Nat]
Families == [Nat -> SUBSET Strings]

Prefixed(gc, w) == IF gc = Epsilon THEN w ELSE <<gc>> \o w

Follows(E, F, L) ==
  /\ \A f \in F : <<>> \in L[f]
  /\ \A e \in E : \A w \in L[e.to] : Prefixed(e.gc, w) \in L[e.from]

Lang(E, F, s) ==
  {w \in Strings : \A L \in Families : Follows(E, F, L) => w \in L[s]}

LEMMA PrefixedIs ==
  ASSUME NEW gc \in Symbols, NEW w \in Strings
  PROVE  /\ Prefixed(gc, w) \in Strings
         /\ \A v \in Strings : Prefixed(gc, w \o v) = Prefixed(gc, w) \o v
<1>1. CASE gc = Epsilon
  BY <1>1 DEF Prefixed
<1>2. CASE gc # Epsilon
  <2>1. gc \in Gen_chars
    BY <1>2 DEF Symbols
  <2>2. /\ <<gc>> \o w \in Seq(Gen_chars)
        /\ \A v \in Seq(Gen_chars) : <<gc>> \o (w \o v) = (<<gc>> \o w) \o v
    BY <2>1 DEF Strings
  <2> QED
    BY <1>2, <2>2 DEF Prefixed, Strings
<1> QED
  BY <1>1, <1>2

LEMMA LangLeast ==
  ASSUME NEW E, NEW F, NEW L \in Families, Follows(E, F, L), NEW s
  PROVE  Lang(E, F, s) \subseteq L[s]
BY DEF Lang

LEMMA LangIs ==
  ASSUME NEW E, E \subseteq AllEdges, NEW F
  PROVE  /\ \A s : Lang(E, F, s) \subseteq Strings
         /\ \A f \in F : <<>> \in Lang(E, F, f)
         /\ \A e \in E : \A w \in Lang(E, F, e.to) :
              Prefixed(e.gc, w) \in Lang(E, F, e.from)
<1>1. \A s : Lang(E, F, s) \subseteq Strings
  BY DEF Lang
<1>2. \A f \in F : <<>> \in Lang(E, F, f)
  <2>1. <<>> \in Strings
    BY DEF Strings
  <2> QED
    BY <2>1 DEF Lang, Follows
<1>3. ASSUME NEW e \in E, NEW w \in Lang(E, F, e.to)
      PROVE  Prefixed(e.gc, w) \in Lang(E, F, e.from)
  <2>1. Prefixed(e.gc, w) \in Strings
    <3>1. e.gc \in Symbols /\ w \in Strings
      BY <1>1 DEF AllEdges
    <3> QED
      BY <3>1, PrefixedIs
  <2>2. ASSUME NEW L \in Families, Follows(E, F, L)
        PROVE  Prefixed(e.gc, w) \in L[e.from]
    <3>1. w \in L[e.to]
      BY <2>2 DEF Lang
    <3> QED
      BY <2>2, <3>1 DEF Follows
  <2> QED
    BY <2>1, <2>2 DEF Lang
<1> QED
  BY <1>1, <1>2, <1>3

LEMMA LangSilent ==
  ASSUME NEW E, E \subseteq AllEdges, NEW F, NEW e \in E, e.gc = Epsilon
  PROVE  Lang(E, F, e.to) \subseteq Lang(E, F, e.from)
BY LangIs DEF Prefixed

(* An automaton whose edges have counterparts in another, its states being *)
(* renamed: a word of it may be gone on with wherever it ends.             *)
LEMMA LangMapped ==
  ASSUME NEW D, D \subseteq AllEdges, NEW G, G \subseteq Nat,
         NEW E, E \subseteq AllEdges, NEW F,
         NEW h \in [Nat -> Nat], NEW w \in Strings,
         \A e \in D : \E f \in E : /\ f.from = h[e.from] /\ f.to = h[e.to]
                                   /\ f.gc = e.gc,
         \A f \in G : w \in Lang(E, F, h[f]),
         NEW s \in Nat
  PROVE  \A u \in Lang(D, G, s) : u \o w \in Lang(E, F, h[s])
<1>1. PICK L : L = [t \in Nat |-> {u \in Strings : u \o w \in Lang(E, F, h[t])}]
  OBVIOUS
<1>2. L \in Families
  BY <1>1 DEF Families
<1>3. \A t \in Nat : \A u : u \in L[t] <=> /\ u \in Strings
                                           /\ u \o w \in Lang(E, F, h[t])
  BY <1>1
<1>4. ASSUME NEW f \in G
      PROVE  <<>> \in L[f]
  <2>1. <<>> \o w = w /\ <<>> \in Strings
    BY DEF Strings
  <2> QED
    BY <1>3, <2>1
<1>5. ASSUME NEW e \in D, NEW u \in L[e.to]
      PROVE  Prefixed(e.gc, u) \in L[e.from]
  <2>1. e.from \in Nat /\ e.to \in Nat /\ e.gc \in Symbols
    BY DEF AllEdges
  <2>2. u \in Strings /\ u \o w \in Lang(E, F, h[e.to])
    BY <1>3, <2>1
  <2>3. PICK f \in E : f.from = h[e.from] /\ f.to = h[e.to] /\ f.gc = e.gc
    OBVIOUS
  <2>4. Prefixed(e.gc, u \o w) \in Lang(E, F, h[e.from])
    BY <2>2, <2>3, LangIs
  <2>5. /\ Prefixed(e.gc, u) \in Strings
        /\ Prefixed(e.gc, u \o w) = Prefixed(e.gc, u) \o w
    BY <2>1, <2>2, PrefixedIs
  <2> QED
    BY <1>3, <2>1, <2>4, <2>5
<1>6. Follows(D, G, L)
  BY <1>4, <1>5 DEF Follows
<1>7. Lang(D, G, s) \subseteq L[s]
  BY <1>2, <1>6, LangLeast
<1> QED
  BY <1>3, <1>7

(* The words of an automaton that is part of another.                      *)
LEMMA LangInside ==
  ASSUME NEW D, NEW E, D \subseteq E, E \subseteq AllEdges,
         NEW G, G \subseteq Nat, NEW F, NEW w \in Strings,
         \A f \in G : w \in Lang(E, F, f), NEW s \in Nat
  PROVE  \A u \in Lang(D, G, s) : u \o w \in Lang(E, F, s)
<1>1. PICK h : h = [t \in Nat |-> t]
  OBVIOUS
<1>2. h \in [Nat -> Nat] /\ \A t \in Nat : h[t] = t
  BY <1>1
<1>3. D \subseteq AllEdges
  OBVIOUS
<1>4. \A e \in D : e.from \in Nat /\ e.to \in Nat
  BY <1>3 DEF AllEdges
<1>5. \A e \in D : \E f \in E : /\ f.from = h[e.from] /\ f.to = h[e.to]
                                /\ f.gc = e.gc
  BY <1>2, <1>4
<1>6. \A f \in G : w \in Lang(E, F, h[f])
  BY <1>2
<1>7. \A u \in Lang(D, G, s) : u \o w \in Lang(E, F, h[s])
  BY <1>2, <1>3, <1>5, <1>6, LangMapped
<1> QED
  BY <1>2, <1>7

-----------------------------------------------------------------------------
(* The language of what a builder makes, of those of its operands.         *)

Accepts(a) == Lang(a.edges, {a.final_state}, a.begin_state)
Onwards(a, s) == Lang(a.edges, {a.final_state}, s)

(* No edge leaves the last state.                                          *)
Neat(a, n) == Spans(a, n) /\ \A e \in a.edges : e.from # a.final_state

Cat(X, Y) == {w \in Strings : \E u \in X : \E v \in Y : w = u \o v}

(* The words put together of words of X.                                   *)
Star(X) ==
  {w \in Strings :
     \A K \in SUBSET Strings :
       <<>> \in K /\ (\A u \in X : \A k \in K : u \o k \in K) => w \in K}

LEMMA Strung ==
  /\ <<>> \in Strings
  /\ \A u \in Strings : u \o <<>> = u /\ <<>> \o u = u
  /\ \A u, v \in Strings : u \o v \in Strings
  /\ \A u, v, w \in Strings : (u \o v) \o w = u \o (v \o w)
BY DEF Strings

LEMMA CatIs ==
  ASSUME NEW X, X \subseteq Strings, NEW Y, Y \subseteq Strings
  PROVE  /\ Cat(X, Y) \subseteq Strings
         /\ \A u \in X : \A v \in Y : u \o v \in Cat(X, Y)
         /\ \A w \in Cat(X, Y) : \E u \in X : \E v \in Y : w = u \o v
<1>1. \A u \in Strings : \A v \in Strings : u \o v \in Strings
  BY DEF Strings
<1> QED
  BY <1>1 DEF Cat

LEMMA StarIs ==
  ASSUME NEW X, X \subseteq Strings
  PROVE  /\ Star(X) \subseteq Strings /\ <<>> \in Star(X)
         /\ \A u \in X : \A k \in Star(X) : u \o k \in Star(X)
<1>1. Star(X) \subseteq Strings
  BY DEF Star
<1>2. <<>> \in Star(X)
  <2>1. <<>> \in Strings
    BY DEF Strings
  <2> QED
    BY <2>1 DEF Star
<1>3. ASSUME NEW u \in X, NEW k \in Star(X)
      PROVE  u \o k \in Star(X)
  <2>1. u \o k \in Strings
    <3>1. u \in Strings /\ k \in Strings
      BY <1>1
    <3> QED
      BY <3>1 DEF Strings
  <2>2. ASSUME NEW K \in SUBSET Strings, <<>> \in K,
               \A v \in X : \A l \in K : v \o l \in K
        PROVE  u \o k \in K
    <3>1. k \in K
      BY <2>2 DEF Star
    <3> QED
      BY <2>2, <3>1
  <2> QED
    BY <2>1, <2>2 DEF Star
<1> QED
  BY <1>1, <1>2, <1>3

LEMMA StarLeast ==
  ASSUME NEW X, NEW K \in SUBSET Strings, <<>> \in K,
         \A u \in X : \A k \in K : u \o k \in K
  PROVE  Star(X) \subseteq K
BY DEF Star

(* A word put together begins with a word of X, or is empty.               *)
LEMMA StarOpened ==
  ASSUME NEW X, X \subseteq Strings
  PROVE  Star(X) \subseteq {<<>>} \cup Cat(X, Star(X))
<1>1. PICK K : K = {<<>>} \cup Cat(X, Star(X))
  OBVIOUS
<1>2. Star(X) \subseteq Strings /\ Cat(X, Star(X)) \subseteq Strings
  BY StarIs, CatIs
<1>3. <<>> \in Strings
  BY DEF Strings
<1>4. K \in SUBSET Strings /\ <<>> \in K
  BY <1>1, <1>2, <1>3
<1>5. \A k \in K : k \in Star(X)
  <2>1. ASSUME NEW k \in Cat(X, Star(X)) PROVE k \in Star(X)
    <3>1. PICK u \in X, v \in Star(X) : k = u \o v
      BY DEF Cat
    <3> QED
      BY <3>1, StarIs
  <2>2. <<>> \in Star(X)
    BY StarIs
  <2> QED
    BY <1>1, <2>1, <2>2
<1>6. \A u \in X : \A k \in K : u \o k \in K
  BY <1>1, <1>2, <1>5, CatIs
<1> QED
  BY <1>1, <1>4, <1>6, StarLeast

(* X repeated from the left is X repeated from the right.                  *)
LEMMA StarRight ==
  ASSUME NEW X, X \subseteq Strings
  PROVE  \A k \in Star(X) : \A u \in X : k \o u \in Star(X)
<1>1. PICK K : K = {k \in Strings : \A u \in X : k \o u \in Star(X)}
  OBVIOUS
<1>2. K \in SUBSET Strings
  BY <1>1
<1>3. <<>> \in K
  <2>1. <<>> \in Strings /\ \A u \in X : u \in Strings
    BY DEF Strings
  <2>2. ASSUME NEW u \in X PROVE <<>> \o u \in Star(X)
    <3>1. <<>> \o u = u \o <<>>
      BY <2>1 DEF Strings
    <3> QED
      BY <3>1, StarIs
  <2> QED
    BY <1>1, <2>1, <2>2
<1>4. ASSUME NEW u \in X, NEW k \in K
      PROVE  u \o k \in K
  <2>1. u \in Strings /\ k \in Strings
    BY <1>1
  <2>2. u \o k \in Strings
    BY <2>1 DEF Strings
  <2>3. ASSUME NEW v \in X PROVE (u \o k) \o v \in Star(X)
    <3>1. (u \o k) \o v = u \o (k \o v)
      <4>1. v \in Strings
        OBVIOUS
      <4> QED
        BY <2>1, <4>1 DEF Strings
    <3>2. k \o v \in Star(X)
      BY <1>1
    <3> QED
      BY <3>1, <3>2, StarIs
  <2> QED
    BY <1>1, <2>2, <2>3
<1>5. Star(X) \subseteq K
  BY <1>2, <1>3, <1>4, StarLeast
<1> QED
  BY <1>1, <1>5

LEMMA StarLeastRight ==
  ASSUME NEW X, X \subseteq Strings, NEW K \in SUBSET Strings, <<>> \in K,
         \A k \in K : \A u \in X : k \o u \in K
  PROVE  Star(X) \subseteq K
<1>1. PICK M : M = {m \in Strings : \A k \in K : k \o m \in K}
  OBVIOUS
<1>2. M \in SUBSET Strings
  BY <1>1
<1>3. <<>> \in M
  <2>1. <<>> \in Strings /\ \A k \in K : k \o <<>> = k
    BY DEF Strings
  <2> QED
    BY <1>1, <2>1
<1>4. ASSUME NEW u \in X, NEW m \in M
      PROVE  u \o m \in M
  <2>1. u \in Strings /\ m \in Strings
    BY <1>1
  <2>2. u \o m \in Strings
    BY <2>1 DEF Strings
  <2>3. ASSUME NEW k \in K PROVE k \o (u \o m) \in K
    <3>1. k \o (u \o m) = (k \o u) \o m
      <4>1. k \in Strings
        OBVIOUS
      <4> QED
        BY <2>1, <4>1, Strung
    <3>2. k \o u \in K
      OBVIOUS
    <3> QED
      BY <1>1, <3>1, <3>2
  <2> QED
    BY <1>1, <2>2, <2>3
<1>5. Star(X) \subseteq M
  BY <1>2, <1>3, <1>4, StarLeast
<1> QED
  <2>1. ASSUME NEW w \in Star(X) PROVE w \in K
    <3>1. w \in Strings /\ <<>> \o w \in K
      BY <1>1, <1>5
    <3>2. <<>> \o w = w
      BY <3>1 DEF Strings
    <3> QED
      BY <3>1, <3>2
  <2> QED
    BY <2>1

LEMMA EpsilonsAre ==
  ASSUME NEW S, NEW T
  PROVE  /\ \A e \in Epsilons(S, T) : e.from \in S /\ e.to \in T /\ e.gc = Epsilon
         /\ \A f \in S : \A t \in T : \E e \in Epsilons(S, T) :
              e.from = f /\ e.to = t /\ e.gc = Epsilon
<1>1. \A f \in S : \A t \in T :
        /\ Edge(f, Epsilon, 0, t) \in Epsilons(S, T)
        /\ Edge(f, Epsilon, 0, t).from = f /\ Edge(f, Epsilon, 0, t).to = t
        /\ Edge(f, Epsilon, 0, t).gc = Epsilon
  BY DEF Epsilons, Edge
<1>2. \A e \in Epsilons(S, T) : \E f \in S : \E t \in T :
        e = Edge(f, Epsilon, 0, t)
  BY DEF Epsilons
<1>3. \A e \in Epsilons(S, T) : e.from \in S /\ e.to \in T /\ e.gc = Epsilon
  BY <1>2 DEF Edge
<1> QED
  BY <1>1, <1>3

LEMMA SpansWithin ==
  ASSUME NEW n \in Nat, NEW a, Spans(a, n)
  PROVE  /\ a.begin_state = n /\ a.final_state \in Nat /\ n < a.final_state
         /\ a.edges \subseteq AllEdges
         /\ \A e \in a.edges : /\ e.from \in n .. a.final_state
                               /\ e.to \in n .. a.final_state
                               /\ e.gc \in Symbols
         /\ \A s : Onwards(a, s) \subseteq Strings
         /\ Accepts(a) = Onwards(a, n)
         /\ <<>> \in Onwards(a, a.final_state)
         /\ \A e \in a.edges : \A w \in Onwards(a, e.to) :
              Prefixed(e.gc, w) \in Onwards(a, e.from)
<1>1. /\ a.begin_state = n /\ a.final_state \in Nat /\ n < a.final_state
      /\ a.edges \subseteq EdgesIn(n, a.final_state)
      /\ a \in AllAutomata
  BY SpansHas
<1>2. a.edges \subseteq AllEdges
  BY <1>1 DEF AllAutomata, AllEdges
<1>3. \A e \in a.edges : /\ e.from \in n .. a.final_state
                         /\ e.to \in n .. a.final_state
                         /\ e.gc \in Symbols
  BY <1>1 DEF EdgesIn
<1>4. Accepts(a) = Onwards(a, n)
  BY <1>1 DEF Accepts, Onwards
<1>5. /\ \A s : Onwards(a, s) \subseteq Strings
      /\ <<>> \in Onwards(a, a.final_state)
      /\ \A e \in a.edges : \A w \in Onwards(a, e.to) :
           Prefixed(e.gc, w) \in Onwards(a, e.from)
  BY <1>2, LangIs DEF Onwards
<1> QED
  BY <1>1, <1>2, <1>3, <1>4, <1>5

(* The words of the family L are those of the automaton of the states from *)
(* n to m and the edges E.                                                 *)
LEMMA FamilyBounds ==
  ASSUME NEW n, NEW m, NEW E, NEW L \in Families,
         <<>> \in L[m],
         \A e \in E : \A w \in L[e.to] : Prefixed(e.gc, w) \in L[e.from]
  PROVE  Accepts(Automaton(n, m, E)) \subseteq L[n]
<1>1. Accepts(Automaton(n, m, E)) = Lang(E, {m}, n)
  BY DEF Accepts, Automaton
<1>2. Follows(E, {m}, L)
  BY DEF Follows
<1> QED
  BY <1>1, <1>2, LangLeast

LEMMA AutomatonHas ==
  ASSUME NEW n \in Nat, NEW m, NEW E, NEW a, a = Automaton(n, m, E),
         Spans(a, n)
  PROVE  /\ E \subseteq AllEdges /\ a.edges = E /\ a.final_state = m
         /\ Accepts(a) = Onwards(a, n)
         /\ \A s : Onwards(a, s) \subseteq Strings
         /\ <<>> \in Onwards(a, m)
         /\ \A e \in E : \A w \in Onwards(a, e.to) :
              Prefixed(e.gc, w) \in Onwards(a, e.from)
         /\ \A e \in E : e.gc = Epsilon =>
              \A w \in Onwards(a, e.to) : w \in Onwards(a, e.from)
<1>1. a.edges = E /\ a.final_state = m
  BY DEF Automaton
<1>2. /\ E \subseteq AllEdges
      /\ Accepts(a) = Onwards(a, n)
      /\ \A s : Onwards(a, s) \subseteq Strings
      /\ <<>> \in Onwards(a, m)
      /\ \A e \in E : \A w \in Onwards(a, e.to) :
           Prefixed(e.gc, w) \in Onwards(a, e.from)
  BY <1>1, SpansWithin
<1>3. \A e \in E : e.gc = Epsilon =>
        \A w \in Onwards(a, e.to) : w \in Onwards(a, e.from)
  BY <1>2 DEF Prefixed
<1> QED
  BY <1>1, <1>2, <1>3

LEMMA AutomatonStep ==
  ASSUME NEW n \in Nat, NEW a, Spans(a, n), NEW e \in a.edges,
         NEW w \in Onwards(a, e.to)
  PROVE  Prefixed(e.gc, w) \in Onwards(a, e.from)
BY SpansWithin

(* A part of an automaton: its words may be gone on with.                  *)
LEMMA WordGoesOn ==
  ASSUME NEW a, NEW s \in Nat, NEW b,
         b.edges \subseteq AllEdges, a.edges \subseteq b.edges,
         a.final_state \in Nat, NEW w \in Onwards(b, a.final_state)
  PROVE  \A u \in Onwards(a, s) : u \o w \in Onwards(b, s)
<1>1. w \in Strings
  BY LangIs DEF Onwards
<1> QED
  BY <1>1, LangInside DEF Onwards

LEMMA LetterWord ==
  ASSUME NEW gc \in Gen_chars
  PROVE  /\ <<gc>> \in Strings /\ Prefixed(gc, <<>>) = <<gc>>
         /\ Len(<<gc>>) = 1
<1>1. gc # Epsilon
  BY CharsFinite
<1>2. <<gc>> \o <<>> = <<gc>> /\ <<gc>> \in Seq(Gen_chars) /\ Len(<<gc>>) = 1
  OBVIOUS
<1> QED
  BY <1>1, <1>2 DEF Prefixed, Strings

LEMMA CharAccepts ==
  ASSUME NEW n \in Nat, NEW gc \in Gen_chars, NEW act \in Nat,
         NEW a, a = char_def_builder(gc, act, n)
  PROVE  Neat(a, n) /\ Accepts(a) = {<<gc>>}
<1>1. PICK E, m : E = {Edge(n, gc, act, n + 1)} /\ m = n + 1
  OBVIOUS
<1>2. a = Automaton(n, m, E)
  BY <1>1 DEF char_def_builder
<1>3. Spans(a, n)
  BY CharSpans
<1>4. \A e \in E : e.from = n /\ e.to = m /\ e.gc = gc
  BY <1>1 DEF Edge
<1>5. \E e \in E : e.from = n /\ e.to = m /\ e.gc = gc
  BY <1>1 DEF Edge
<1>6. m \in Nat /\ m # n
  BY <1>1
<1>7. Neat(a, n)
  BY <1>2, <1>3, <1>4, <1>6 DEF Neat, Automaton
<1>8. PICK L : L = [s \in Nat |-> IF s = n THEN {<<gc>>} ELSE {<<>>}]
  OBVIOUS
<1>9. L \in Families /\ L[n] = {<<gc>>} /\ L[m] = {<<>>}
  BY <1>6, <1>8, LetterWord, Strung DEF Families
<1>10. Accepts(a) \subseteq {<<gc>>}
  <2>1. \A e \in E : \A w \in L[e.to] : Prefixed(e.gc, w) \in L[e.from]
    BY <1>4, <1>9, LetterWord
  <2> QED
    BY <1>2, <1>9, <2>1, FamilyBounds
<1>11. <<gc>> \in Accepts(a)
  <2>1. Accepts(a) = Onwards(a, n)
    BY <1>2, <1>3, AutomatonHas
  <2>2. <<>> \in Onwards(a, m)
    BY <1>2, <1>3, AutomatonHas
  <2>3. PICK e \in a.edges : e.from = n /\ e.to = m /\ e.gc = gc
    BY <1>2, <1>5 DEF Automaton
  <2>4. Prefixed(e.gc, <<>>) \in Onwards(a, e.from)
    BY <1>3, <2>2, <2>3, AutomatonStep
  <2> QED
    BY <2>1, <2>3, <2>4, LetterWord
<1> QED
  BY <1>7, <1>10, <1>11

(* A set in its order has all its elements.                                *)
LEMMA InOrderAll ==
  ASSUME NEW S, S \subseteq Nat, IsFiniteSet(S)
  PROVE  /\ InOrder(S) \in Seq(S) /\ Len(InOrder(S)) \in Nat
         /\ \A x \in S : \E i \in 1 .. Len(InOrder(S)) : InOrder(S)[i] = x
<1>1. /\ InOrder(S) \in Seq(S) /\ Len(InOrder(S)) = Cardinality(S)
      /\ \A i, j \in 1 .. Cardinality(S) :
           InOrder(S)[i] = InOrder(S)[j] => i = j
  BY InOrderIs
<1>2. DOMAIN InOrder(S) = 1 .. Cardinality(S)
  BY <1>1
<1>3. Distinct(InOrder(S))
  BY <1>1, <1>2 DEF Distinct
<1>4. Cardinality(Range(InOrder(S))) = Cardinality(S)
  BY <1>1, <1>3, CountedOnce
<1>5. Range(InOrder(S)) \subseteq S
  BY <1>1, <1>2 DEF Range
<1>6. Range(InOrder(S)) = S
  BY <1>4, <1>5, FS_Subset
<1> QED
  BY <1>1, <1>2, <1>6 DEF Range

(* An edge by epsilon leads from x to y.                                   *)
Silently(E, x, y) == \E e \in E : e.from = x /\ e.to = y /\ e.gc = Epsilon

LEMMA SilentlyOn ==
  ASSUME NEW n \in Nat, NEW a, Spans(a, n), NEW x, NEW y, Silently(a.edges, x, y)
  PROVE  \A w \in Onwards(a, y) : w \in Onwards(a, x)
<1>1. PICK e \in a.edges : e.from = x /\ e.to = y /\ e.gc = Epsilon
  BY DEF Silently
<1>2. ASSUME NEW w \in Onwards(a, y) PROVE w \in Onwards(a, x)
  <2>1. Prefixed(e.gc, w) \in Onwards(a, e.from)
    BY <1>1, AutomatonStep
  <2> QED
    BY <1>1, <2>1 DEF Prefixed
<1> QED
  BY <1>2

(* The edges of an operand keep the words of a family that has its own.    *)
OnEdges(E, L) == \A e \in E : \A w \in L[e.to] : Prefixed(e.gc, w) \in L[e.from]

LEMMA OwnWords ==
  ASSUME NEW n \in Nat, NEW a, Spans(a, n), NEW L,
         \A s \in n .. a.final_state : L[s] = Onwards(a, s)
  PROVE  OnEdges(a.edges, L)
<1>1. ASSUME NEW e \in a.edges, NEW w \in L[e.to]
      PROVE  Prefixed(e.gc, w) \in L[e.from]
  <2>1. e.from \in n .. a.final_state /\ e.to \in n .. a.final_state
    BY SpansWithin
  <2>2. w \in Onwards(a, e.to)
    BY <2>1
  <2> QED
    BY <2>1, <2>2, AutomatonStep
<1> QED
  BY <1>1 DEF OnEdges

(* The same when every word of the operand is gone on with words of K,     *)
(* but in its last state, where L has only what it has to.                 *)
LEMMA GoneOnWords ==
  ASSUME NEW n \in Nat, NEW a, Neat(a, n), NEW K, K \subseteq Strings, NEW L,
         \A s \in n .. a.final_state - 1 : L[s] = Cat(Onwards(a, s), K),
         \A w \in L[a.final_state] : w \in Cat(Onwards(a, a.final_state), K)
  PROVE  OnEdges(a.edges, L)
<1>1. ASSUME NEW e \in a.edges, NEW w \in L[e.to]
      PROVE  Prefixed(e.gc, w) \in L[e.from]
  <2>1. /\ Spans(a, n) /\ a.final_state \in Nat
        /\ e.from \in n .. a.final_state /\ e.to \in n .. a.final_state
        /\ e.from # a.final_state /\ e.gc \in Symbols
        /\ \A s : Onwards(a, s) \subseteq Strings
    BY SpansWithin DEF Neat
  <2>2. w \in Cat(Onwards(a, e.to), K)
    BY <2>1
  <2>3. PICK u \in Onwards(a, e.to), k \in K : w = u \o k
    BY <2>2 DEF Cat
  <2>4. Prefixed(e.gc, u) \in Onwards(a, e.from)
    BY <2>1, AutomatonStep
  <2>5. Prefixed(e.gc, w) = Prefixed(e.gc, u) \o k
    BY <2>1, <2>3, PrefixedIs
  <2>6. Prefixed(e.gc, w) \in Cat(Onwards(a, e.from), K)
    BY <2>1, <2>4, <2>5, CatIs
  <2> QED
    BY <2>1, <2>6
<1> QED
  BY <1>1 DEF OnEdges

LEMMA SilentEdges ==
  ASSUME NEW S, NEW T, NEW L, \A x \in S : \A y \in T : L[y] \subseteq L[x]
  PROVE  OnEdges(Epsilons(S, T), L)
<1>1. ASSUME NEW e \in Epsilons(S, T), NEW w \in L[e.to]
      PROVE  Prefixed(e.gc, w) \in L[e.from]
  <2>1. e.from \in S /\ e.to \in T /\ e.gc = Epsilon
    BY EpsilonsAre
  <2> QED
    BY <2>1 DEF Prefixed
<1> QED
  BY <1>1 DEF OnEdges

LEMMA EdgesTogether ==
  ASSUME NEW L, NEW D, NEW E, OnEdges(D, L), OnEdges(E, L)
  PROVE  OnEdges(D \cup E, L)
BY DEF OnEdges

LEMMA WordsWithin ==
  ASSUME NEW n, NEW m, NEW E, NEW L \in Families, <<>> \in L[m], OnEdges(E, L)
  PROVE  Accepts(Automaton(n, m, E)) \subseteq L[n]
BY FamilyBounds DEF OnEdges

LEMMA SilentlyThere ==
  ASSUME NEW S, NEW T, NEW E, Epsilons(S, T) \subseteq E, NEW x \in S, NEW y \in T
  PROVE  Silently(E, x, y)
BY EpsilonsAre DEF Silently

LEMMA OrAccepts ==
  ASSUME NEW n \in Nat, NEW a, Neat(a, n + 1),
         NEW b, Neat(b, a.final_state + 1), NEW c, c = or_builder(a, b, n)
  PROVE  Neat(c, n) /\ Accepts(c) = Accepts(a) \cup Accepts(b)
<1>1. PICK f, E, m :
        /\ f = b.final_state + 1 /\ m = n + 1
        /\ E = a.edges \cup b.edges
                \cup Epsilons({n}, {a.begin_state, b.begin_state})
                \cup Epsilons({a.final_state, b.final_state}, {f})
  OBVIOUS
<1>2. c = Automaton(n, f, E)
  BY <1>1 DEF or_builder
<1>3. c.edges = E /\ c.final_state = f /\ c.begin_state = n
  BY <1>2 DEF Automaton
<1>4. Spans(a, m) /\ m \in Nat /\ m > n
  BY <1>1 DEF Neat
<1>5. /\ a.begin_state = m /\ a.final_state \in Nat /\ m < a.final_state
      /\ \A e \in a.edges : e.from \in m .. a.final_state
      /\ a.edges \subseteq AllEdges
      /\ \A s : Onwards(a, s) \subseteq Strings
      /\ Accepts(a) = Onwards(a, m) /\ <<>> \in Onwards(a, a.final_state)
  BY <1>4, SpansWithin
<1>6. PICK k : k = a.final_state + 1
  OBVIOUS
<1>7. Spans(b, k) /\ k \in Nat
  BY <1>5, <1>6 DEF Neat
<1>8. /\ b.begin_state = k /\ b.final_state \in Nat /\ k < b.final_state
      /\ \A e \in b.edges : e.from \in k .. b.final_state
      /\ b.edges \subseteq AllEdges
      /\ \A s : Onwards(b, s) \subseteq Strings
      /\ Accepts(b) = Onwards(b, k) /\ <<>> \in Onwards(b, b.final_state)
  BY <1>7, SpansWithin
<1>9. f \in Nat /\ f > b.final_state
  BY <1>1, <1>8
<1>10. Spans(c, n)
  BY <1>1, <1>4, <1>6, <1>7, OrSpans
<1>11. Neat(c, n)
  <2>1. ASSUME NEW e \in E PROVE e.from # f
    <3>1. CASE e \in a.edges
      BY <3>1, <1>5, <1>6, <1>8, <1>9
    <3>2. CASE e \in b.edges
      BY <3>2, <1>8, <1>9
    <3>3. CASE e \in Epsilons({n}, {a.begin_state, b.begin_state})
      <4>1. e.from = n
        BY <3>3, EpsilonsAre
      <4> QED
        BY <4>1, <1>1, <1>5, <1>6, <1>8, <1>9
    <3>4. CASE e \in Epsilons({a.final_state, b.final_state}, {f})
      <4>1. e.from \in {a.final_state, b.final_state}
        BY <3>4, EpsilonsAre
      <4> QED
        BY <4>1, <1>1, <1>5, <1>6, <1>8, <1>9
    <3> QED
      BY <1>1, <3>1, <3>2, <3>3, <3>4
  <2> QED
    BY <2>1, <1>3, <1>10 DEF Neat
<1>12. Accepts(c) \subseteq Accepts(a) \cup Accepts(b)
  <2>1. PICK L : L = [s \in Nat |-> IF s = n THEN Accepts(a) \cup Accepts(b)
                                    ELSE IF s = f THEN {<<>>}
                                    ELSE IF s <= a.final_state
                                         THEN Onwards(a, s) ELSE Onwards(b, s)]
    OBVIOUS
  <2>2. /\ L \in Families
        /\ L[n] = Accepts(a) \cup Accepts(b) /\ L[f] = {<<>>}
        /\ \A s \in m .. a.final_state : L[s] = Onwards(a, s)
        /\ \A s \in k .. b.final_state : L[s] = Onwards(b, s)
    <3>1. L \in Families
      BY <2>1, <1>5, <1>8, Strung DEF Families
    <3>2. /\ L[n] = Accepts(a) \cup Accepts(b) /\ L[f] = {<<>>}
      BY <2>1, <1>1, <1>5, <1>6, <1>8, <1>9
    <3>3. \A s \in m .. a.final_state : L[s] = Onwards(a, s)
      BY <2>1, <1>1, <1>4, <1>5, <1>6, <1>8, <1>9
    <3>4. \A s \in k .. b.final_state : L[s] = Onwards(b, s)
      BY <2>1, <1>1, <1>4, <1>5, <1>6, <1>8, <1>9
    <3> QED
      BY <3>1, <3>2, <3>3, <3>4
  <2>3. OnEdges(a.edges, L) /\ OnEdges(b.edges, L)
    BY <2>2, <1>4, <1>7, OwnWords
  <2>7. /\ L[a.begin_state] = Accepts(a) /\ L[b.begin_state] = Accepts(b)
        /\ L[a.final_state] = Onwards(a, a.final_state)
        /\ L[b.final_state] = Onwards(b, b.final_state)
    <3>1. /\ m \in m .. a.final_state /\ a.final_state \in m .. a.final_state
          /\ k \in k .. b.final_state /\ b.final_state \in k .. b.final_state
      BY <1>4, <1>5, <1>7, <1>8
    <3> QED
      BY <3>1, <2>2, <1>5, <1>8
  <2>4. OnEdges(Epsilons({n}, {a.begin_state, b.begin_state}), L)
    <3>1. L[a.begin_state] \subseteq L[n] /\ L[b.begin_state] \subseteq L[n]
      BY <2>2, <2>7
    <3> QED
      BY <3>1, SilentEdges
  <2>5. OnEdges(Epsilons({a.final_state, b.final_state}, {f}), L)
    <3>1. L[f] \subseteq L[a.final_state] /\ L[f] \subseteq L[b.final_state]
      BY <2>2, <2>7, <1>5, <1>8
    <3> QED
      BY <3>1, SilentEdges
  <2>6. OnEdges(E, L)
    BY <1>1, <2>3, <2>4, <2>5, EdgesTogether
  <2> QED
    BY <1>2, <2>2, <2>6, WordsWithin
<1>13. ASSUME NEW w, w \in Accepts(a) \/ w \in Accepts(b)
       PROVE  w \in Accepts(c)
  <2>1. /\ Accepts(c) = Onwards(c, n) /\ <<>> \in Onwards(c, f)
        /\ c.edges \subseteq AllEdges
    BY <1>3, <1>10, SpansWithin
  <2>2. /\ Silently(E, n, m) /\ Silently(E, n, k)
        /\ Silently(E, a.final_state, f) /\ Silently(E, b.final_state, f)
    <3>1. /\ Epsilons({n}, {a.begin_state, b.begin_state}) \subseteq E
          /\ Epsilons({a.final_state, b.final_state}, {f}) \subseteq E
      BY <1>1
    <3> QED
      BY <3>1, <1>5, <1>8, SilentlyThere
  <2>3. <<>> \in Onwards(c, a.final_state) /\ <<>> \in Onwards(c, b.final_state)
    BY <1>3, <1>10, <2>1, <2>2, SilentlyOn
  <2>4. a.edges \subseteq c.edges /\ b.edges \subseteq c.edges
    BY <1>1, <1>3
  <2>5. /\ \A u \in Onwards(a, m) : u \o <<>> \in Onwards(c, m)
        /\ \A u \in Onwards(b, k) : u \o <<>> \in Onwards(c, k)
    BY <1>4, <1>5, <1>7, <1>8, <2>1, <2>3, <2>4, WordGoesOn
  <2>6. w \in Onwards(c, m) \/ w \in Onwards(c, k)
    <3>1. w \in Strings /\ w \o <<>> = w
      BY <1>5, <1>8, <1>13, Strung
    <3> QED
      BY <3>1, <1>5, <1>8, <1>13, <2>5
  <2> QED
    BY <1>3, <1>10, <2>1, <2>2, <2>6, SilentlyOn
<1> QED
  BY <1>11, <1>12, <1>13

LEMMA CatAfterNothing ==
  ASSUME NEW X, X \subseteq Strings, NEW Y, Y \subseteq Strings, <<>> \in X
  PROVE  \A w \in Y : w \in Cat(X, Y)
<1>1. ASSUME NEW w \in Y PROVE w \in Cat(X, Y)
  <2>1. <<>> \o w \in Cat(X, Y)
    BY CatIs
  <2>2. <<>> \o w = w
    BY Strung
  <2> QED
    BY <2>1, <2>2
<1> QED
  BY <1>1

LEMMA ConcatAccepts ==
  ASSUME NEW n \in Nat, NEW a, Neat(a, n), NEW b, Neat(b, a.final_state),
         NEW c, c = concat_builder(a, b, n)
  PROVE  Neat(c, n) /\ Accepts(c) = Cat(Accepts(a), Accepts(b))
<1>1. PICK f, E, k : /\ f = b.final_state /\ k = a.final_state
                     /\ E = a.edges \cup b.edges
  OBVIOUS
<1>2. c = Automaton(n, f, E)
  BY <1>1 DEF concat_builder
<1>3. c.edges = E /\ c.final_state = f /\ c.begin_state = n
  BY <1>2 DEF Automaton
<1>4. Spans(a, n)
  BY DEF Neat
<1>5. /\ a.begin_state = n /\ k \in Nat /\ n < k
      /\ \A e \in a.edges : e.from \in n .. k
      /\ a.edges \subseteq AllEdges
      /\ \A s : Onwards(a, s) \subseteq Strings
      /\ Accepts(a) = Onwards(a, n) /\ <<>> \in Onwards(a, k)
  BY <1>1, <1>4, SpansWithin
<1>6. Spans(b, k)
  BY <1>1 DEF Neat
<1>7. /\ b.begin_state = k /\ f \in Nat /\ k < f
      /\ b.edges \subseteq AllEdges
      /\ \A s : Onwards(b, s) \subseteq Strings
      /\ Accepts(b) = Onwards(b, k) /\ <<>> \in Onwards(b, f)
  BY <1>1, <1>5, <1>6, SpansWithin
<1>8. Spans(c, n)
  BY <1>1, <1>4, <1>6, ConcatSpans
<1>9. Neat(c, n)
  <2>1. \A e \in a.edges : e.from # f
    BY <1>5, <1>7
  <2>2. \A e \in b.edges : e.from # f
    BY <1>1 DEF Neat
  <2> QED
    BY <2>1, <2>2, <1>1, <1>3, <1>8 DEF Neat
<1>10. Accepts(c) \subseteq Cat(Accepts(a), Accepts(b))
  <2>1. PICK L : L = [s \in Nat |-> IF s < k THEN Cat(Onwards(a, s), Accepts(b))
                                             ELSE Onwards(b, s)]
    OBVIOUS
  <2>2. L \in Families
    <3>1. \A s \in Nat : Cat(Onwards(a, s), Accepts(b)) \subseteq Strings
      BY <1>5, <1>7, CatIs
    <3> QED
      BY <2>1, <3>1, <1>7 DEF Families
  <2>3. /\ L[n] = Cat(Accepts(a), Accepts(b))
        /\ L[k] = Accepts(b) /\ L[f] = Onwards(b, f)
        /\ \A s \in n .. k - 1 : L[s] = Cat(Onwards(a, s), Accepts(b))
        /\ \A s \in k .. f : L[s] = Onwards(b, s)
    BY <2>1, <1>5, <1>7
  <2>4. OnEdges(a.edges, L)
    <3>1. ASSUME NEW w \in L[k] PROVE w \in Cat(Onwards(a, k), Accepts(b))
      <4>1. w \in Accepts(b)
        BY <2>3
      <4> QED
        BY <4>1, <1>5, <1>7, CatAfterNothing
    <3>2. Accepts(b) \subseteq Strings
      BY <1>7
    <3> QED
      BY <2>3, <3>1, <3>2, <1>1, GoneOnWords
  <2>5. OnEdges(b.edges, L)
    BY <2>3, <1>1, <1>5, <1>6, OwnWords
  <2>6. OnEdges(E, L)
    BY <1>1, <2>4, <2>5, EdgesTogether
  <2>7. <<>> \in L[f]
    BY <2>3, <1>7
  <2> QED
    BY <1>2, <2>2, <2>3, <2>6, <2>7, WordsWithin
<1>11. ASSUME NEW w \in Cat(Accepts(a), Accepts(b))
       PROVE  w \in Accepts(c)
  <2>1. /\ Accepts(c) = Onwards(c, n) /\ <<>> \in Onwards(c, f)
        /\ c.edges \subseteq AllEdges
    BY <1>3, <1>8, SpansWithin
  <2>2. PICK u \in Accepts(a), v \in Accepts(b) : w = u \o v
    BY DEF Cat
  <2>3. a.edges \subseteq c.edges /\ b.edges \subseteq c.edges
    BY <1>1, <1>3
  <2>4. v \in Onwards(c, k)
    <3>1. v \o <<>> \in Onwards(c, k)
      BY <1>1, <1>5, <1>7, <2>1, <2>3, WordGoesOn
    <3>2. v \o <<>> = v
      BY <1>7, Strung
    <3> QED
      BY <3>1, <3>2
  <2>5. u \o v \in Onwards(c, n)
    BY <1>1, <1>5, <2>1, <2>3, <2>4, WordGoesOn
  <2> QED
    BY <2>1, <2>2, <2>5
<1> QED
  BY <1>9, <1>10, <1>11

LEMMA KleeneAccepts ==
  ASSUME NEW n \in Nat, NEW a, Neat(a, n + 1),
         NEW c, c = kleene_clos_builder(a, n)
  PROVE  Neat(c, n) /\ Accepts(c) = Star(Accepts(a))
<1>1. PICK f, E, k, m, K :
        /\ f = a.final_state + 1 /\ k = a.final_state /\ m = n + 1
        /\ E = a.edges \cup Epsilons({n, k}, {a.begin_state, f})
        /\ K = Star(Accepts(a))
  OBVIOUS
<1>2. c = Automaton(n, f, E)
  BY <1>1 DEF kleene_clos_builder
<1>3. c.edges = E /\ c.final_state = f /\ c.begin_state = n
  BY <1>2 DEF Automaton
<1>4. Spans(a, m) /\ Neat(a, m) /\ m \in Nat /\ m > n
  BY <1>1 DEF Neat
<1>5. /\ a.begin_state = m /\ k \in Nat /\ m < k
      /\ \A e \in a.edges : e.from \in m .. k
      /\ a.edges \subseteq AllEdges
      /\ \A s : Onwards(a, s) \subseteq Strings
      /\ Accepts(a) = Onwards(a, m) /\ <<>> \in Onwards(a, k)
      /\ Accepts(a) \subseteq Strings
  BY <1>1, <1>4, SpansWithin
<1>6. f \in Nat /\ f > k /\ f # n
  BY <1>1, <1>4, <1>5
<1>7. Spans(c, n)
  BY <1>1, <1>4, KleeneSpans
<1>8. Neat(c, n)
  <2>1. \A e \in a.edges : e.from # f
    BY <1>5, <1>6
  <2>2. \A e \in Epsilons({n, k}, {a.begin_state, f}) : e.from # f
    BY <1>6, EpsilonsAre
  <2> QED
    BY <2>1, <2>2, <1>1, <1>3, <1>7 DEF Neat
<1>9. /\ K \subseteq Strings /\ <<>> \in K
      /\ \A w \in Cat(Accepts(a), K) : w \in K
  <2>1. K \subseteq Strings /\ <<>> \in K
    BY <1>1, <1>5, StarIs
  <2>2. ASSUME NEW w \in Cat(Accepts(a), K) PROVE w \in K
    <3>1. PICK u \in Accepts(a), v \in K : w = u \o v
      BY DEF Cat
    <3> QED
      BY <3>1, <1>1, <1>5, StarIs
  <2> QED
    BY <2>1, <2>2
<1>10. Accepts(c) \subseteq K
  <2>1. PICK L : L = [s \in Nat |-> IF s = n THEN K
                                    ELSE IF s = f THEN {<<>>}
                                    ELSE Cat(Onwards(a, s), K)]
    OBVIOUS
  <2>2. L \in Families
    <3>1. \A s \in Nat : Cat(Onwards(a, s), K) \subseteq Strings
      BY <1>5, <1>9, CatIs
    <3> QED
      BY <2>1, <3>1, <1>9, Strung DEF Families
  <2>3. /\ L[n] = K /\ L[f] = {<<>>}
        /\ L[m] = Cat(Accepts(a), K)
        /\ L[k] = Cat(Onwards(a, k), K)
        /\ \A s \in m .. k - 1 : L[s] = Cat(Onwards(a, s), K)
    BY <2>1, <1>4, <1>5, <1>6
  <2>4. OnEdges(a.edges, L)
    <3>1. \A w \in L[a.final_state] : w \in Cat(Onwards(a, a.final_state), K)
      BY <2>3, <1>1
    <3>2. \A s \in m .. a.final_state - 1 : L[s] = Cat(Onwards(a, s), K)
      BY <2>3, <1>1
    <3> QED
      BY <3>1, <3>2, <1>4, <1>9, GoneOnWords
  <2>5. OnEdges(Epsilons({n, k}, {a.begin_state, f}), L)
    <3>1. \A w \in K : w \in L[k]
      <4>1. \A w \in K : w \in Cat(Onwards(a, k), K)
        BY <1>5, <1>9, CatAfterNothing
      <4> QED
        BY <4>1, <2>3
    <3>2. L[m] \subseteq K /\ L[f] \subseteq K
      BY <2>3, <1>9
    <3>3. \A x \in {n, k} : K \subseteq L[x]
      BY <2>3, <3>1
    <3>4. \A y \in {a.begin_state, f} : L[y] \subseteq K
      BY <3>2, <1>5
    <3> QED
      BY <3>3, <3>4, SilentEdges
  <2>6. OnEdges(E, L)
    BY <1>1, <2>4, <2>5, EdgesTogether
  <2>7. <<>> \in L[f]
    BY <2>3
  <2> QED
    BY <1>2, <2>2, <2>3, <2>6, <2>7, WordsWithin
<1>11. K \subseteq Accepts(c)
  <2>1. /\ Accepts(c) = Onwards(c, n) /\ <<>> \in Onwards(c, f)
        /\ c.edges \subseteq AllEdges
        /\ \A s : Onwards(c, s) \subseteq Strings
    BY <1>3, <1>7, SpansWithin
  <2>2. /\ Silently(E, n, m) /\ Silently(E, n, f)
        /\ Silently(E, k, m) /\ Silently(E, k, f)
    <3>1. Epsilons({n, k}, {m, f}) \subseteq E
      BY <1>1, <1>5
    <3> QED
      BY <3>1, SilentlyThere
  <2>3. a.edges \subseteq c.edges
    BY <1>1, <1>3
  <2>4. <<>> \in Onwards(c, k) /\ <<>> \in Onwards(c, n)
    BY <1>3, <1>7, <2>1, <2>2, SilentlyOn
  <2>5. ASSUME NEW u \in Accepts(a), NEW v \in Onwards(c, k)
        PROVE  u \o v \in Onwards(c, m)
    BY <1>1, <1>4, <1>5, <2>1, <2>3, WordGoesOn
  <2>6. K \subseteq Onwards(c, k)
    <3>1. ASSUME NEW u \in Accepts(a), NEW v \in Onwards(c, k)
          PROVE  u \o v \in Onwards(c, k)
      BY <2>2, <2>5, <1>3, <1>7, SilentlyOn
    <3>2. Onwards(c, k) \in SUBSET Strings
      BY <2>1
    <3> QED
      BY <3>1, <3>2, <2>4, <1>1, StarLeast
  <2>7. ASSUME NEW w \in Cat(Accepts(a), K) PROVE w \in Onwards(c, n)
    <3>1. PICK u \in Accepts(a), v \in K : w = u \o v
      BY DEF Cat
    <3>2. w \in Onwards(c, m)
      BY <3>1, <2>5, <2>6
    <3> QED
      BY <3>2, <2>2, <1>3, <1>7, SilentlyOn
  <2>8. K \subseteq {<<>>} \cup Cat(Accepts(a), K)
    BY <1>1, <1>5, StarOpened
  <2> QED
    BY <2>1, <2>4, <2>7, <2>8
<1> QED
  BY <1>1, <1>8, <1>10, <1>11

LEMMA OptionalAccepts ==
  ASSUME NEW n \in Nat, NEW a, Neat(a, n + 1),
         NEW c, c = optional_builder(a, n)
  PROVE  Neat(c, n) /\ Accepts(c) = Accepts(a) \cup {<<>>}
<1>0. PICK l, m : l = a.final_state /\ m = n + 1
  OBVIOUS
<1>11. PICK f, p, q : f = l + 3 /\ p = l + 1 /\ q = l + 2
  OBVIOUS
<1>12. PICK E : E = a.edges \cup Epsilons({n}, {m, p})
                     \cup Epsilons({p}, {q}) \cup Epsilons({l, q}, {f})
  OBVIOUS
<1>1. /\ f = l + 3 /\ l = a.final_state /\ m = n + 1 /\ p = l + 1 /\ q = l + 2
      /\ E = a.edges \cup Epsilons({n}, {m, p})
              \cup Epsilons({p}, {q}) \cup Epsilons({l, q}, {f})
  BY <1>0, <1>11, <1>12
<1>2. c = Automaton(n, f, E)
  BY <1>1, Zenon DEF optional_builder
<1>3. c.edges = E /\ c.final_state = f /\ c.begin_state = n
  BY <1>2 DEF Automaton
<1>4. Spans(a, m) /\ Neat(a, m) /\ m \in Nat /\ m > n
  BY <1>1 DEF Neat
<1>5. /\ a.begin_state = m /\ l \in Nat /\ m < l
      /\ \A e \in a.edges : e.from \in m .. l
      /\ a.edges \subseteq AllEdges
      /\ \A s : Onwards(a, s) \subseteq Strings
      /\ Accepts(a) = Onwards(a, m) /\ <<>> \in Onwards(a, l)
      /\ Accepts(a) \subseteq Strings
  BY <1>1, <1>4, SpansWithin
<1>6. /\ f \in Nat /\ p \in Nat /\ q \in Nat
      /\ l < p /\ p < q /\ q < f /\ n < l
  BY <1>1, <1>4, <1>5
<1>7. Spans(c, n)
  BY <1>1, <1>4, OptionalSpans
<1>8. Neat(c, n)
  <2>1. \A e \in a.edges : e.from # f
    BY <1>5, <1>6
  <2>2. \A e \in Epsilons({n}, {m, p}) : e.from # f
    BY <1>6, <1>5, EpsilonsAre
  <2>3. \A e \in Epsilons({p}, {q}) : e.from # f
    BY <1>6, EpsilonsAre
  <2>4. \A e \in Epsilons({l, q}, {f}) : e.from # f
    BY <1>6, <1>5, EpsilonsAre
  <2> QED
    BY <2>1, <2>2, <2>3, <2>4, <1>1, <1>3, <1>7 DEF Neat
<1>9. Accepts(c) \subseteq Accepts(a) \cup {<<>>}
  <2>1. PICK L : L = [s \in Nat |-> IF s = n THEN Accepts(a) \cup {<<>>}
                                    ELSE IF s <= l THEN Onwards(a, s)
                                    ELSE {<<>>}]
    OBVIOUS
  <2>2. L \in Families
    BY <2>1, <1>5, Strung DEF Families
  <2>3. /\ L[n] = Accepts(a) \cup {<<>>} /\ L[m] = Accepts(a)
        /\ L[l] = Onwards(a, l)
        /\ L[p] = {<<>>} /\ L[q] = {<<>>} /\ L[f] = {<<>>}
    BY <2>1, <1>4, <1>5, <1>6
  <2>4. \A s \in m .. l : L[s] = Onwards(a, s)
    BY <2>1, <1>4, <1>5
  <2>5. OnEdges(a.edges, L)
    BY <2>4, <1>1, <1>4, OwnWords
  <2>6. OnEdges(Epsilons({n}, {m, p}), L)
    BY <2>3, SilentEdges
  <2>7. OnEdges(Epsilons({p}, {q}), L)
    BY <2>3, SilentEdges
  <2>8. OnEdges(Epsilons({l, q}, {f}), L)
    <3>1. L[f] \subseteq L[l] /\ L[f] \subseteq L[q]
      BY <2>3, <1>5
    <3> QED
      BY <3>1, SilentEdges
  <2>9. OnEdges(E, L)
    BY <1>1, <2>5, <2>6, <2>7, <2>8, EdgesTogether
  <2>10. <<>> \in L[f]
    BY <2>3
  <2> QED
    BY <1>2, <2>2, <2>3, <2>9, <2>10, WordsWithin
<1>10. Accepts(a) \cup {<<>>} \subseteq Accepts(c)
  <2>1. /\ Accepts(c) = Onwards(c, n) /\ <<>> \in Onwards(c, f)
        /\ c.edges \subseteq AllEdges
    BY <1>3, <1>7, SpansWithin
  <2>2. /\ Silently(E, n, m) /\ Silently(E, n, p)
        /\ Silently(E, p, q) /\ Silently(E, q, f) /\ Silently(E, l, f)
    <3>1. /\ Epsilons({n}, {m, p}) \subseteq E
          /\ Epsilons({p}, {q}) \subseteq E
          /\ Epsilons({l, q}, {f}) \subseteq E
      BY <1>1
    <3> QED
      BY <3>1, SilentlyThere
  <2>3. <<>> \in Onwards(c, q) /\ <<>> \in Onwards(c, l)
    BY <1>3, <1>7, <2>1, <2>2, SilentlyOn
  <2>4. <<>> \in Onwards(c, p)
    BY <1>3, <1>7, <2>3, <2>2, SilentlyOn
  <2>5. <<>> \in Onwards(c, n)
    BY <1>3, <1>7, <2>4, <2>2, SilentlyOn
  <2>6. ASSUME NEW u \in Accepts(a) PROVE u \in Onwards(c, n)
    <3>1. a.edges \subseteq c.edges
      BY <1>1, <1>3
    <3>2. u \o <<>> \in Onwards(c, m)
      BY <1>1, <1>4, <1>5, <2>1, <2>3, <3>1, WordGoesOn
    <3>3. u \o <<>> = u
      BY <1>5, Strung
    <3> QED
      BY <3>2, <3>3, <2>2, <1>3, <1>7, SilentlyOn
  <2> QED
    BY <2>1, <2>5, <2>6
<1> QED
  BY <1>8, <1>9, <1>10

MovedBy(E, k) == {[e EXCEPT !.from = @ + k, !.to = @ + k] : e \in E}

LEMMA MovedAre ==
  ASSUME NEW E, E \subseteq AllEdges, NEW k \in Nat
  PROVE  /\ \A e \in MovedBy(E, k) : \E d \in E :
              e.from = d.from + k /\ e.to = d.to + k /\ e.gc = d.gc
         /\ \A d \in E : \E e \in MovedBy(E, k) :
              e.from = d.from + k /\ e.to = d.to + k /\ e.gc = d.gc
<1>1. \A d \in E : LET e == [d EXCEPT !.from = @ + k, !.to = @ + k]
                   IN e.from = d.from + k /\ e.to = d.to + k /\ e.gc = d.gc
  BY DEF AllEdges
<1> QED
  BY <1>1 DEF MovedBy

LEMMA PositiveAccepts ==
  ASSUME NEW n \in Nat, NEW a, Neat(a, n),
         NEW c, c = positive_clos_builder(a, n)
  PROVE  Neat(c, n) /\ Accepts(c) = Cat(Accepts(a), Star(Accepts(a)))
<1>1. PICK l, K : l = a.final_state /\ K = Star(Accepts(a))
  OBVIOUS
<1>2. Spans(a, n)
  BY DEF Neat
<1>3. /\ a.begin_state = n /\ l \in Nat /\ n < l
      /\ \A e \in a.edges : e.from \in n .. l /\ e.to \in n .. l
      /\ a.edges \subseteq AllEdges
      /\ \A s : Onwards(a, s) \subseteq Strings
      /\ Accepts(a) = Onwards(a, n) /\ <<>> \in Onwards(a, l)
      /\ Accepts(a) \subseteq Strings
  BY <1>1, <1>2, SpansWithin
<1>4. PICK k : k = l - n + 1
  OBVIOUS
<1>5. PICK f, p, q : f = l + k + 1 /\ p = n + k /\ q = l + k
  OBVIOUS
<1>6. /\ k \in Nat /\ f \in Nat /\ p \in Nat /\ q \in Nat
      /\ p = l + 1 /\ p < q /\ q < f /\ l < p /\ n < l
  BY <1>3, <1>4, <1>5
<1>7. PICK M, E : /\ M = MovedBy(a.edges, k)
                  /\ E = a.edges \cup M \cup Epsilons({l, q}, {p, f})
  OBVIOUS
<1>8. c = Automaton(n, f, E)
  BY <1>1, <1>4, <1>5, <1>7, Zenon DEF positive_clos_builder, MovedBy
<1>9. c.edges = E /\ c.final_state = f /\ c.begin_state = n
  BY <1>8 DEF Automaton
<1>10. Spans(c, n)
  BY <1>2, PositiveSpans
<1>11. \A e \in M : \E d \in a.edges :
         e.from = d.from + k /\ e.to = d.to + k /\ e.gc = d.gc
  BY <1>3, <1>6, <1>7, MovedAre
<1>12. Neat(c, n)
  <2>1. \A e \in a.edges : e.from # f
    BY <1>3, <1>6
  <2>2. ASSUME NEW e \in M PROVE e.from # f
    <3>1. PICK d \in a.edges : e.from = d.from + k
      BY <1>11
    <3>2. d.from \in n .. l
      BY <1>3
    <3> QED
      BY <3>1, <3>2, <1>3, <1>5, <1>6
  <2>3. \A e \in Epsilons({l, q}, {p, f}) : e.from # f
    BY <1>6, EpsilonsAre
  <2> QED
    BY <2>1, <2>2, <2>3, <1>7, <1>9, <1>10 DEF Neat
<1>13. /\ K \subseteq Strings /\ <<>> \in K
       /\ \A w \in Cat(Accepts(a), K) : w \in K
  <2>1. K \subseteq Strings /\ <<>> \in K
    BY <1>1, <1>3, StarIs
  <2>2. ASSUME NEW w \in Cat(Accepts(a), K) PROVE w \in K
    <3>1. PICK u \in Accepts(a), v \in K : w = u \o v
      BY DEF Cat
    <3> QED
      BY <3>1, <1>1, <1>3, StarIs
  <2> QED
    BY <2>1, <2>2
<1>14. Accepts(c) \subseteq Cat(Accepts(a), K)
  <2>1. PICK L : L = [s \in Nat |-> IF s = f THEN {<<>>}
                                    ELSE IF s <= l THEN Cat(Onwards(a, s), K)
                                    ELSE Cat(Onwards(a, s - k), K)]
    OBVIOUS
  <2>2. L \in Families
    <3>1. \A s : Cat(Onwards(a, s), K) \subseteq Strings
      BY <1>3, <1>13, CatIs
    <3> QED
      BY <2>1, <3>1, <1>13 DEF Families
  <2>3. /\ \A s \in n .. l : L[s] = Cat(Onwards(a, s), K)
        /\ L[f] = {<<>>}
    BY <2>1, <1>3, <1>6
  <2>4. \A s \in n .. l : L[s + k] = Cat(Onwards(a, s), K)
    <3>1. ASSUME NEW s \in n .. l PROVE L[s + k] = Cat(Onwards(a, s), K)
      <4>1. s + k \in Nat /\ s + k # f /\ ~(s + k <= l) /\ (s + k) - k = s
        BY <1>3, <1>4, <1>5, <1>6
      <4> QED
        BY <4>1, <2>1
    <3> QED
      BY <3>1
  <2>5. /\ L[n] = Cat(Accepts(a), K) /\ L[l] = Cat(Onwards(a, l), K)
        /\ L[p] = Cat(Accepts(a), K) /\ L[q] = Cat(Onwards(a, l), K)
    <3>1. n \in n .. l /\ l \in n .. l
      BY <1>3
    <3> QED
      BY <3>1, <2>3, <2>4, <1>3, <1>5
  <2>6. OnEdges(a.edges, L)
    <3>1. \A w \in L[a.final_state] : w \in Cat(Onwards(a, a.final_state), K)
      BY <2>5, <1>1
    <3>2. \A s \in n .. a.final_state - 1 : L[s] = Cat(Onwards(a, s), K)
      BY <2>3, <1>1, <1>3
    <3> QED
      BY <3>1, <3>2, <1>13, GoneOnWords
  <2>7. OnEdges(M, L)
    <3>1. PICK N : N = [s \in Nat |-> L[s + k]]
      OBVIOUS
    <3>2. \A s \in Nat : N[s] = L[s + k]
      BY <3>1
    <3>3. \A s \in n .. l : N[s] = Cat(Onwards(a, s), K)
      BY <3>2, <2>4, <1>3
    <3>4. \A s \in n .. a.final_state - 1 : N[s] = Cat(Onwards(a, s), K)
      BY <3>3, <1>1, <1>3
    <3>5. \A w \in N[a.final_state] : w \in Cat(Onwards(a, a.final_state), K)
      BY <3>3, <1>1, <1>3
    <3>6. OnEdges(a.edges, N)
      BY <3>4, <3>5, <1>13, GoneOnWords
    <3>7. ASSUME NEW e \in M, NEW w \in L[e.to]
          PROVE  Prefixed(e.gc, w) \in L[e.from]
      <4>1. PICK d \in a.edges :
              e.from = d.from + k /\ e.to = d.to + k /\ e.gc = d.gc
        BY <1>11
      <4>2. d.from \in Nat /\ d.to \in Nat
        BY <1>3
      <4>3. w \in N[d.to] /\ N[d.from] = L[e.from]
        BY <4>1, <4>2, <3>2
      <4>4. Prefixed(d.gc, w) \in N[d.from]
        BY <4>3, <3>6 DEF OnEdges
      <4> QED
        BY <4>1, <4>3, <4>4
    <3> QED
      BY <3>7 DEF OnEdges
  <2>8. OnEdges(Epsilons({l, q}, {p, f}), L)
    <3>1. \A w \in K : w \in Cat(Onwards(a, l), K)
      BY <1>3, <1>13, CatAfterNothing
    <3>2. \A x \in {l, q} : K \subseteq L[x]
      BY <2>5, <3>1
    <3>3. \A y \in {p, f} : L[y] \subseteq K
      BY <2>3, <2>5, <1>13
    <3> QED
      BY <3>2, <3>3, SilentEdges
  <2>9. OnEdges(E, L)
    BY <1>7, <2>6, <2>7, <2>8, EdgesTogether
  <2>10. <<>> \in L[f]
    BY <2>3
  <2> QED
    BY <1>8, <2>2, <2>5, <2>9, <2>10, WordsWithin
<1>15. ASSUME NEW w \in Cat(Accepts(a), K)
       PROVE  w \in Accepts(c)
  <2>1. /\ Accepts(c) = Onwards(c, n) /\ <<>> \in Onwards(c, f)
        /\ c.edges \subseteq AllEdges
        /\ \A s : Onwards(c, s) \subseteq Strings
    BY <1>9, <1>10, SpansWithin
  <2>2. /\ Silently(E, l, p) /\ Silently(E, l, f)
        /\ Silently(E, q, p) /\ Silently(E, q, f)
    <3>1. Epsilons({l, q}, {p, f}) \subseteq E
      BY <1>7
    <3> QED
      BY <3>1, SilentlyThere
  <2>3. <<>> \in Onwards(c, q) /\ <<>> \in Onwards(c, l)
    BY <1>9, <1>10, <2>1, <2>2, SilentlyOn
  <2>4. ASSUME NEW u \in Accepts(a), NEW v \in Onwards(c, q)
        PROVE  u \o v \in Onwards(c, p)
    <3>1. PICK h : h = [t \in Nat |-> t + k]
      OBVIOUS
    <3>2. h \in [Nat -> Nat] /\ \A t \in Nat : h[t] = t + k
      BY <3>1, <1>6
    <3>3. \A e \in a.edges : \E g \in E :
            g.from = h[e.from] /\ g.to = h[e.to] /\ g.gc = e.gc
      <4>1. ASSUME NEW e \in a.edges
            PROVE  \E g \in E : g.from = h[e.from] /\ g.to = h[e.to] /\ g.gc = e.gc
        <5>1. PICK g \in M : /\ g.from = e.from + k /\ g.to = e.to + k
                             /\ g.gc = e.gc
          BY <1>3, <1>6, <1>7, MovedAre
        <5>2. e.from \in Nat /\ e.to \in Nat
          BY <1>3
        <5>3. g \in E
          BY <1>7
        <5> QED
          BY <5>1, <5>2, <5>3, <3>2
      <4> QED
        BY <4>1
    <3>4. E \subseteq AllEdges /\ v \in Strings /\ v \in Lang(E, {f}, q)
      BY <2>1, <1>9 DEF Onwards
    <3>5. \A g \in {l} : v \in Lang(E, {f}, h[g])
      BY <3>2, <3>4, <1>3, <1>5
    <3>6. \A t \in Lang(a.edges, {l}, n) : t \o v \in Lang(E, {f}, h[n])
      BY <3>2, <3>3, <3>4, <3>5, <1>3, LangMapped
    <3> QED
      BY <3>2, <3>6, <1>1, <1>3, <1>5, <1>9 DEF Onwards
  <2>5. K \subseteq Onwards(c, q)
    <3>1. ASSUME NEW u \in Accepts(a), NEW v \in Onwards(c, q)
          PROVE  u \o v \in Onwards(c, q)
      BY <2>2, <2>4, <1>9, <1>10, SilentlyOn
    <3>2. Onwards(c, q) \in SUBSET Strings
      BY <2>1
    <3> QED
      BY <3>1, <3>2, <2>3, <1>1, StarLeast
  <2>6. K \subseteq Onwards(c, l)
    <3>1. ASSUME NEW v \in Cat(Accepts(a), K) PROVE v \in Onwards(c, l)
      <4>1. PICK x \in Accepts(a), y \in K : v = x \o y
        BY DEF Cat
      <4>2. v \in Onwards(c, p)
        BY <4>1, <2>4, <2>5
      <4> QED
        BY <4>2, <2>2, <1>9, <1>10, SilentlyOn
    <3>2. K \subseteq {<<>>} \cup Cat(Accepts(a), K)
      BY <1>1, <1>3, StarOpened
    <3> QED
      BY <3>1, <3>2, <2>3
  <2>7. PICK u \in Accepts(a), v \in K : w = u \o v
    BY DEF Cat
  <2>8. a.edges \subseteq c.edges
    BY <1>7, <1>9
  <2>9. u \o v \in Onwards(c, n)
    BY <1>1, <1>3, <2>1, <2>6, <2>8, WordGoesOn
  <2> QED
    BY <2>1, <2>7, <2>9
<1> QED
  BY <1>1, <1>12, <1>14, <1>15

LettersWords(S) == {<<gc>> : gc \in S}

LEMMA EdgeIs ==
  ASSUME NEW x, NEW g, NEW a, NEW y, NEW e, e = Edge(x, g, a, y)
  PROVE  e.from = x /\ e.gc = g /\ e.act = a /\ e.to = y
BY DEF Edge

LEMMA MultiorAccepts ==
  ASSUME NEW n \in Nat, NEW com, com.s \subseteq Chars, com.s # {},
         com.action_name \in Nat, NEW c, c = multior_builder(com, n)
  PROVE  Neat(c, n) /\ Accepts(c) = LettersWords(com.s)
<1>1. PICK cs, k : cs = InOrder(com.s) /\ k = Len(cs)
  OBVIOUS
<1>2. com.s \subseteq Nat /\ IsFiniteSet(com.s) /\ com.s \subseteq Gen_chars
  BY CharsFinite, FS_Subset DEF Gen_chars
<1>3. /\ k \in Nat /\ cs \in Seq(com.s)
      /\ \A x \in com.s : \E i \in 1 .. k : cs[i] = x
      /\ \A i \in 1 .. k : cs[i] \in com.s
  <2>1. PICK S : S = com.s
    OBVIOUS
  <2>2. S \subseteq Nat /\ IsFiniteSet(S) /\ cs = InOrder(S) /\ k = Len(InOrder(S))
    BY <1>1, <1>2, <2>1
  <2>3. /\ InOrder(S) \in Seq(S) /\ Len(InOrder(S)) \in Nat
        /\ \A x \in S : \E i \in 1 .. Len(InOrder(S)) : InOrder(S)[i] = x
    BY ONLY <2>2, InOrderAll
  <2>4. /\ k \in Nat /\ cs \in Seq(S)
        /\ \A x \in S : \E i \in 1 .. k : cs[i] = x
    BY <2>2, <2>3, Zenon
  <2>5. \A i \in 1 .. k : cs[i] \in S
    BY ONLY <1>1, <2>4
  <2> QED
    BY <2>1, <2>4, <2>5
<1>4. PICK f : f = n + 2 * k + 1
  OBVIOUS
<1>5. f \in Nat /\ n < f
  BY <1>3, <1>4
<1>6. PICK M, From, To : /\ M = {Edge(n + i, cs[i], com.action_name, n + k + i)
                                   : i \in 1 .. k}
                         /\ From = n + 1 .. n + k
                         /\ To = n + k + 1 .. n + 2 * k
  OBVIOUS
<1>7. PICK E : E = Epsilons({n}, From) \cup M \cup Epsilons(To, {f})
  OBVIOUS
<1>8. c = Automaton(n, f, E)
  BY <1>1, <1>4, <1>6, <1>7, Zenon DEF multior_builder
<1>9. c.edges = E /\ c.final_state = f /\ c.begin_state = n
  BY <1>8 DEF Automaton
<1>10. Spans(c, n)
  BY MultiorSpans
<1>11. /\ \A e \in M : \E i \in 1 .. k :
            e.from = n + i /\ e.to = n + k + i /\ e.gc = cs[i]
       /\ \A i \in 1 .. k : \E e \in M :
            e.from = n + i /\ e.to = n + k + i /\ e.gc = cs[i]
  <2>2. \A i \in 1 .. k :
          Edge(n + i, cs[i], com.action_name, n + k + i) \in M
    BY <1>6
  <2>3. \A e \in M : \E i \in 1 .. k :
          e = Edge(n + i, cs[i], com.action_name, n + k + i)
    BY <1>6
  <2>4. ASSUME NEW e \in M
        PROVE  \E i \in 1 .. k :
                 e.from = n + i /\ e.to = n + k + i /\ e.gc = cs[i]
    <3>1. PICK i \in 1 .. k : e = Edge(n + i, cs[i], com.action_name, n + k + i)
      BY <2>3
    <3>2. PICK x, g, a, y : x = n + i /\ g = cs[i] /\ a = com.action_name /\ y = n + k + i
      OBVIOUS
    <3>3. e.from = x /\ e.to = y /\ e.gc = g
      BY <3>1, <3>2 DEF Edge
    <3> QED
      BY <3>2, <3>3
  <2>5. ASSUME NEW i \in 1 .. k
        PROVE  \E e \in M :
                 e.from = n + i /\ e.to = n + k + i /\ e.gc = cs[i]
    <3>1. PICK e : e = Edge(n + i, cs[i], com.action_name, n + k + i)
      OBVIOUS
    <3>2. PICK x, g, a, y : x = n + i /\ g = cs[i] /\ a = com.action_name /\ y = n + k + i
      OBVIOUS
    <3>3. e.from = x /\ e.to = y /\ e.gc = g
      BY <3>1, <3>2 DEF Edge
    <3> QED
      BY <3>1, <3>2, <3>3, <2>2
  <2> QED
    BY <2>4, <2>5
<1>12. /\ \A x \in From : x \in Nat /\ x # n /\ x <= n + k /\ x - n \in 1 .. k
       /\ \A x \in To : x \in Nat /\ x > n + k /\ x < f
       /\ \A i \in 1 .. k : n + i \in From /\ n + k + i \in To
  <2>1. \A x \in From : x \in Nat /\ x # n /\ x <= n + k /\ x - n \in 1 .. k
    BY <1>3, <1>6
  <2>2. \A x \in To : x \in Nat /\ x > n + k /\ x < f
    BY <1>3, <1>4, <1>6
  <2>3. \A i \in 1 .. k : n + i \in From /\ n + k + i \in To
    BY <1>3, <1>6
  <2> QED
    BY <2>1, <2>2, <2>3
<1>13. Neat(c, n)
  <2>1. \A e \in Epsilons({n}, From) : e.from # f
    BY <1>5, EpsilonsAre
  <2>2. ASSUME NEW e \in M PROVE e.from # f
    <3>1. PICK i \in 1 .. k : e.from = n + i
      BY <1>11
    <3> QED
      BY <3>1, <1>3, <1>4
  <2>3. \A e \in Epsilons(To, {f}) : e.from # f
    BY <1>12, <1>5, EpsilonsAre
  <2> QED
    BY <2>1, <2>2, <2>3, <1>7, <1>9, <1>10 DEF Neat
<1>14. Accepts(c) \subseteq LettersWords(com.s)
  <2>1. PICK L : L = [s \in Nat |-> IF s = n THEN LettersWords(com.s)
                                    ELSE IF s \in From THEN {<<cs[s - n]>>}
                                    ELSE {<<>>}]
    OBVIOUS
  <2>2. LettersWords(com.s) \subseteq Strings
    BY <1>2, LetterWord DEF LettersWords
  <2>3. \A s \in From : <<cs[s - n]>> \in LettersWords(com.s)
    BY <1>3, <1>12 DEF LettersWords
  <2>4. L \in Families
    <3>1. \A s \in From : {<<cs[s - n]>>} \subseteq Strings
      BY <2>2, <2>3
    <3>2. {<<>>} \subseteq Strings
      BY Strung
    <3> QED
      BY <2>1, <2>2, <3>1, <3>2 DEF Families
  <2>5. /\ L[n] = LettersWords(com.s)
        /\ \A s \in From : L[s] = {<<cs[s - n]>>}
        /\ \A s \in To : L[s] = {<<>>}
        /\ L[f] = {<<>>}
    <3>1. f \notin From /\ f # n
      <4>1. n \in Nat /\ k \in Nat /\ f = n + 2 * k + 1
        BY <1>3, <1>4
      <4>2. f # n /\ ~(f <= n + k)
        BY ONLY <4>1
      <4>3. \A x \in From : x <= n + k
        BY <1>12
      <4> QED
        BY <4>2, <4>3
    <3>2. \A s \in To : s \notin From /\ s # n /\ s \in Nat
      BY <1>12, <1>3
    <3> QED
      BY <2>1, <3>1, <3>2, <1>5, <1>12
  <2>6. OnEdges(Epsilons({n}, From), L)
    <3>1. \A x \in {n} : \A y \in From : L[y] \subseteq L[x]
      BY <2>3, <2>5
    <3> QED
      BY <3>1, SilentEdges
  <2>7. OnEdges(M, L)
    <3>1. ASSUME NEW e \in M, NEW w \in L[e.to]
          PROVE  Prefixed(e.gc, w) \in L[e.from]
      <4>1. PICK i \in 1 .. k : e.from = n + i /\ e.to = n + k + i /\ e.gc = cs[i]
        BY <1>11
      <4>2. e.to \in To /\ e.from \in From /\ e.from - n = i
        <5>1. n + i \in From /\ n + k + i \in To
          BY <1>12
        <5>2. (n + i) - n = i
          BY <1>3
        <5> QED
          BY <4>1, <5>1, <5>2
      <4>3. w = <<>> /\ L[e.from] = {<<cs[i]>>}
        BY <4>2, <2>5
      <4>4. cs[i] \in Gen_chars
        BY <1>2, <1>3
      <4> QED
        BY <4>1, <4>3, <4>4, LetterWord
    <3> QED
      BY <3>1 DEF OnEdges
  <2>8. OnEdges(Epsilons(To, {f}), L)
    <3>1. \A x \in To : \A y \in {f} : L[y] \subseteq L[x]
      BY <2>5
    <3> QED
      BY <3>1, SilentEdges
  <2>9. OnEdges(E, L)
    BY <1>7, <2>6, <2>7, <2>8, EdgesTogether
  <2>10. <<>> \in L[f]
    BY <2>5
  <2>11. Accepts(c) \subseteq L[n]
    BY <1>8, <2>4, <2>9, <2>10, WordsWithin
  <2> QED
    BY <2>5, <2>11
<1>15. ASSUME NEW gc \in com.s
       PROVE  <<gc>> \in Accepts(c)
  <2>1. Accepts(c) = Onwards(c, n) /\ <<>> \in Onwards(c, f)
    BY <1>9, <1>10, SpansWithin
  <2>2. PICK i \in 1 .. k : cs[i] = gc
    BY <1>3
  <2>3. PICK x, y : x = n + i /\ y = n + k + i
    OBVIOUS
  <2>4. x \in From /\ y \in To
    BY <2>3, <1>12
  <2>5. Silently(E, n, x) /\ Silently(E, y, f)
    <3>1. Epsilons({n}, From) \subseteq E /\ Epsilons(To, {f}) \subseteq E
      BY <1>7
    <3> QED
      BY <3>1, <2>4, SilentlyThere
  <2>6. <<>> \in Onwards(c, y)
    BY <2>1, <2>5, <1>9, <1>10, SilentlyOn
  <2>7. PICK e \in M : e.from = x /\ e.to = y /\ e.gc = gc
    BY <1>11, <2>2, <2>3
  <2>8. e \in c.edges
    BY <1>7, <1>9
  <2>9. Prefixed(e.gc, <<>>) \in Onwards(c, e.from)
    BY <2>6, <2>7, <2>8, <1>10, AutomatonStep
  <2>10. <<gc>> \in Onwards(c, x)
    BY <2>7, <2>9, <1>2, LetterWord
  <2> QED
    BY <2>1, <2>5, <2>10, <1>9, <1>10, SilentlyOn
<1> QED
  BY <1>13, <1>14, <1>15 DEF LettersWords

-----------------------------------------------------------------------------
(* A set of the numbers to n that grows with every step.                   *)
LEMMA CountMore ==
  ASSUME NEW n \in Nat, NEW T, T \subseteq 0 .. n, NEW S, S \subseteq T, S # T,
         NEW k \in Nat, Cardinality(S) >= k
  PROVE  Cardinality(T) >= k + 1
<1>1. IsFiniteSet(0 .. n)
  <2>1. 0 \in Int /\ n \in Int
    OBVIOUS
  <2> QED
    BY <2>1, FS_Interval
<1>2. IsFiniteSet(T) /\ IsFiniteSet(S)
  BY <1>1, FS_Subset
<1>3. Cardinality(T) \in Nat /\ Cardinality(S) \in Nat
  BY <1>2, FS_CardinalityType
<1>4. Cardinality(S) <= Cardinality(T) /\ Cardinality(S) # Cardinality(T)
  BY <1>2, FS_Subset
<1> QED
  BY <1>3, <1>4

LEMMA CountAll ==
  ASSUME NEW n \in Nat, NEW c, c \subseteq 0 .. n, Cardinality(c) >= n + 1
  PROVE  c = 0 .. n
<1>1. PICK S : S = 0 .. n
  OBVIOUS
<1>2. IsFiniteSet(S) /\ Cardinality(S) = n + 1
  <2>1. 0 \in Int /\ n \in Int /\ ~(0 > n) /\ n - 0 + 1 = n + 1
    OBVIOUS
  <2>2. /\ IsFiniteSet(0 .. n)
        /\ Cardinality(0 .. n) = IF 0 > n THEN 0 ELSE n - 0 + 1
    BY <2>1, FS_Interval
  <2> QED
    BY <1>1, <2>1, <2>2
<1>3. /\ Cardinality(c) <= Cardinality(S) /\ IsFiniteSet(c)
      /\ Cardinality(S) = Cardinality(c) => S = c
  BY <1>1, <1>2, FS_Subset
<1>4. Cardinality(c) \in Nat
  BY <1>3, FS_CardinalityType
<1>5. Cardinality(c) = n + 1
  BY <1>2, <1>3, <1>4
<1> QED
  BY <1>1, <1>2, <1>3, <1>5

-----------------------------------------------------------------------------
(* Apart: where a state goes, what is told apart at the end of a word, and *)
(* what is told apart a letter earlier.                                    *)
GoTo(js, n, s, gc) ==
  LET to == Moved([edges |-> js], {s}, gc)
  IN IF to = {} THEN n ELSE CHOOSE t \in to : TRUE
Endings(n, F) ==
  {p \in (0 .. n) \X (0 .. n) : (p[1] \in F) # (p[2] \in F)}
ToldMore(n, js, A) ==
  A \cup {p \in (0 .. n) \X (0 .. n) :
            \E gc \in {e.gc : e \in js} :
              <<GoTo(js, n, p[1], gc), GoTo(js, n, p[2], gc)>> \in A}
IsApart(n, js, F, f) ==
  f = [k \in 0 .. n |-> IF k = 0 THEN Endings(n, F) ELSE ToldMore(n, js, f[k - 1])]

(* What is not told apart is an equivalence.                               *)
Telling(A, n) ==
  /\ A \subseteq (0 .. n) \X (0 .. n)
  /\ \A s \in 0 .. n : <<s, s>> \notin A
  /\ \A s, t \in 0 .. n : <<s, t>> \in A => <<t, s>> \in A
  /\ \A s, t, u \in 0 .. n : <<s, u>> \in A => <<s, t>> \in A \/ <<t, u>> \in A

(* The first of each class of that equivalence.                            *)
Firsts(A, n) == {x \in 0 .. n : \A y \in 0 .. n : y < x => <<y, x>> \in A}

LEMMA GoToIs ==
  ASSUME NEW n \in Nat, NEW js, js \subseteq Jumps(n), NEW s \in 0 .. n, NEW gc
  PROVE  GoTo(js, n, s, gc) \in 0 .. n
<1>1. PICK to : to = Moved([edges |-> js], {s}, gc)
  OBVIOUS
<1>2. to \subseteq 0 .. n
  <2>1. \A e \in js : e.to \in 0 .. n - 1
    BY DEF Jumps
  <2>2. 0 .. n - 1 \subseteq 0 .. n
    OBVIOUS
  <2>3. to \subseteq {e.to : e \in js}
    BY <1>1 DEF Moved, By
  <2> QED
    BY <2>1, <2>2, <2>3
<1>3. GoTo(js, n, s, gc) = IF to = {} THEN n ELSE CHOOSE t \in to : TRUE
  BY <1>1 DEF GoTo
<1>4. n \in 0 .. n
  OBVIOUS
<1> QED
  BY <1>2, <1>3, <1>4

LEMMA ToldIs ==
  ASSUME NEW n, NEW js, NEW A, NEW s \in 0 .. n, NEW t \in 0 .. n
  PROVE  <<s, t>> \in ToldMore(n, js, A)
           <=> <<s, t>> \in A \/ \E e \in js :
                 <<GoTo(js, n, s, e.gc), GoTo(js, n, t, e.gc)>> \in A
<1>1. PICK p : p = <<s, t>>
  OBVIOUS
<1>2. p[1] = s /\ p[2] = t /\ p \in (0 .. n) \X (0 .. n)
  BY <1>1
<1>3. p \in ToldMore(n, js, A)
        <=> p \in A \/ \E gc \in {e.gc : e \in js} :
              <<GoTo(js, n, p[1], gc), GoTo(js, n, p[2], gc)>> \in A
  BY <1>2, Zenon DEF ToldMore
<1>4. (\E gc \in {e.gc : e \in js} :
         <<GoTo(js, n, s, gc), GoTo(js, n, t, gc)>> \in A)
        <=> \E e \in js : <<GoTo(js, n, s, e.gc), GoTo(js, n, t, e.gc)>> \in A
  BY Zenon
<1> QED
  BY <1>1, <1>2, <1>3, <1>4, Zenon

LEMMA TellingEndings ==
  ASSUME NEW n \in Nat, NEW F
  PROVE  /\ Telling(Endings(n, F), n)
         /\ \A s, t \in 0 .. n :
              <<s, t>> \in Endings(n, F) <=> ((s \in F) # (t \in F))
<1>1. ASSUME NEW s \in 0 .. n, NEW t \in 0 .. n
      PROVE  <<s, t>> \in Endings(n, F) <=> ((s \in F) # (t \in F))
  <2>1. PICK p : p = <<s, t>>
    OBVIOUS
  <2>2. p[1] = s /\ p[2] = t /\ p \in (0 .. n) \X (0 .. n)
    BY <2>1
  <2>3. p \in Endings(n, F) <=> ((p[1] \in F) # (p[2] \in F))
    BY <2>2, Zenon DEF Endings
  <2> QED
    BY <2>1, <2>2, <2>3, Zenon
<1>2. Endings(n, F) \subseteq (0 .. n) \X (0 .. n)
  BY DEF Endings
<1>3. \A s \in 0 .. n : <<s, s>> \notin Endings(n, F)
  BY <1>1
<1>4. \A s, t \in 0 .. n : <<s, t>> \in Endings(n, F) => <<t, s>> \in Endings(n, F)
  BY <1>1
<1>5. \A s, t, u \in 0 .. n :
        <<s, u>> \in Endings(n, F)
          => <<s, t>> \in Endings(n, F) \/ <<t, u>> \in Endings(n, F)
  BY <1>1
<1> QED
  BY <1>1, <1>2, <1>3, <1>4, <1>5 DEF Telling

LEMMA TellingMore ==
  ASSUME NEW n \in Nat, NEW js, js \subseteq Jumps(n), NEW A, Telling(A, n)
  PROVE  Telling(ToldMore(n, js, A), n) /\ A \subseteq ToldMore(n, js, A)
<1>1. PICK D : D = ToldMore(n, js, A)
  OBVIOUS
<1>2. \A s, t \in 0 .. n :
        <<s, t>> \in D <=> <<s, t>> \in A \/ \E e \in js :
          <<GoTo(js, n, s, e.gc), GoTo(js, n, t, e.gc)>> \in A
  BY <1>1, ToldIs
<1>3. PICK g : g = [s \in 0 .. n |-> [e \in js |-> GoTo(js, n, s, e.gc)]]
  OBVIOUS
<1>4. \A s \in 0 .. n : \A e \in js : g[s][e] = GoTo(js, n, s, e.gc)
  BY <1>3
<1>5. \A s \in 0 .. n : \A e \in js : g[s][e] \in 0 .. n
  BY <1>4, GoToIs
<1>6. \A s, t \in 0 .. n :
        <<s, t>> \in D <=> <<s, t>> \in A \/ \E e \in js : <<g[s][e], g[t][e]>> \in A
  BY <1>2, <1>4
<1>7. /\ \A s \in 0 .. n : <<s, s>> \notin A
      /\ \A s, t \in 0 .. n : <<s, t>> \in A => <<t, s>> \in A
      /\ \A s, t, u \in 0 .. n : <<s, u>> \in A => <<s, t>> \in A \/ <<t, u>> \in A
  BY DEF Telling
<1>8. D \subseteq (0 .. n) \X (0 .. n) /\ A \subseteq D
  BY <1>1 DEF ToldMore, Telling
<1>9. \A s \in 0 .. n : <<s, s>> \notin D
  BY <1>5, <1>6, <1>7
<1>10. ASSUME NEW s \in 0 .. n, NEW t \in 0 .. n, <<s, t>> \in D
       PROVE  <<t, s>> \in D
  <2>1. CASE <<s, t>> \in A
    BY <1>6, <1>7, <2>1
  <2>2. CASE <<s, t>> \notin A
    <3>1. PICK e \in js : <<g[s][e], g[t][e]>> \in A
      BY <1>6, <1>10, <2>2
    <3>2. g[s][e] \in 0 .. n /\ g[t][e] \in 0 .. n
      BY <1>5
    <3>3. <<g[t][e], g[s][e]>> \in A
      BY <1>7, <3>1, <3>2
    <3> QED
      BY <1>6, <3>3
  <2> QED
    BY <2>1, <2>2
<1>11. ASSUME NEW s \in 0 .. n, NEW t \in 0 .. n, NEW u \in 0 .. n,
              <<s, u>> \in D
       PROVE  <<s, t>> \in D \/ <<t, u>> \in D
  <2>1. CASE <<s, u>> \in A
    BY <1>6, <1>7, <2>1
  <2>2. CASE <<s, u>> \notin A
    <3>1. PICK e \in js : <<g[s][e], g[u][e]>> \in A
      BY <1>6, <1>11, <2>2
    <3>2. g[s][e] \in 0 .. n /\ g[t][e] \in 0 .. n /\ g[u][e] \in 0 .. n
      BY <1>5
    <3>3. <<g[s][e], g[t][e]>> \in A \/ <<g[t][e], g[u][e]>> \in A
      BY <1>7, <3>1, <3>2
    <3> QED
      BY <1>6, <3>3
  <2> QED
    BY <2>1, <2>2
<1> QED
  BY <1>1, <1>8, <1>9, <1>10, <1>11 DEF Telling

(* A state has a first one that is not told apart from it.                 *)
LEMMA FirstLike ==
  ASSUME NEW n \in Nat, NEW A, Telling(A, n), NEW s \in 0 .. n
  PROVE  \E m \in Firsts(A, n) :
           <<m, s>> \notin A /\ \A y \in 0 .. n : y < m => <<y, s>> \in A
<1>1. PICK T : T = {y \in 0 .. n : <<y, s>> \notin A}
  OBVIOUS
<1>2. s \in T /\ T \subseteq Nat
  BY <1>1 DEF Telling
<1>3. PICK m \in T : \A y \in T : m <= y
  BY <1>2, FirstOf
<1>4. m \in 0 .. n /\ <<m, s>> \notin A
  BY <1>1
<1>5. \A y \in 0 .. n : y < m => <<y, s>> \in A
  BY <1>1, <1>3, <1>4
<1>6. \A y \in 0 .. n : y < m => <<y, m>> \in A
  BY <1>4, <1>5 DEF Telling
<1> QED
  BY <1>4, <1>5, <1>6 DEF Firsts

LEMMA FirstsMore ==
  ASSUME NEW n \in Nat, NEW A, Telling(A, n), NEW D, Telling(D, n),
         A \subseteq D, A # D
  PROVE  Firsts(A, n) \subseteq Firsts(D, n) /\ Firsts(A, n) # Firsts(D, n)
<1>1. Firsts(A, n) \subseteq Firsts(D, n)
  BY DEF Firsts
<1>2. PICK s \in 0 .. n, t \in 0 .. n : <<s, t>> \in D /\ <<s, t>> \notin A
  BY DEF Telling
<1>3. /\ \A x \in 0 .. n : <<x, x>> \notin A
      /\ \A x, y \in 0 .. n : <<x, y>> \in A => <<y, x>> \in A
      /\ \A x, y, u \in 0 .. n : <<x, u>> \in A => <<x, y>> \in A \/ <<y, u>> \in A
  BY DEF Telling
<1>4. /\ \A x, y \in 0 .. n : <<x, y>> \in D => <<y, x>> \in D
      /\ \A x, y, u \in 0 .. n : <<x, u>> \in D => <<x, y>> \in D \/ <<y, u>> \in D
  BY DEF Telling
<1>5. PICK m \in Firsts(A, n) :
        <<m, s>> \notin A /\ \A y \in 0 .. n : y < m => <<y, s>> \in A
  BY FirstLike
<1>6. m \in 0 .. n
  BY DEF Firsts
<1>7. PICK z \in 0 .. n : <<m, z>> \in D /\ <<m, z>> \notin A
  <2>1. CASE <<m, t>> \in D
    <3>1. <<m, t>> \notin A
      BY <1>2, <1>3, <1>5, <1>6
    <3> QED
      BY <2>1, <3>1
  <2>2. CASE <<m, t>> \notin D
    <3>1. <<s, m>> \in D
      BY <1>2, <1>4, <1>6, <2>2
    <3>2. <<m, s>> \in D
      BY <1>4, <1>6, <3>1
    <3> QED
      BY <1>5, <3>2
  <2> QED
    BY <2>1, <2>2
<1>8. PICK x \in Firsts(D, n) : <<x, z>> \notin D
  BY FirstLike
<1>9. x \in 0 .. n
  BY DEF Firsts
<1>10. <<x, z>> \notin A /\ <<z, x>> \notin A
  BY <1>3, <1>8, <1>9
<1>11. <<m, x>> \notin A /\ <<x, m>> \notin A
  BY <1>3, <1>6, <1>7, <1>9, <1>10
<1>12. ~(x < m)
  BY <1>3, <1>5, <1>6, <1>9, <1>11
<1>13. x # m
  BY <1>7, <1>8
<1>14. m < x
  BY <1>6, <1>9, <1>12, <1>13
<1>15. x \notin Firsts(A, n)
  BY <1>6, <1>9, <1>11, <1>14 DEF Firsts
<1> QED
  BY <1>1, <1>8, <1>15

(* After n rounds nothing more is told apart.                              *)
ToldBy(n, js, F, k) ==
  {A \in SUBSET ((0 .. n) \X (0 .. n)) :
     /\ Telling(A, n) /\ Endings(n, F) \subseteq A
     /\ ToldMore(n, js, A) = A \/ Cardinality(Firsts(A, n)) >= k + 1}

LEMMA ToldFirst ==
  ASSUME NEW n \in Nat, NEW js, NEW F
  PROVE  Endings(n, F) \in ToldBy(n, js, F, 0)
<1>1. PICK A, c : A = Endings(n, F) /\ c = Firsts(A, n)
  OBVIOUS
<1>2. Telling(A, n)
  BY <1>1, TellingEndings
<1>3. 0 \in c /\ c \subseteq 0 .. n
  BY <1>1 DEF Firsts
<1>4. Cardinality(c) >= 0 + 1
  <2>1. Cardinality({}) >= 0 /\ {} \subseteq c /\ {} # c
    BY <1>3, FS_EmptySet
  <2>2. 0 \in Nat
    OBVIOUS
  <2> QED
    BY <1>3, <2>1, <2>2, CountMore
<1>5. A \subseteq (0 .. n) \X (0 .. n)
  BY <1>2 DEF Telling
<1> QED
  BY <1>1, <1>2, <1>4, <1>5 DEF ToldBy

LEMMA ToldNext ==
  ASSUME NEW n \in Nat, NEW js, js \subseteq Jumps(n), NEW F,
         NEW j \in Nat, NEW k, k = j + 1, NEW A \in ToldBy(n, js, F, j)
  PROVE  ToldMore(n, js, A) \in ToldBy(n, js, F, k)
<1>1. PICK D : D = ToldMore(n, js, A)
  OBVIOUS
<1>2. /\ Telling(A, n) /\ Endings(n, F) \subseteq A
      /\ D = A \/ Cardinality(Firsts(A, n)) >= j + 1
  BY <1>1 DEF ToldBy
<1>3. Telling(D, n) /\ A \subseteq D
  BY <1>1, <1>2, TellingMore
<1>4. ToldMore(n, js, D) = D \/ Cardinality(Firsts(D, n)) >= k + 1
  <2>1. CASE D = A
    BY <1>1, <2>1
  <2>2. CASE D # A
    <3>1. PICK S, T : S = Firsts(A, n) /\ T = Firsts(D, n)
      OBVIOUS
    <3>2. S \subseteq T /\ S # T
      BY <1>2, <1>3, <2>2, <3>1, FirstsMore
    <3>3. T \subseteq 0 .. n /\ k \in Nat /\ Cardinality(S) >= k
      BY <1>2, <2>2, <3>1 DEF Firsts
    <3>4. Cardinality(T) >= k + 1
      BY ONLY n \in Nat, <3>2, <3>3, CountMore
    <3> QED
      BY <3>1, <3>4
  <2> QED
    BY <2>1, <2>2
<1>5. D \subseteq (0 .. n) \X (0 .. n) /\ Endings(n, F) \subseteq D
  BY <1>2, <1>3 DEF Telling
<1> QED
  BY <1>1, <1>3, <1>4, <1>5 DEF ToldBy

LEMMA ToldAll ==
  ASSUME NEW n \in Nat, NEW js, js \subseteq Jumps(n), NEW F,
         NEW A \in ToldBy(n, js, F, n)
  PROVE  ToldMore(n, js, A) = A
<1>1. Telling(A, n)
  BY DEF ToldBy
<1>2. SUFFICES ASSUME Cardinality(Firsts(A, n)) >= n + 1
               PROVE  ToldMore(n, js, A) \subseteq A
  BY <1>1, TellingMore DEF ToldBy
<1>3. Firsts(A, n) = 0 .. n
  <2>1. PICK c : c = Firsts(A, n)
    OBVIOUS
  <2>2. c \subseteq 0 .. n /\ Cardinality(c) >= n + 1
    BY <1>2, <2>1 DEF Firsts
  <2> QED
    BY <2>1, <2>2, CountAll
<1>4. \A x, y \in 0 .. n : x # y => <<x, y>> \in A
  <2>1. \A x, y \in 0 .. n : y < x => <<y, x>> \in A
    BY <1>3 DEF Firsts
  <2>2. \A x, y \in 0 .. n : <<x, y>> \in A => <<y, x>> \in A
    BY <1>1 DEF Telling
  <2>3. \A x, y \in 0 .. n : x = y \/ x < y \/ y < x
    OBVIOUS
  <2> QED
    BY <2>1, <2>2, <2>3
<1>5. ASSUME NEW s \in 0 .. n, NEW t \in 0 .. n, <<s, t>> \in ToldMore(n, js, A)
      PROVE  <<s, t>> \in A
  <2>1. CASE s = t
    <3>1. ASSUME NEW e \in js PROVE <<GoTo(js, n, s, e.gc), GoTo(js, n, t, e.gc)>> \notin A
      <4>1. PICK u : u = GoTo(js, n, s, e.gc)
        OBVIOUS
      <4>2. u \in 0 .. n
        BY <4>1, GoToIs
      <4>3. <<u, u>> \notin A
        BY <1>1, <4>2 DEF Telling
      <4> QED
        BY <2>1, <4>1, <4>3
    <3> QED
      BY <1>5, <3>1, ToldIs
  <2>2. CASE s # t
    BY <1>4, <2>2
  <2> QED
    BY <2>1, <2>2
<1>6. \A p \in ToldMore(n, js, A) : \E s, t \in 0 .. n : p = <<s, t>>
  BY <1>1 DEF ToldMore, Telling
<1> QED
  BY <1>5, <1>6

LEMMA ApartExists ==
  ASSUME NEW n \in Nat, NEW js, js \subseteq Jumps(n), NEW F
  PROVE  /\ \E f : IsApart(n, js, F, f)
         /\ \A f : IsApart(n, js, F, f) => f[n] \in ToldBy(n, js, F, n)
<1>1. PICK z, X : z = 0 /\ X = [k \in z .. n |-> ToldBy(n, js, F, k)]
  OBVIOUS
<1>2. z \in Nat /\ z \in z .. n /\ n \in z .. n
  BY <1>1
<1>3. PICK b : b = Endings(n, F)
  OBVIOUS
<1>4. b \in X[z]
  BY <1>1, <1>2, <1>3, ToldFirst
<1>5. ASSUME NEW k \in z + 1 .. n, NEW A \in X[k - 1]
      PROVE  ToldMore(n, js, A) \in X[k]
  <2>1. PICK j : j = k - 1
    OBVIOUS
  <2>2. j \in Nat /\ k = j + 1 /\ j \in z .. n /\ k \in z .. n
    BY <1>1, <2>1
  <2>3. A \in ToldBy(n, js, F, j)
    BY <1>1, <2>1, <2>2
  <2>4. ToldMore(n, js, A) \in ToldBy(n, js, F, k)
    BY <2>2, <2>3, ToldNext
  <2> QED
    BY <1>1, <2>2, <2>4
<1>6. \E f : IsApart(n, js, F, f)
  <2>1. PICK G : G = [k \in z .. n |-> [A \in X[k - 1] |-> ToldMore(n, js, A)]]
    OBVIOUS
  <2>2. \A k \in z + 1 .. n : \A A \in X[k - 1] : G[k][A] = ToldMore(n, js, A)
    <3>1. \A k \in z + 1 .. n : k \in z .. n
      BY <1>1
    <3> QED
      BY <2>1, <3>1
  <2>3. \A k \in z + 1 .. n : \A A \in X[k - 1] : G[k][A] \in X[k]
    <3>1. ASSUME NEW k \in z + 1 .. n, NEW A \in X[k - 1]
          PROVE  G[k][A] \in X[k]
      <4>1. G[k][A] = ToldMore(n, js, A)
        BY <2>2, <3>1
      <4> QED
        BY <1>5, <3>1, <4>1
    <3> QED
      BY <3>1
  <2>4. PICK f : Steps(f, G, b, z, n) /\ \A k \in z .. n : f[k] \in X[k]
    <3>1. \E f : Steps(f, G, b, z, n) /\ \A k \in z .. n : f[k] \in X[k]
      BY ONLY n \in Nat, <1>2, <1>4, <2>3, StepsExist
    <3> QED
      BY <3>1
  <2>5. ASSUME NEW k \in z .. n
        PROVE  f[k] = IF k = 0 THEN Endings(n, F) ELSE ToldMore(n, js, f[k - 1])
    <3>1. f[k] = IF k = z THEN b ELSE G[k][f[k - 1]]
      BY <2>4 DEF Steps
    <3>2. k # z => k \in z + 1 .. n /\ k - 1 \in z .. n
      BY <1>1
    <3> QED
      BY <1>1, <1>3, <2>2, <2>4, <3>1, <3>2
  <2>6. f = [k \in z .. n |-> f[k]]
    BY <2>4 DEF Steps
  <2>7. \A k \in 0 .. n :
          f[k] = IF k = 0 THEN Endings(n, F) ELSE ToldMore(n, js, f[k - 1])
    BY <1>1, <2>5, Zenon
  <2>8. f = [k \in 0 .. n |-> f[k]]
    BY <1>1, <2>6, Zenon
  <2>9. IsApart(n, js, F, f)
    BY <2>7, <2>8, Zenon DEF IsApart
  <2> QED
    BY <2>9
<1>7. ASSUME NEW f, IsApart(n, js, F, f) PROVE f[n] \in ToldBy(n, js, F, n)
  <2>1. ASSUME NEW k \in z .. n, \A j \in z .. k - 1 : f[j] \in X[j]
        PROVE  f[k] \in X[k]
    <3>1. f[k] = IF k = 0 THEN Endings(n, F) ELSE ToldMore(n, js, f[k - 1])
      BY <1>1, <1>7 DEF IsApart
    <3>2. CASE k = z
      BY <1>1, <1>3, <1>4, <3>1, <3>2
    <3>3. CASE k # z
      <4>1. k \in z + 1 .. n /\ k - 1 \in z .. k - 1 /\ k # 0
        BY <1>1, <3>3
      <4> QED
        BY <1>5, <2>1, <3>1, <4>1
    <3> QED
      BY <3>2, <3>3
  <2>2. \A k \in z .. n : f[k] \in X[k]
    BY <1>2, <2>1, RecursionTyped
  <2> QED
    BY <1>1, <1>2, <2>2
<1> QED
  BY <1>6, <1>7

(* States that are not told apart end words alike and go to such states.   *)
LEMMA ApartIs ==
  ASSUME NEW n \in Nat, NEW js, js \subseteq Jumps(n), NEW F,
         NEW A, A = Apart(n, js, F), NEW s \in 0 .. n, NEW t \in 0 .. n,
         <<s, t>> \notin A
  PROVE  /\ s \in F <=> t \in F
         /\ \A e \in js : <<GoTo(js, n, s, e.gc), GoTo(js, n, t, e.gc)>> \notin A
         /\ \A r \in 0 .. n : <<r, r>> \notin A
<1>1. PICK f : f = CHOOSE g : IsApart(n, js, F, g)
  OBVIOUS
<1>2. IsApart(n, js, F, f) /\ f[n] \in ToldBy(n, js, F, n)
  <2>1. \E g : IsApart(n, js, F, g)
    BY ApartExists
  <2>2. IsApart(n, js, F, f)
    BY <1>1, <2>1, Zenon
  <2> QED
    BY <2>2, ApartExists
<1>3. A = f[n]
  BY <1>1, Zenon DEF Apart, IsApart, Endings, ToldMore, GoTo
<1>4. Endings(n, F) \subseteq A /\ ToldMore(n, js, A) = A
  BY <1>2, <1>3, ToldAll DEF ToldBy
<1>5. s \in F <=> t \in F
  BY <1>4, TellingEndings
<1>6. \A e \in js : <<GoTo(js, n, s, e.gc), GoTo(js, n, t, e.gc)>> \notin A
  BY <1>4, ToldIs
<1>7. \A r \in 0 .. n : <<r, r>> \notin A
  BY <1>2, <1>3 DEF ToldBy, Telling
<1> QED
  BY <1>5, <1>6, <1>7

-----------------------------------------------------------------------------
(* A set that is never left.                                               *)
Forth(E, T) == \A e \in E : e.from \in T => e.to \in T

LeadFrom(E, n) == \A T \in SUBSET Nat : 0 \in T /\ Forth(E, T) => 0 .. n - 1 \subseteq T

(* Where the jumps lead, one turn after another.                           *)
Gone(js, S) == S \cup {e.to : e \in {f \in js : f.from \in S}}
IsReach(n, js, f) ==
  f = [k \in 0 .. n |-> IF k = 0 THEN {0} ELSE Gone(js, f[k - 1])]

GoneBy(n, js, k) ==
  {S \in SUBSET (0 .. n - 1) : /\ 0 \in S
                               /\ Forth(js, S) \/ Cardinality(S) >= k + 1}

LEMMA GoneIs ==
  ASSUME NEW js, NEW S
  PROVE  S \subseteq Gone(js, S) /\ (Forth(js, S) <=> Gone(js, S) = S)
BY DEF Gone, Forth

LEMMA GoneFirst ==
  ASSUME NEW n \in Nat, n > 0, NEW js
  PROVE  {0} \in GoneBy(n, js, 0)
<1>1. PICK c : c = {0}
  OBVIOUS
<1>2. 0 \in c /\ c \subseteq 0 .. n - 1 /\ c \subseteq 0 .. n /\ 0 \in Nat
  BY <1>1
<1>3. Cardinality({}) >= 0 /\ {} \subseteq c /\ {} # c
  BY <1>2, FS_EmptySet
<1>4. Cardinality(c) >= 0 + 1
  BY <1>2, <1>3, CountMore
<1> QED
  BY <1>1, <1>2, <1>4 DEF GoneBy

LEMMA GoneNext ==
  ASSUME NEW n \in Nat, NEW js, js \subseteq Jumps(n),
         NEW j \in Nat, NEW k, k = j + 1, NEW S \in GoneBy(n, js, j)
  PROVE  Gone(js, S) \in GoneBy(n, js, k)
<1>1. PICK T : T = Gone(js, S)
  OBVIOUS
<1>2. /\ S \subseteq T /\ 0 \in S /\ S \subseteq 0 .. n - 1
      /\ Forth(js, S) \/ Cardinality(S) >= j + 1
      /\ Forth(js, S) <=> T = S
  BY <1>1, GoneIs DEF GoneBy
<1>3. T \subseteq 0 .. n - 1 /\ T \subseteq 0 .. n
  <2>1. \A e \in js : e.to \in 0 .. n - 1
    BY DEF Jumps
  <2>2. 0 .. n - 1 \subseteq 0 .. n
    OBVIOUS
  <2> QED
    BY <1>1, <1>2, <2>1, <2>2 DEF Gone
<1>4. Forth(js, T) \/ Cardinality(T) >= k + 1
  <2>1. CASE T = S
    BY <1>2, <2>1
  <2>2. CASE T # S
    <3>1. k \in Nat /\ Cardinality(S) >= k
      BY <1>2, <2>2
    <3>2. Cardinality(T) >= k + 1
      BY ONLY n \in Nat, <1>2, <1>3, <2>2, <3>1, CountMore
    <3> QED
      BY <3>2
  <2> QED
    BY <2>1, <2>2
<1> QED
  BY <1>1, <1>2, <1>3, <1>4 DEF GoneBy

LEMMA ReachExists ==
  ASSUME NEW n \in Nat, n > 0, NEW js, js \subseteq Jumps(n)
  PROVE  /\ \E f : IsReach(n, js, f)
         /\ \A f : IsReach(n, js, f) => f[n] \in GoneBy(n, js, n)
<1>1. PICK z, X : z = 0 /\ X = [k \in z .. n |-> GoneBy(n, js, k)]
  OBVIOUS
<1>2. z \in Nat /\ z \in z .. n /\ n \in z .. n
  BY <1>1
<1>3. PICK b : b = {0}
  OBVIOUS
<1>4. b \in X[z]
  BY <1>1, <1>2, <1>3, GoneFirst
<1>5. ASSUME NEW k \in z + 1 .. n, NEW S \in X[k - 1]
      PROVE  Gone(js, S) \in X[k]
  <2>1. PICK j : j = k - 1
    OBVIOUS
  <2>2. j \in Nat /\ k = j + 1 /\ j \in z .. n /\ k \in z .. n
    BY <1>1, <2>1
  <2>3. S \in GoneBy(n, js, j)
    BY <1>1, <2>1, <2>2
  <2>4. Gone(js, S) \in GoneBy(n, js, k)
    BY <2>2, <2>3, GoneNext
  <2> QED
    BY <1>1, <2>2, <2>4
<1>6. \E f : IsReach(n, js, f)
  <2>1. PICK G : G = [k \in z .. n |-> [S \in X[k - 1] |-> Gone(js, S)]]
    OBVIOUS
  <2>2. \A k \in z + 1 .. n : \A S \in X[k - 1] : G[k][S] = Gone(js, S)
    <3>1. \A k \in z + 1 .. n : k \in z .. n
      BY <1>1
    <3> QED
      BY <2>1, <3>1
  <2>3. \A k \in z + 1 .. n : \A S \in X[k - 1] : G[k][S] \in X[k]
    <3>1. ASSUME NEW k \in z + 1 .. n, NEW S \in X[k - 1]
          PROVE  G[k][S] \in X[k]
      <4>1. G[k][S] = Gone(js, S)
        BY <2>2, <3>1
      <4> QED
        BY <1>5, <3>1, <4>1
    <3> QED
      BY <3>1
  <2>4. PICK f : Steps(f, G, b, z, n) /\ \A k \in z .. n : f[k] \in X[k]
    <3>1. \E f : Steps(f, G, b, z, n) /\ \A k \in z .. n : f[k] \in X[k]
      BY ONLY n \in Nat, <1>2, <1>4, <2>3, StepsExist
    <3> QED
      BY <3>1
  <2>5. ASSUME NEW k \in z .. n
        PROVE  f[k] = IF k = 0 THEN {0} ELSE Gone(js, f[k - 1])
    <3>1. f[k] = IF k = z THEN b ELSE G[k][f[k - 1]]
      BY <2>4 DEF Steps
    <3>2. k # z => k \in z + 1 .. n /\ k - 1 \in z .. n
      BY <1>1
    <3> QED
      BY <1>1, <1>3, <2>2, <2>4, <3>1, <3>2
  <2>6. f = [k \in z .. n |-> f[k]]
    BY <2>4 DEF Steps
  <2>7. \A k \in 0 .. n : f[k] = IF k = 0 THEN {0} ELSE Gone(js, f[k - 1])
    BY <1>1, <2>5, Zenon
  <2>8. f = [k \in 0 .. n |-> f[k]]
    BY <1>1, <2>6, Zenon
  <2>9. IsReach(n, js, f)
    BY <2>7, <2>8, Zenon DEF IsReach
  <2> QED
    BY <2>9
<1>7. ASSUME NEW f, IsReach(n, js, f) PROVE f[n] \in GoneBy(n, js, n)
  <2>1. ASSUME NEW k \in z .. n, \A j \in z .. k - 1 : f[j] \in X[j]
        PROVE  f[k] \in X[k]
    <3>1. f[k] = IF k = 0 THEN {0} ELSE Gone(js, f[k - 1])
      BY <1>1, <1>7 DEF IsReach
    <3>2. CASE k = z
      BY <1>1, <1>3, <1>4, <3>1, <3>2
    <3>3. CASE k # z
      <4>1. k \in z + 1 .. n /\ k - 1 \in z .. k - 1 /\ k # 0
        BY <1>1, <3>3
      <4> QED
        BY <1>5, <2>1, <3>1, <4>1
    <3> QED
      BY <3>2, <3>3
  <2>2. \A k \in z .. n : f[k] \in X[k]
    BY <1>2, <2>1, RecursionTyped
  <2> QED
    BY <1>1, <1>2, <2>2
<1> QED
  BY <1>6, <1>7

(* After as many turns as there are states, none is left out that a jump   *)
(* leads to.                                                               *)
LEMMA ReachIs ==
  ASSUME NEW n \in Nat, n > 0, NEW js, js \subseteq Jumps(n), LeadFrom(js, n),
         NEW f, f = CHOOSE g : IsReach(n, js, g)
  PROVE  f[n] = 0 .. n - 1
<1>1. IsReach(n, js, f) /\ f[n] \in GoneBy(n, js, n)
  <2>1. \E g : IsReach(n, js, g)
    BY ReachExists
  <2>2. IsReach(n, js, f)
    BY <2>1, Zenon
  <2> QED
    BY <2>2, ReachExists
<1>2. PICK S : S = f[n]
  OBVIOUS
<1>4. 0 \in S /\ S \subseteq 0 .. n - 1 /\ (Forth(js, S) \/ Cardinality(S) >= n + 1)
  BY <1>1, <1>2 DEF GoneBy
<1>5. Forth(js, S)
  <2>1. CASE Cardinality(S) >= n + 1
    <3>1. S \subseteq 0 .. n /\ n \notin S
      BY <1>4
    <3>2. S = 0 .. n
      BY <2>1, <3>1, CountAll
    <3> QED
      BY <3>1, <3>2
  <2> QED
    BY <1>4, <2>1
<1>6. 0 .. n - 1 \subseteq S
  <2>1. S \in SUBSET Nat
    BY <1>4
  <2> QED
    BY <1>4, <1>5, <2>1 DEF LeadFrom
<1> QED
  BY <1>2, <1>4, <1>6

-----------------------------------------------------------------------------
(* What a buffer of commands means: the words of every command of it, of   *)
(* those of its operands.                                                  *)

(* The words of a multiconcat, a letter of every operand.                  *)
Row(b, first, last) ==
  {w \in Strings : /\ Len(w) = last - first + 1
                   /\ \A j \in 1 .. Len(w) : w[j] \in Letters(b[first + j - 1])}

Told(b, com, L) ==
  CASE com.kind = "or"          -> L[com.first] \cup L[com.second]
    [] com.kind = "concat"      -> Cat(L[com.first], L[com.second])
    [] com.kind = "Kleene"      -> Star(L[com.first])
    [] com.kind = "positive"    -> Cat(L[com.first], Star(L[com.first]))
    [] com.kind = "optional"    -> L[com.first] \cup {<<>>}
    [] com.kind = "multiconcat" -> Row(b, com.first, com.second)
    [] OTHER                    -> LettersWords(Letters(com))

Meaning(b, L) ==
  \A i \in 1 .. Len(b) : L[i] \subseteq Strings /\ L[i] = Told(b, b[i], L)

LEMMA SplitLast ==
  ASSUME NEW S, NEW w \in Seq(S), NEW n \in Nat, Len(w) = n + 1
  PROVE  \E u \in Seq(S) : \E x \in S :
           /\ w = u \o <<x>> /\ Len(u) = n /\ w[n + 1] = x
           /\ \A j \in 1 .. n : w[j] = u[j]
<1>1. PICK u : u = SubSeq(w, 1, n)
  OBVIOUS
<1>2. u \in Seq(S) /\ Len(u) = n /\ \A j \in 1 .. n : w[j] = u[j]
  BY <1>1
<1>3. w[n + 1] \in S
  OBVIOUS
<1>4. w = u \o <<w[n + 1]>>
  BY <1>2
<1> QED
  BY <1>2, <1>3, <1>4

LEMMA AddLast ==
  ASSUME NEW S, NEW u \in Seq(S), NEW x \in S
  PROVE  /\ u \o <<x>> \in Seq(S) /\ Len(u \o <<x>>) = Len(u) + 1
         /\ (u \o <<x>>)[Len(u) + 1] = x
         /\ \A j \in 1 .. Len(u) : (u \o <<x>>)[j] = u[j]
OBVIOUS

LEMMA RowOne ==
  ASSUME NEW b, NEW k \in Nat, Letters(b[k]) \subseteq Gen_chars
  PROVE  Row(b, k, k) = LettersWords(Letters(b[k]))
<1>1. ASSUME NEW w \in Row(b, k, k)
      PROVE  w \in LettersWords(Letters(b[k]))
  <2>1. w \in Seq(Gen_chars) /\ Len(w) = 1 /\ w[1] \in Letters(b[k])
    <3>1. /\ w \in Seq(Gen_chars) /\ Len(w) = k - k + 1
          /\ \A j \in 1 .. Len(w) : w[j] \in Letters(b[k + j - 1])
      BY DEF Row, Strings
    <3>2. k - k + 1 = 1 /\ k + 1 - 1 = k
      OBVIOUS
    <3> QED
      BY <3>1, <3>2
  <2>2. w = <<w[1]>>
    BY <2>1
  <2> QED
    BY <2>1, <2>2 DEF LettersWords
<1>2. ASSUME NEW gc \in Letters(b[k])
      PROVE  <<gc>> \in Row(b, k, k)
  <2>1. <<gc>> \in Strings /\ Len(<<gc>>) = 1
    BY LetterWord
  <2>2. k - k + 1 = 1 /\ \A j \in 1 .. 1 : k + j - 1 = k /\ j = 1
    OBVIOUS
  <2>3. \A j \in 1 .. 1 : <<gc>>[j] \in Letters(b[k + j - 1])
    BY <2>2
  <2> QED
    BY <2>1, <2>2, <2>3 DEF Row
<1> QED
  BY <1>1, <1>2 DEF LettersWords

LEMMA RowMore ==
  ASSUME NEW b, NEW first \in Nat, NEW k \in Nat, first < k,
         Letters(b[k]) \subseteq Gen_chars
  PROVE  Row(b, first, k)
           = Cat(Row(b, first, k - 1), LettersWords(Letters(b[k])))
<1>1. PICK n \in Nat : n = k - first
  OBVIOUS
<1>2. (k - 1) - first + 1 = n /\ k - first + 1 = n + 1 /\ first + (n + 1) - 1 = k
  BY <1>1
<1>3. LettersWords(Letters(b[k])) \subseteq Strings
  BY LetterWord DEF LettersWords
<1>4. ASSUME NEW w \in Row(b, first, k)
      PROVE  w \in Cat(Row(b, first, k - 1), LettersWords(Letters(b[k])))
  <2>1. /\ w \in Seq(Gen_chars) /\ Len(w) = n + 1
        /\ \A j \in 1 .. n + 1 : w[j] \in Letters(b[first + j - 1])
    BY <1>2 DEF Row, Strings
  <2>2. PICK u \in Seq(Gen_chars), x \in Gen_chars :
          /\ w = u \o <<x>> /\ Len(u) = n /\ w[n + 1] = x
          /\ \A j \in 1 .. n : w[j] = u[j]
    BY <2>1, SplitLast
  <2>3. \A j \in 1 .. n : j \in 1 .. n + 1
    OBVIOUS
  <2>4. \A j \in 1 .. Len(u) : u[j] \in Letters(b[first + j - 1])
    BY <2>1, <2>2, <2>3
  <2>5. u \in Row(b, first, k - 1)
    BY <2>2, <2>4, <1>2 DEF Row, Strings
  <2>6. n + 1 \in 1 .. n + 1
    OBVIOUS
  <2>7. x \in Letters(b[k])
    BY <2>1, <2>2, <2>6, <1>2
  <2> QED
    BY <2>1, <2>2, <2>5, <2>7 DEF Cat, LettersWords, Strings
<1>5. ASSUME NEW w \in Cat(Row(b, first, k - 1), LettersWords(Letters(b[k])))
      PROVE  w \in Row(b, first, k)
  <2>1. PICK u \in Row(b, first, k - 1), v \in LettersWords(Letters(b[k])) :
          w = u \o v
    BY DEF Cat
  <2>2. PICK x \in Letters(b[k]) : v = <<x>>
    BY DEF LettersWords
  <2>3. /\ u \in Seq(Gen_chars) /\ Len(u) = n /\ x \in Gen_chars
        /\ \A j \in 1 .. n : u[j] \in Letters(b[first + j - 1])
    BY <1>2 DEF Row, Strings
  <2>4. /\ w \in Seq(Gen_chars) /\ Len(w) = n + 1 /\ w[n + 1] = x
        /\ \A j \in 1 .. n : w[j] = u[j]
    BY <2>1, <2>2, <2>3, AddLast
  <2>5. ASSUME NEW j \in 1 .. n + 1 PROVE w[j] \in Letters(b[first + j - 1])
    <3>1. CASE j = n + 1
      BY <3>1, <2>4, <1>2
    <3>2. CASE j # n + 1
      <4>1. j \in 1 .. n
        BY <3>2
      <4> QED
        BY <4>1, <2>3, <2>4
    <3> QED
      BY <3>1, <3>2
  <2> QED
    BY <2>4, <2>5, <1>2 DEF Row, Strings
<1> QED
  BY <1>4, <1>5

(* The letters of a command that has some.                                 *)
LEMMA LettersAre ==
  ASSUME NEW com \in UnwrappedCommands
  PROVE  Letters(com) \subseteq Gen_chars
<1>1. com.s \subseteq Gen_chars
  BY DEF UnwrappedCommands, Gen_chars
<1>2. CASE com.kind = "ndq"
  BY <1>2, Zenon DEF Letters, Gen_chars
<1>3. CASE com.kind = "nsq"
  BY <1>3, Zenon DEF Letters, Gen_chars
<1>4. CASE com.kind \notin {"ndq", "nsq"}
  <2>1. Letters(com) = com.s
    BY <1>4, Zenon DEF Letters
  <2> QED
    BY <1>1, <2>1
<1> QED
  BY <1>2, <1>3, <1>4

(* What every generator of automata is.                                    *)
Makes(g, X) == \A m \in Nat : Neat(g[m], m) /\ Accepts(g[m]) = X

(* The automaton of a character or of a set of them.                       *)
LEMMA SimpleAccepts ==
  ASSUME NEW b, NEW i, InPlace(b, i), b[i] \in UnwrappedCommands,
         b[i].kind \in Simple, NEW gen, NEW n \in Nat
  PROVE  /\ Neat(generate_NDFA_for_command(b[i], gen, n), n)
         /\ Accepts(generate_NDFA_for_command(b[i], gen, n))
              = LettersWords(Letters(b[i]))
<1>1. PICK com : com = b[i]
  OBVIOUS
<1>2. com.s \subseteq Chars /\ com.action_name \in Nat
  BY <1>1 DEF UnwrappedCommands
<1>3. CASE com.kind = "multior"
  <2>1. generate_NDFA_for_command(com, gen, n) = multior_builder(com, n)
    BY <1>3, Zenon DEF generate_NDFA_for_command
  <2>2. Letters(com) = com.s
    BY <1>3, Zenon DEF Letters
  <2>3. com.s # {}
    BY <1>1, <1>3 DEF InPlace, Placed
  <2> QED
    BY <1>1, <1>2, <2>1, <2>2, <2>3, MultiorAccepts
<1>4. CASE com.kind \in {"char_def", "ndq", "nsq"}
  <2>1. PICK gc : gc = CHOOSE x \in Letters(com) : TRUE
    OBVIOUS
  <2>2. gc \in Gen_chars
    BY <1>1, <1>4, <2>1, LetterOf
  <2>3. generate_NDFA_for_command(com, gen, n)
          = char_def_builder(gc, com.action_name, n)
    BY <1>4, <2>1, Zenon DEF generate_NDFA_for_command
  <2>4. \E x : Letters(com) = {x}
    <3>1. CASE com.kind = "ndq"
      BY <3>1, Zenon DEF Letters
    <3>2. CASE com.kind = "nsq"
      BY <3>2, Zenon DEF Letters
    <3>3. CASE com.kind = "char_def"
      <4>1. PICK c \in Chars : com.s = {c}
        BY <1>1, <3>3 DEF InPlace, Placed
      <4> QED
        BY <3>3, <4>1, Zenon DEF Letters
    <3> QED
      BY <1>4, <3>1, <3>2, <3>3
  <2>5. Letters(com) = {gc}
    BY <2>1, <2>4
  <2>6. LettersWords(Letters(com)) = {<<gc>>}
    BY <2>5 DEF LettersWords
  <2> QED
    BY <1>1, <1>2, <2>2, <2>3, <2>6, CharAccepts
<1> QED
  BY <1>1, <1>3, <1>4 DEF Simple

LEMMA MulticoncatAccepts ==
  ASSUME NEW n \in Nat, NEW first \in Nat, NEW last \in Nat, first <= last,
         NEW b, NEW gs, \A k \in first .. last : Letters(b[k]) \subseteq Gen_chars,
         \A k \in first .. last : Makes(gs[k], LettersWords(Letters(b[k]))),
         NEW c, c = multiconcat_builder(gs, first, last, n)
  PROVE  Neat(c, n) /\ Accepts(c) = Row(b, first, last)
<1>1. \A k \in first .. last : SpansAll(gs[k])
  BY DEF Makes, Neat, SpansAll
<1>2. PICK f : f = CHOOSE g : IsChain(gs, first, last, n, g)
  OBVIOUS
<1>3. IsChain(gs, first, last, n, f)
  BY <1>1, <1>2, ChainExists, Zenon
<1>4. c = f[last]
  BY <1>2, Zenon DEF multiconcat_builder, IsChain
<1>5. PICK X : X = [k \in first .. last |->
                      {a \in {f[k]} :
                         Neat(a, n) /\ Accepts(a) = Row(b, first, k)}]
  OBVIOUS
<1>6. ASSUME NEW k \in first .. last, \A j \in first .. k - 1 : f[j] \in X[j]
      PROVE  f[k] \in X[k]
  <2>1. k \in Nat
    OBVIOUS
  <2>2. CASE k = first
    <3>1. f[k] = gs[k][n]
      BY <2>2, <1>3 DEF IsChain
    <3>2. Neat(f[k], n) /\ Accepts(f[k]) = LettersWords(Letters(b[k]))
      BY <3>1 DEF Makes
    <3>3. Accepts(f[k]) = Row(b, first, k)
      BY <3>2, <2>1, <2>2, RowOne
    <3> QED
      BY <1>5, <3>2, <3>3
  <2>3. CASE k # first
    <3>1. PICK j : j = k - 1
      OBVIOUS
    <3>2. j \in first .. k - 1 /\ j \in first .. last /\ first < k
      BY <3>1, <2>1, <2>3
    <3>3. PICK a : a = f[j]
      OBVIOUS
    <3>4. Neat(a, n) /\ Accepts(a) = Row(b, first, j)
      BY <1>5, <1>6, <3>2, <3>3
    <3>5. a.final_state \in Nat
      BY <3>4, SpansWithin DEF Neat
    <3>6. PICK d : d = gs[k][a.final_state]
      OBVIOUS
    <3>7. Neat(d, a.final_state) /\ Accepts(d) = LettersWords(Letters(b[k]))
      BY <3>5, <3>6 DEF Makes
    <3>8. f[k] = concat_builder(a, d, n)
      BY <1>3, <2>3, <3>1, <3>3, <3>6 DEF IsChain
    <3>9. Neat(f[k], n) /\ Accepts(f[k]) = Cat(Accepts(a), Accepts(d))
      BY <3>4, <3>7, <3>8, ConcatAccepts
    <3>10. Accepts(f[k]) = Row(b, first, k)
      BY <3>9, <3>4, <3>7, <3>1, <3>2, <2>1, RowMore
    <3> QED
      BY <1>5, <3>9, <3>10
  <2> QED
    BY <2>2, <2>3
<1>7. \A k \in first .. last : f[k] \in X[k]
  BY <1>6, RecursionTyped
<1>8. last \in first .. last
  OBVIOUS
<1> QED
  BY <1>4, <1>5, <1>7, <1>8

LEMMA ToldSimple ==
  ASSUME NEW b, NEW com, com.kind \in Simple, NEW L
  PROVE  Told(b, com, L) = LettersWords(Letters(com))
<1>1. CASE com.kind = "char_def"
  BY <1>1, Zenon DEF Told
<1>2. CASE com.kind = "multior"
  BY <1>2, Zenon DEF Told
<1>3. CASE com.kind = "ndq"
  BY <1>3, Zenon DEF Told
<1>4. CASE com.kind = "nsq"
  BY <1>4, Zenon DEF Told
<1> QED
  BY <1>1, <1>2, <1>3, <1>4 DEF Simple

LEMMA MakesStep ==
  ASSUME NEW b, Complete(b), NEW i \in 1 .. Len(b), NEW gen, NEW L,
         \A j \in 1 .. i - 1 : Makes(gen[j], L[j]),
         \A j \in 1 .. i - 1 : L[j] = Told(b, b[j], L), NEW n \in Nat,
         NEW c, c = generate_NDFA_for_command(b[i], gen, n)
  PROVE  Neat(c, n) /\ Accepts(c) = Told(b, b[i], L)
<1>1. PICK com : com = b[i]
  OBVIOUS
<1>2. /\ com \in UnwrappedCommands /\ InPlace(b, i)
      /\ i \in Nat /\ i >= 1 /\ \A j \in 1 .. i - 1 : b[j] \in UnwrappedCommands
  <2>1. Len(b) \in Nat /\ i \in DOMAIN b /\ \A j \in 1 .. i - 1 : j \in DOMAIN b
    BY DEF Complete
  <2> QED
    BY <1>1, <2>1 DEF Complete
<1>3. /\ com.kind \in Binary \cup Unary \cup Simple \cup {"multiconcat"}
      /\ com.action_name \in Nat /\ com.s \subseteq Chars
      /\ com.first \in Nat /\ com.second \in Nat
  BY <1>2, Zenon DEF UnwrappedCommands, Simple
<1>4. PICK m : m = n + 1
  OBVIOUS
<1>5. m \in Nat
  BY <1>4
<1>6. ASSUME com.first \in 1 .. i - 1
      PROVE  /\ Neat(gen[com.first][n], n)
             /\ Accepts(gen[com.first][n]) = L[com.first]
             /\ Neat(gen[com.first][m], m)
             /\ Accepts(gen[com.first][m]) = L[com.first]
  BY <1>5, <1>6 DEF Makes
<1>7. CASE com.kind = "or"
  <2>1. com.first \in 1 .. i - 1 /\ com.second \in 1 .. i - 1
    BY <1>1, <1>2, <1>7 DEF InPlace, Placed, Binary
  <2>2. PICK a : a = gen[com.first][m]
    OBVIOUS
  <2>3. PICK k : k = a.final_state + 1
    OBVIOUS
  <2>4. Neat(a, n + 1) /\ Accepts(a) = L[com.first]
    BY <1>4, <1>6, <2>1, <2>2
  <2>5. k \in Nat
    <3>1. Spans(a, m)
      BY <1>4, <2>4 DEF Neat
    <3>2. a.final_state \in Nat
      BY <1>5, <3>1, SpansWithin
    <3> QED
      BY <2>3, <3>2
  <2>6. PICK d : d = gen[com.second][k]
    OBVIOUS
  <2>7. Neat(d, k) /\ Accepts(d) = L[com.second]
    BY <2>1, <2>5, <2>6 DEF Makes
  <2>8. c = or_builder(a, d, n)
    BY <1>1, <1>7, <1>4, <2>2, <2>3, <2>6, Zenon DEF generate_NDFA_for_command
  <2>9. Neat(c, n) /\ Accepts(c) = Accepts(a) \cup Accepts(d)
    BY <2>3, <2>4, <2>7, <2>8, OrAccepts
  <2>10. Told(b, com, L) = L[com.first] \cup L[com.second]
    BY <1>7, Zenon DEF Told
  <2> QED
    BY <1>1, <2>4, <2>7, <2>9, <2>10
<1>8. CASE com.kind = "concat"
  <2>1. com.first \in 1 .. i - 1 /\ com.second \in 1 .. i - 1
    BY <1>1, <1>2, <1>8 DEF InPlace, Placed, Binary
  <2>2. PICK a : a = gen[com.first][n]
    OBVIOUS
  <2>3. Neat(a, n) /\ Accepts(a) = L[com.first]
    BY <1>6, <2>1, <2>2
  <2>4. a.final_state \in Nat
    BY <2>3, SpansWithin DEF Neat
  <2>5. PICK d : d = gen[com.second][a.final_state]
    OBVIOUS
  <2>6. Neat(d, a.final_state) /\ Accepts(d) = L[com.second]
    BY <2>1, <2>4, <2>5 DEF Makes
  <2>7. c = concat_builder(a, d, n)
    BY <1>1, <1>8, <2>2, <2>5, Zenon DEF generate_NDFA_for_command
  <2>8. Neat(c, n) /\ Accepts(c) = Cat(Accepts(a), Accepts(d))
    BY <2>3, <2>6, <2>7, ConcatAccepts
  <2>9. Told(b, com, L) = Cat(L[com.first], L[com.second])
    BY <1>8, Zenon DEF Told
  <2> QED
    BY <1>1, <2>3, <2>6, <2>8, <2>9
<1>9. CASE com.kind = "multiconcat"
  <2>1. /\ com.first \in 1 .. i - 1 /\ com.second \in com.first .. i - 1
        /\ \A k \in com.first .. com.second : b[k].kind \in Simple
    BY <1>1, <1>2, <1>9 DEF InPlace, Placed
  <2>2. PICK gs : gs = [k \in com.first .. com.second |-> gen[k]]
    OBVIOUS
  <2>3. \A k \in com.first .. com.second : k \in 1 .. i - 1 /\ gs[k] = gen[k]
    BY <1>3, <2>1, <2>2
  <2>4. ASSUME NEW k \in com.first .. com.second
        PROVE  /\ Letters(b[k]) \subseteq Gen_chars
               /\ Makes(gs[k], LettersWords(Letters(b[k])))
    <3>1. k \in 1 .. i - 1 /\ gs[k] = gen[k] /\ b[k] \in UnwrappedCommands
      BY <1>2, <2>3
    <3>2. Letters(b[k]) \subseteq Gen_chars
      BY <3>1, LettersAre
    <3>3. Makes(gen[k], L[k]) /\ L[k] = Told(b, b[k], L)
      BY <3>1
    <3>4. L[k] = LettersWords(Letters(b[k]))
      BY <2>1, <3>3, ToldSimple
    <3> QED
      BY <3>1, <3>2, <3>3, <3>4
  <2>5. /\ com.first <= com.second
        /\ \A k \in com.first .. com.second : Letters(b[k]) \subseteq Gen_chars
        /\ \A k \in com.first .. com.second :
             Makes(gs[k], LettersWords(Letters(b[k])))
    BY <1>3, <2>1, <2>4
  <2>6. c = multiconcat_builder(gs, com.first, com.second, n)
    BY <1>1, <1>9, <2>2, Zenon DEF generate_NDFA_for_command
  <2>7. Neat(c, n) /\ Accepts(c) = Row(b, com.first, com.second)
    <3>1. PICK x \in Nat, y \in Nat : x = com.first /\ y = com.second
      BY <1>3
    <3>2. c = multiconcat_builder(gs, x, y, n)
      BY <2>6, <3>1
    <3>3. /\ x <= y
          /\ \A k \in x .. y : Letters(b[k]) \subseteq Gen_chars
          /\ \A k \in x .. y : Makes(gs[k], LettersWords(Letters(b[k])))
      BY <2>5, <3>1
    <3>4. Neat(c, n) /\ Accepts(c) = Row(b, x, y)
      BY <3>2, <3>3, MulticoncatAccepts
    <3> QED
      BY <3>1, <3>4
  <2>8. Told(b, com, L) = Row(b, com.first, com.second)
    BY <1>9, Zenon DEF Told
  <2> QED
    BY <1>1, <2>7, <2>8
<1>10. CASE com.kind \in Unary
  <2>1. com.first \in 1 .. i - 1
    BY <1>1, <1>2, <1>10 DEF InPlace, Placed
  <2>2. PICK a, d : a = gen[com.first][n] /\ d = gen[com.first][m]
    OBVIOUS
  <2>3. /\ Neat(a, n) /\ Accepts(a) = L[com.first]
        /\ Neat(d, n + 1) /\ Accepts(d) = L[com.first]
    BY <1>4, <1>6, <2>1, <2>2
  <2>4. CASE com.kind = "Kleene"
    <3>1. c = kleene_clos_builder(d, n)
      BY <1>1, <1>4, <2>2, <2>4, Zenon DEF generate_NDFA_for_command
    <3>2. Told(b, com, L) = Star(L[com.first])
      BY <2>4, Zenon DEF Told
    <3> QED
      BY <1>1, <2>3, <3>1, <3>2, KleeneAccepts
  <2>5. CASE com.kind = "positive"
    <3>1. c = positive_clos_builder(a, n)
      BY <1>1, <2>2, <2>5, Zenon DEF generate_NDFA_for_command
    <3>2. Told(b, com, L) = Cat(L[com.first], Star(L[com.first]))
      BY <2>5, Zenon DEF Told
    <3> QED
      BY <1>1, <2>3, <3>1, <3>2, PositiveAccepts
  <2>6. CASE com.kind = "optional"
    <3>1. c = optional_builder(d, n)
      BY <1>1, <1>4, <2>2, <2>6, Zenon DEF generate_NDFA_for_command
    <3>2. Told(b, com, L) = L[com.first] \cup {<<>>}
      BY <2>6, Zenon DEF Told
    <3> QED
      BY <1>1, <2>3, <3>1, <3>2, OptionalAccepts
  <2> QED
    BY <1>10, <2>4, <2>5, <2>6, Zenon DEF Unary
<1>11. CASE com.kind \in Simple
  <2>1. b[i].kind \in Simple /\ b[i] \in UnwrappedCommands
    BY <1>1, <1>2, <1>11
  <2>2. Neat(c, n) /\ Accepts(c) = LettersWords(Letters(b[i]))
    BY <1>2, <2>1, SimpleAccepts
  <2>3. Told(b, b[i], L) = LettersWords(Letters(b[i]))
    BY <2>1, ToldSimple
  <2> QED
    BY <2>2, <2>3
<1> QED
  BY <1>3, <1>7, <1>8, <1>9, <1>10, <1>11, Zenon DEF Binary

(* The automaton of a complete buffer accepts what its last command means. *)
LEMMA BuildMeans ==
  ASSUME NEW b, Complete(b), b # <<>>
  PROVE  \E L : /\ Meaning(b, L) /\ Neat(build_NDFA(b), 0)
                /\ Accepts(build_NDFA(b)) = L[Len(b)]
<1>1. PICK f : f = CHOOSE g : IsGen(b, g)
  OBVIOUS
<1>2. IsGen(b, f)
  BY <1>1, GenExists, Zenon
<1>3. build_NDFA(b) = f[Len(b)][0]
  BY <1>1, Zenon DEF build_NDFA, IsGen
<1>4. PICK N : N = Len(b)
  OBVIOUS
<1>5. N \in Nat /\ N \in 1 .. N
  BY <1>4 DEF Complete
<1>6. PICK L : L = [i \in 1 .. N |-> Accepts(f[i][0])]
  OBVIOUS
<1>7. PICK X : X = [i \in 1 .. N |->
                     {g \in {f[i]} : Makes(g, L[i]) /\ L[i] = Told(b, b[i], L)}]
  OBVIOUS
<1>8. ASSUME NEW i \in 1 .. N, \A j \in 1 .. i - 1 : f[j] \in X[j]
      PROVE  f[i] \in X[i]
  <2>1. \A j \in 1 .. i - 1 : j \in 1 .. N
    BY <1>5
  <2>2. /\ \A j \in 1 .. i - 1 : Makes(f[j], L[j])
        /\ \A j \in 1 .. i - 1 : L[j] = Told(b, b[j], L)
    BY <1>7, <1>8, <2>1
  <2>3. ASSUME NEW n \in Nat
        PROVE  Neat(f[i][n], n) /\ Accepts(f[i][n]) = Told(b, b[i], L)
    <3>1. f[i] = [k \in Nat |-> generate_NDFA_for_command(b[i], f, k)]
      BY <1>2, <1>4 DEF IsGen
    <3>2. PICK c : c = generate_NDFA_for_command(b[i], f, n)
      OBVIOUS
    <3>3. f[i][n] = c
      BY <3>1, <3>2
    <3>4. i \in 1 .. Len(b)
      BY <1>4
    <3>5. Neat(c, n) /\ Accepts(c) = Told(b, b[i], L)
      BY <2>2, <3>2, <3>4, MakesStep
    <3> QED
      BY <3>3, <3>5
  <2>4. L[i] = Told(b, b[i], L)
    BY <1>6, <2>3
  <2>5. Makes(f[i], L[i])
    BY <2>3, <2>4 DEF Makes
  <2> QED
    BY <1>7, <2>4, <2>5
<1>9. \A i \in 1 .. N : f[i] \in X[i]
  BY <1>5, <1>8, RecursionTyped
<1>10. \A i \in 1 .. N : Makes(f[i], L[i]) /\ L[i] = Told(b, b[i], L)
  BY <1>7, <1>9
<1>11. ASSUME NEW i \in 1 .. N PROVE L[i] \subseteq Strings
  <2>1. Neat(f[i][0], 0) /\ Accepts(f[i][0]) = L[i]
    BY <1>10 DEF Makes
  <2>2. PICK a, n : a = f[i][0] /\ n = 0 /\ n \in Nat
    OBVIOUS
  <2>3. Spans(a, n) /\ Accepts(a) = L[i]
    BY <2>1, <2>2 DEF Neat
  <2>4. Accepts(a) = Onwards(a, n) /\ Onwards(a, n) \subseteq Strings
    <3>1. n \in Nat /\ Spans(a, n)
      BY <2>2, <2>3
    <3> QED
      BY ONLY <3>1, SpansWithin
  <2> QED
    BY <2>3, <2>4
<1>12. Meaning(b, L)
  BY <1>4, <1>10, <1>11 DEF Meaning
<1>13. Neat(f[N][0], 0) /\ Accepts(f[N][0]) = L[N]
  BY <1>5, <1>10 DEF Makes
<1> QED
  BY <1>3, <1>4, <1>12, <1>13

-----------------------------------------------------------------------------
(* Fusing keeps what a buffer means.                                       *)

Kept(out, new) ==
  Len(out) < Len(new) /\ \A k \in 1 .. Len(out) : new[k] = out[k]

Means(new, X) == \A M : Meaning(new, M) => M[Len(new)] = X

(* What is written behind out for a command that means X.                  *)
Faithful(out, new, X) ==
  /\ Complete(new) /\ Kept(out, new) /\ Means(new, X)
  /\ Fusible(new[Len(new)]) => Len(new) = Len(out) + 1

Keeps(g, X) == \A out : Complete(out) => Faithful(out, g[out], X)

LEMMA RowSame ==
  ASSUME NEW a, NEW c, NEW x, NEW y, NEW p, NEW q, NEW l \in Nat,
         y - x + 1 = l, q - p + 1 = l,
         \A j \in 1 .. l : Letters(a[x + j - 1]) = Letters(c[p + j - 1])
  PROVE  Row(a, x, y) = Row(c, p, q)
<1>1. ASSUME NEW w \in Strings, Len(w) = l
      PROVE  (\A j \in 1 .. Len(w) : w[j] \in Letters(a[x + j - 1]))
               <=> (\A j \in 1 .. Len(w) : w[j] \in Letters(c[p + j - 1]))
  BY <1>1
<1> QED
  BY <1>1 DEF Row

LEMMA ToldSame ==
  ASSUME NEW a, NEW i \in Nat, NEW com \in UnwrappedCommands, Placed(a, com, i),
         NEW c, \A k \in 1 .. i - 1 : c[k] = a[k], NEW M
  PROVE  Told(c, com, M) = Told(a, com, M)
<1>1. /\ com.kind \in Binary \cup Unary \cup Simple \cup {"multiconcat"}
      /\ com.first \in Nat /\ com.second \in Nat
  BY Zenon DEF UnwrappedCommands, Simple
<1>2. CASE com.kind = "multiconcat"
  <2>1. PICK x, y : x = com.first /\ y = com.second
    OBVIOUS
  <2>2. x \in 1 .. i - 1 /\ y \in x .. i - 1
    BY <1>2, <2>1 DEF Placed
  <2>3. x \in Nat /\ y \in Nat
    BY <1>1, <2>1
  <2>4. PICK l : l = y - x + 1
    OBVIOUS
  <2>5. Row(c, x, y) = Row(a, x, y)
    <3>1. l \in Nat
      BY <2>2, <2>3, <2>4
    <3>2. \A j \in 1 .. l : x + j - 1 \in 1 .. i - 1
      BY <2>2, <2>3, <2>4
    <3>3. \A j \in 1 .. l : Letters(c[x + j - 1]) = Letters(a[x + j - 1])
      BY <3>2
    <3>4. ASSUME NEW w \in Strings, Len(w) = y - x + 1
          PROVE  (\A j \in 1 .. Len(w) : w[j] \in Letters(c[x + j - 1]))
                   <=> (\A j \in 1 .. Len(w) : w[j] \in Letters(a[x + j - 1]))
      BY <2>4, <3>3, <3>4
    <3> QED
      BY <3>4 DEF Row
  <2> QED
    BY <1>2, <2>1, <2>5, Zenon DEF Told
<1>3. CASE com.kind = "or"
  BY <1>3, Zenon DEF Told
<1>4. CASE com.kind = "concat"
  BY <1>4, Zenon DEF Told
<1>5. CASE com.kind = "Kleene"
  BY <1>5, Zenon DEF Told
<1>6. CASE com.kind = "positive"
  BY <1>6, Zenon DEF Told
<1>7. CASE com.kind = "optional"
  BY <1>7, Zenon DEF Told
<1>8. CASE com.kind \in Simple
  BY <1>8, ToldSimple
<1> QED
  BY <1>1, <1>2, <1>3, <1>4, <1>5, <1>6, <1>7, <1>8, Zenon DEF Binary, Unary

(* The commands before others mean what they mean without them.            *)
LEMMA MeaningKept ==
  ASSUME NEW out, Complete(out), NEW new, Len(new) \in Nat, Kept(out, new),
         NEW M, Meaning(new, M)
  PROVE  Meaning(out, M)
<1>1. Len(out) \in Nat
  BY DEF Complete
<1>2. ASSUME NEW i \in 1 .. Len(out)
      PROVE  M[i] \subseteq Strings /\ M[i] = Told(out, out[i], M)
  <2>1. /\ i \in Nat /\ i \in 1 .. Len(new) /\ new[i] = out[i]
        /\ \A k \in 1 .. i - 1 : new[k] = out[k]
    BY <1>1 DEF Kept
  <2>2. out[i] \in UnwrappedCommands /\ Placed(out, out[i], i)
    BY DEF Complete, InPlace
  <2>3. M[i] \subseteq Strings /\ M[i] = Told(new, out[i], M)
    BY <2>1 DEF Meaning
  <2>4. Told(new, out[i], M) = Told(out, out[i], M)
    BY <2>1, <2>2, ToldSame
  <2> QED
    BY <2>3, <2>4
<1> QED
  BY <1>2 DEF Meaning

LEMMA KeptOn ==
  ASSUME NEW a, NEW b, NEW c, Len(a) \in Nat, Len(b) \in Nat, Len(c) \in Nat,
         Kept(a, b), Kept(b, c)
  PROVE  Kept(a, c)
<1>1. \A k \in 1 .. Len(a) : k \in 1 .. Len(b)
  BY DEF Kept
<1> QED
  BY <1>1 DEF Kept

LEMMA KeptAppended ==
  ASSUME NEW a \in Seq(UnwrappedCommands), NEW com \in UnwrappedCommands,
         NEW c, c = Append(a, com)
  PROVE  /\ c \in Seq(UnwrappedCommands) /\ Len(c) = Len(a) + 1
         /\ c[Len(c)] = com /\ Kept(a, c)
<1>1. /\ c \in Seq(UnwrappedCommands) /\ Len(c) = Len(a) + 1
      /\ c[Len(c)] = com /\ \A k \in 1 .. Len(a) : c[k] = a[k]
  OBVIOUS
<1> QED
  BY <1>1 DEF Kept

(* An operator means what its operands make of it.                         *)
LEMMA ToldBinary ==
  ASSUME NEW a, NEW b, NEW com, NEW new, com.kind \in Binary,
         new.kind = com.kind, NEW L, NEW M,
         L[com.first] = M[new.first], L[com.second] = M[new.second]
  PROVE  Told(b, new, M) = Told(a, com, L)
<1>1. CASE com.kind = "or"
  BY <1>1, Zenon DEF Told
<1>2. CASE com.kind = "concat"
  BY <1>2, Zenon DEF Told
<1> QED
  BY <1>1, <1>2 DEF Binary

LEMMA ToldUnary ==
  ASSUME NEW a, NEW b, NEW com, NEW new, com.kind \in Unary,
         new.kind = com.kind, NEW L, NEW M, L[com.first] = M[new.first]
  PROVE  Told(b, new, M) = Told(a, com, L)
<1>1. CASE com.kind = "Kleene"
  BY <1>1, Zenon DEF Told
<1>2. CASE com.kind = "positive"
  BY <1>2, Zenon DEF Told
<1>3. CASE com.kind = "optional"
  BY <1>3, Zenon DEF Told
<1> QED
  BY <1>1, <1>2, <1>3 DEF Unary

(* A command written behind others means what it is told of.               *)
LEMMA WrittenMeans ==
  ASSUME NEW two \in Seq(UnwrappedCommands), NEW new \in UnwrappedCommands,
         NEW u, u = Append(two, new), NEW X,
         \A M : Meaning(u, M) => Told(u, new, M) = X
  PROVE  Means(u, X)
<1>1. Len(u) \in Nat /\ Len(u) \in 1 .. Len(u) /\ u[Len(u)] = new
  OBVIOUS
<1>2. ASSUME NEW M, Meaning(u, M) PROVE M[Len(u)] = X
  <2>1. M[Len(u)] = Told(u, u[Len(u)], M)
    BY <1>1, <1>2 DEF Meaning
  <2> QED
    BY <1>1, <1>2, <2>1
<1> QED
  BY <1>2 DEF Means

(* The roots of both operands of a fused alternative, each alone.          *)
LEMMA FusibleMeans ==
  ASSUME NEW two, Complete(two), two # <<>>, NEW i \in 1 .. Len(two),
         Fusible(two[i]), NEW M, Meaning(two, M)
  PROVE  M[i] = LettersWords(two[i].s)
<1>1. two[i].kind \in Simple
  BY DEF Fusible, Simple
<1>2. Letters(two[i]) = two[i].s
  BY Zenon DEF Letters, Fusible
<1>3. M[i] = Told(two, two[i], M)
  BY DEF Meaning
<1> QED
  BY <1>1, <1>2, <1>3, ToldSimple

LEMMA FuseOrMeans ==
  ASSUME NEW out, Complete(out), NEW one, NEW X, Faithful(out, one, X),
         NEW two, NEW Y, Faithful(one, two, Y),
         NEW com \in UnwrappedCommands, com.kind = "or",
         NEW u, u = Fuse_or(two, com, Len(one)), Complete(u)
  PROVE  Faithful(out, u, X \cup Y)
<1>1. PICK n, k, l : n = Len(one) /\ k = Len(two) /\ l = Len(out)
  OBVIOUS
<1>2. /\ two \in Seq(UnwrappedCommands) /\ one \in Seq(UnwrappedCommands)
      /\ out \in Seq(UnwrappedCommands) /\ u \in Seq(UnwrappedCommands)
      /\ k \in Nat /\ n \in Nat /\ l \in Nat
      /\ Complete(two) /\ Complete(one)
  BY <1>1 DEF Faithful, Complete
<1>3. /\ l < n /\ n < k /\ Kept(out, one) /\ Kept(one, two)
      /\ n \in 1 .. k /\ k \in 1 .. k /\ n \in 1 .. n /\ two[n] = one[n]
      /\ \A j \in 1 .. l : two[j] = out[j]
  BY <1>1, <1>2 DEF Faithful, Kept
<1>4. PICK a, b : a = two[n] /\ b = two[k]
  OBVIOUS
<1>5. /\ Fuse_or(two, com, n)
           = IF Fusible(a) /\ Fusible(b)
             THEN Append(Front(Front(two)),
                         [Unwrapped("multior") EXCEPT !.s = a.s \cup b.s])
             ELSE Append(two, [com EXCEPT !.first = n, !.second = k,
                                          !.action_name = 0])
      /\ a \in UnwrappedCommands /\ b \in UnwrappedCommands
  BY <1>1, <1>2, <1>3, <1>4 DEF Fuse_or, Last
<1>6. CASE Fusible(a) /\ Fusible(b)
  <2>1. n = l + 1 /\ k = n + 1
    BY <1>1, <1>3, <1>4, <1>6 DEF Faithful
  <2>2. PICK new, old, s : /\ old = Unwrapped("multior") /\ s = a.s \cup b.s
                           /\ new = [old EXCEPT !.s = s]
    OBVIOUS
  <2>3. s \subseteq Chars
    BY <1>5, <2>2 DEF UnwrappedCommands
  <2>4. old \in UnwrappedCommands /\ old.kind = "multior"
    BY <2>2, FreshCommand DEF Kinds
  <2>5. new \in UnwrappedCommands /\ new.kind = "multior" /\ new.s = s
    BY <2>2, <2>3, <2>4 DEF UnwrappedCommands
  <2>6. PICK v, w : v = Front(two) /\ w = Front(v)
    OBVIOUS
  <2>7. /\ v \in Seq(UnwrappedCommands) /\ Len(v) = n
        /\ \A j \in 1 .. n : v[j] = two[j]
    <3>1. Len(two) - 1 = n
      BY <1>1, <1>2, <2>1
    <3>2. v = SubSeq(two, 1, n)
      BY <2>6, <3>1 DEF Front
    <3>3. n <= Len(two)
      BY <1>1, <1>2, <2>1
    <3> QED
      BY <1>2, <3>2, <3>3
  <2>8. /\ w \in Seq(UnwrappedCommands) /\ Len(w) = l
        /\ \A j \in 1 .. l : w[j] = v[j]
    <3>1. Len(v) - 1 = l
      BY <1>2, <2>1, <2>7
    <3>2. w = SubSeq(v, 1, l)
      BY <2>6, <3>1 DEF Front
    <3>3. l <= Len(v)
      BY <1>2, <2>1, <2>7
    <3> QED
      BY <1>2, <2>7, <3>2, <3>3
  <2>9. u = Append(w, new)
    BY <1>1, <1>5, <1>6, <2>2, <2>6
  <2>10. /\ Len(u) = l + 1 /\ u[l + 1] = new
         /\ \A j \in 1 .. l : u[j] = w[j]
    BY <2>5, <2>8, <2>9
  <2>11. Kept(out, u)
    <3>1. \A j \in 1 .. l : j \in 1 .. n
      BY <1>2, <2>1
    <3>2. \A j \in 1 .. l : u[j] = out[j]
      BY <1>3, <2>7, <2>8, <2>10, <3>1
    <3> QED
      BY <1>1, <1>2, <2>10, <3>2 DEF Kept
  <2>12. X = LettersWords(a.s) /\ Y = LettersWords(b.s)
    <3>1. two # <<>>
      BY <1>1, <1>2, <1>3
    <3>2. PICK M : Meaning(two, M)
      BY <1>2, <3>1, BuildMeans
    <3>3. Meaning(one, M)
      BY <1>1, <1>2, <1>3, <3>2, MeaningKept
    <3>4. M[n] = X /\ M[k] = Y
      BY <1>1, <3>2, <3>3 DEF Faithful, Means
    <3>5. M[n] = LettersWords(two[n].s) /\ M[k] = LettersWords(two[k].s)
      BY <1>1, <1>2, <1>3, <1>4, <1>6, <3>1, <3>2, FusibleMeans
    <3> QED
      BY <1>4, <3>4, <3>5
  <2>13. LettersWords(s) = X \cup Y
    BY <2>2, <2>12 DEF LettersWords
  <2>14. \A M : Told(u, new, M) = X \cup Y
    <3>1. new.kind \in Simple
      BY <2>5 DEF Simple
    <3>2. Letters(new) = s
      BY <2>5, Zenon DEF Letters
    <3> QED
      BY <2>13, <3>1, <3>2, ToldSimple
  <2>15. Means(u, X \cup Y)
    BY <2>5, <2>8, <2>9, <2>14, WrittenMeans
  <2> QED
    BY <1>1, <2>10, <2>11, <2>15 DEF Faithful
<1>7. CASE ~(Fusible(a) /\ Fusible(b))
  <2>1. PICK new : new = [com EXCEPT !.first = n, !.second = k,
                                     !.action_name = 0]
    OBVIOUS
  <2>2. /\ new \in UnwrappedCommands /\ new.kind = "or"
        /\ new.first = n /\ new.second = k
    BY <1>2, <2>1, UnwrappedAre
  <2>3. u = Append(two, new)
    BY <1>1, <1>5, <1>7, <2>1
  <2>4. Len(u) = k + 1 /\ u[Len(u)] = new /\ Kept(two, u) /\ Len(u) \in Nat
    <3>1. Len(u) = Len(two) + 1 /\ u[Len(u)] = new /\ Kept(two, u)
      BY <1>2, <2>2, <2>3, KeptAppended
    <3> QED
      BY <1>1, <1>2, <3>1
  <2>5. Kept(out, u)
    BY <1>1, <1>2, <1>3, <2>4, KeptOn
  <2>6. ASSUME NEW M, Meaning(u, M) PROVE Told(u, new, M) = X \cup Y
    <3>1. Meaning(two, M)
      BY <1>2, <2>4, <2>6, MeaningKept
    <3>2. Meaning(one, M)
      BY <1>1, <1>2, <1>3, <3>1, MeaningKept
    <3>3. M[n] = X /\ M[k] = Y
      BY <1>1, <3>1, <3>2 DEF Faithful, Means
    <3>4. Told(u, new, M) = M[new.first] \cup M[new.second]
      BY <2>2, Zenon DEF Told
    <3> QED
      BY <2>2, <3>3, <3>4
  <2>7. Means(u, X \cup Y)
    BY <1>2, <2>2, <2>3, <2>6, WrittenMeans
  <2>8. ~Fusible(u[Len(u)])
    BY <2>2, <2>4 DEF Fusible
  <2> QED
    BY <2>5, <2>7, <2>8 DEF Faithful
<1> QED
  BY <1>6, <1>7

LEMMA PieceIs ==
  ASSUME NEW S, NEW b \in Seq(S), NEW x \in Nat, NEW y \in Nat,
         x >= 1, x <= y, y <= Len(b), NEW l \in Nat, l = y - x + 1,
         NEW s, s = SubSeq(b, x, y)
  PROVE  s \in Seq(S) /\ Len(s) = l /\ \A k \in 1 .. l : s[k] = b[x + k - 1]
OBVIOUS

LEMMA TogetherAre ==
  ASSUME NEW S, NEW a \in Seq(S), NEW b \in Seq(S), NEW n \in Nat, n = Len(a),
         NEW l \in Nat, l = Len(b), NEW t, t = a \o b
  PROVE  /\ t \in Seq(S) /\ Len(t) = n + l
         /\ \A k \in 1 .. n : t[k] = a[k]
         /\ \A k \in 1 .. l : t[n + k] = b[k]
OBVIOUS

LEMMA MulticoncatMeans ==
  ASSUME NEW b, Complete(b), NEW i \in 1 .. Len(b), NEW com, com = b[i],
         com.kind = "multiconcat", NEW out, Complete(out), NEW res,
         res = out \o SubSeq(b, com.first, com.second)
                   \o << [com EXCEPT !.first = Len(out) + 1,
                                     !.second = Len(out) + com.second
                                                  - com.first + 1] >>,
         Complete(res)
  PROVE  Faithful(out, res, Row(b, com.first, com.second))
<1>1. PICK x, y, n, s, m, z, new :
        /\ x = com.first /\ y = com.second /\ n = Len(out)
        /\ s = SubSeq(b, x, y) /\ m = n + 1 /\ z = n + y - x + 1
        /\ new = [com EXCEPT !.first = m, !.second = z]
  OBVIOUS
<1>2. /\ com \in UnwrappedCommands /\ x \in Nat /\ y \in Nat
      /\ i \in Nat /\ i <= Len(b) /\ Len(b) \in Nat /\ n \in Nat
      /\ b \in Seq(UnwrappedCommands) /\ out \in Seq(UnwrappedCommands)
  <2>1. b \in Seq(UnwrappedCommands) /\ out \in Seq(UnwrappedCommands)
    BY DEF Complete
  <2> QED
    BY <1>1, <2>1, OperandsNat
<1>3. x \in 1 .. i - 1 /\ y \in x .. i - 1
  <2>1. Placed(b, com, i)
    BY <1>1 DEF Complete, InPlace
  <2> QED
    BY <1>1, <2>1 DEF Placed
<1>4. PICK l : l = y - x + 1
  OBVIOUS
<1>5. l \in Nat /\ l >= 1 /\ z - m + 1 = l /\ y - x + 1 = l /\ z = n + l
      /\ m \in Nat /\ z \in Nat
  <2>1. m = n + 1 /\ z = n + y - x + 1
    BY <1>1
  <2>2. x <= y /\ x \in Nat /\ y \in Nat /\ n \in Nat
    BY <1>2, <1>3
  <2> QED
    BY <2>1, <2>2, <1>4
<1>6. /\ s \in Seq(UnwrappedCommands) /\ Len(s) = l
      /\ \A k \in 1 .. l : s[k] = b[x + k - 1]
  <2>1. s = SubSeq(b, x, y)
    BY <1>1
  <2>2. /\ x <= y /\ x \in Nat /\ y \in Nat /\ x >= 1 /\ y <= Len(b)
        /\ Len(b) \in Nat /\ b \in Seq(UnwrappedCommands)
    BY <1>2, <1>3
  <2> QED
    <3>1. l \in Nat /\ l = y - x + 1
      BY <1>4, <1>5
    <3>2. /\ s \in Seq(UnwrappedCommands) /\ Len(s) = l
          /\ \A k \in 1 .. l : s[k] = b[x + k - 1]
      BY <2>1, <2>2, <3>1, PieceIs, SMT
    <3> QED
      BY <3>2
<1>7. PICK t : t = out \o s
  OBVIOUS
<1>8. /\ t \in Seq(UnwrappedCommands) /\ Len(t) = z
      /\ \A k \in 1 .. n : t[k] = out[k]
      /\ \A k \in 1 .. l : t[n + k] = s[k]
  <2>1. n = Len(out)
    BY <1>1
  <2> QED
    <3>1. l = Len(s) /\ l \in Nat
      BY <1>5, <1>6
    <3>2. /\ t \in Seq(UnwrappedCommands) /\ Len(t) = n + l
          /\ \A k \in 1 .. n : t[k] = out[k]
          /\ \A k \in 1 .. l : t[n + k] = s[k]
      <4>1. /\ out \in Seq(UnwrappedCommands) /\ s \in Seq(UnwrappedCommands)
            /\ t = out \o s /\ n \in Nat
        BY <1>2, <1>6, <1>7
      <4> QED
        BY <2>1, <3>1, <4>1, TogetherAre, SMT
    <3> QED
      BY <3>2, <1>5
<1>9. new \in UnwrappedCommands /\ new.kind = "multiconcat"
      /\ new.first = m /\ new.second = z
  BY <1>1, <1>2, <1>5, UnwrappedAre
<1>10. res = t \o <<new>>
  BY <1>1, <1>7, Zenon
<1>11. PICK u : u = Append(t, new)
  OBVIOUS
<1>12. res = u
  <2>1. t \in Seq(UnwrappedCommands) /\ new \in UnwrappedCommands
    BY <1>8, <1>9
  <2>2. Append(t, new) = t \o <<new>>
    BY <2>1
  <2> QED
    BY <2>2, <1>10, <1>11
<1>13. Len(u) = z + 1 /\ u[Len(u)] = new /\ Kept(t, u)
  <2>1. t \in Seq(UnwrappedCommands) /\ new \in UnwrappedCommands
    BY <1>8, <1>9
  <2>2. Len(u) = Len(t) + 1 /\ u[Len(u)] = new /\ Kept(t, u)
    BY ONLY <1>11, <2>1, KeptAppended
  <2> QED
    BY <1>8, <2>2
<1>14. ASSUME NEW k \in 1 .. z PROVE u[k] = t[k]
  BY <1>8, <1>13 DEF Kept
<1>15. Kept(out, u)
  <2>1. \A k \in 1 .. n : k \in 1 .. z
    BY <1>2, <1>5
  <2>2. \A k \in 1 .. n : u[k] = out[k]
    BY <1>8, <1>14, <2>1
  <2> QED
    BY <1>1, <1>2, <1>5, <1>13, <2>2 DEF Kept
<1>16. Row(u, m, z) = Row(b, x, y)
  <2>1. ASSUME NEW j \in 1 .. l
        PROVE  Letters(u[m + j - 1]) = Letters(b[x + j - 1])
    <3>1. m + j - 1 = n + j /\ n + j \in 1 .. z
      <4>1. m = n + 1
        BY <1>1
      <4> QED
        BY <4>1, <1>2, <1>5
    <3>2. u[n + j] = b[x + j - 1]
      BY <1>6, <1>8, <1>14, <3>1
    <3> QED
      BY <3>1, <3>2
  <2>2. \A j \in 1 .. l : Letters(u[m + j - 1]) = Letters(b[x + j - 1])
    BY <2>1
  <2>3. l \in Nat /\ z - m + 1 = l /\ y - x + 1 = l
    BY <1>5
  <2> QED
    BY <2>2, <2>3, RowSame
<1>17. \A M : Told(u, new, M) = Row(b, x, y)
  BY <1>9, <1>16, Zenon DEF Told
<1>18. Means(u, Row(b, x, y))
  BY <1>8, <1>9, <1>11, <1>17, WrittenMeans
<1>19. ~Fusible(u[Len(u)])
  BY <1>9, <1>13 DEF Fusible
<1> QED
  BY <1>1, <1>12, <1>15, <1>18, <1>19 DEF Faithful

LEMMA FaithfulStep ==
  ASSUME NEW b, Complete(b), NEW L, Meaning(b, L), NEW i \in 1 .. Len(b),
         NEW fuse, \A j \in 1 .. i - 1 : fuse[j] \in Fusers,
         \A j \in 1 .. i - 1 : Keeps(fuse[j], L[j]), NEW out, Complete(out)
  PROVE  Faithful(out, fuse_unwrapped_commandsR(b, b[i], fuse, out), L[i])
<1>1. PICK com, u : /\ com = b[i]
                    /\ u = fuse_unwrapped_commandsR(b, com, fuse, out)
  OBVIOUS
<1>2. /\ com \in UnwrappedCommands /\ Placed(b, com, i) /\ i \in Nat
      /\ out \in Seq(UnwrappedCommands) /\ Len(out) \in Nat
  <2>1. Len(b) \in Nat /\ i \in DOMAIN b
    BY DEF Complete
  <2> QED
    BY <1>1, <2>1 DEF Complete, InPlace
<1>3. /\ com.kind \in Binary \cup Unary \cup Simple \cup {"multiconcat"}
      /\ com.first \in Nat /\ com.second \in Nat
  BY <1>2, Zenon DEF UnwrappedCommands, Simple
<1>4. L[i] = Told(b, com, L)
  BY <1>1 DEF Meaning
<1>5. Complete(u)
  <2>1. Fused(out, u)
    BY <1>1, <1>2, FuseStep
  <2> QED
    BY <2>1 DEF Fused
<1>6. PICK one, two : one = fuse[com.first][out] /\ two = fuse[com.second][one]
  OBVIOUS
<1>7. PICK n, k, X, Y : n = Len(one) /\ k = Len(two)
                        /\ X = L[com.first] /\ Y = L[com.second]
  OBVIOUS
<1>8. ASSUME com.first \in 1 .. i - 1
      PROVE  /\ Faithful(out, one, X) /\ Complete(one) /\ Kept(out, one)
             /\ one \in Seq(UnwrappedCommands) /\ n \in Nat
             /\ Len(one) \in Nat /\ Len(out) \in Nat
  <2>1. Faithful(out, one, X)
    BY <1>6, <1>7, <1>8 DEF Keeps
  <2> QED
    BY <1>2, <1>7, <2>1 DEF Faithful, Complete
<1>9. CASE com.kind \in Binary
  <2>1. com.first \in 1 .. i - 1 /\ com.second \in 1 .. i - 1
    BY <1>2, <1>9 DEF Placed
  <2>2. /\ Faithful(out, one, X) /\ Complete(one) /\ n \in Nat /\ Kept(out, one)
        /\ Len(one) \in Nat /\ Len(out) \in Nat
    BY <1>8, <2>1
  <2>3. Faithful(one, two, Y)
    BY <1>6, <1>7, <2>1, <2>2 DEF Keeps
  <2>4. /\ Complete(two) /\ two \in Seq(UnwrappedCommands) /\ k \in Nat
        /\ Kept(one, two) /\ Len(two) \in Nat
    BY <1>7, <2>3 DEF Faithful, Complete
  <2>5. CASE com.kind = "or"
    <3>0. /\ com.kind # "concat" /\ com.kind \notin Unary
          /\ com.kind # "multiconcat"
      BY <2>5 DEF Unary
    <3>1. u = Fuse_or(two, com, Len(one))
      BY <1>1, <1>6, <2>5, <3>0, Zenon DEF fuse_unwrapped_commandsR
    <3>2. Faithful(out, u, X \cup Y)
      BY <1>2, <1>5, <2>2, <2>3, <2>5, <3>1, FuseOrMeans
    <3>3. Told(b, com, L) = X \cup Y
      BY <1>7, <2>5, Zenon DEF Told
    <3> QED
      BY <1>1, <1>4, <3>2, <3>3
  <2>6. CASE com.kind = "concat"
    <3>1. PICK new : new = [com EXCEPT !.first = n, !.second = k]
      OBVIOUS
    <3>2. u = Append(two, new)
      <4>1. /\ com.kind # "or" /\ com.kind \notin Unary
            /\ com.kind # "multiconcat"
        BY <2>6 DEF Unary
      <4> QED
        BY <1>1, <1>6, <1>7, <2>6, <3>1, <4>1, Zenon DEF fuse_unwrapped_commandsR
    <3>3. /\ new \in UnwrappedCommands /\ new.kind = com.kind
          /\ new.first = n /\ new.second = k
      BY <1>2, <2>2, <2>4, <3>1, UnwrappedAre
    <3>4. u[Len(u)] = new /\ Kept(two, u) /\ Len(u) \in Nat
      <4>1. u \in Seq(UnwrappedCommands) /\ u[Len(u)] = new /\ Kept(two, u)
        BY <2>4, <3>2, <3>3, KeptAppended
      <4> QED
        BY <4>1
    <3>5. Kept(one, u)
      BY <2>2, <2>4, <3>4, KeptOn
    <3>6. Kept(out, u)
      BY <2>2, <2>4, <3>4, <3>5, KeptOn
    <3>7. ASSUME NEW M, Meaning(u, M) PROVE Told(u, new, M) = L[i]
      <4>1. Meaning(two, M)
        BY <2>4, <3>4, <3>7, MeaningKept
      <4>2. Meaning(one, M)
        BY <2>2, <2>4, <4>1, MeaningKept
      <4>3. M[n] = X /\ M[k] = Y
        BY <1>7, <2>2, <2>3, <4>1, <4>2 DEF Faithful, Means
      <4>4. Told(u, new, M) = Told(b, com, L)
        <5>1. L[com.first] = M[new.first] /\ L[com.second] = M[new.second]
          BY <1>7, <3>3, <4>3
        <5> QED
          BY <1>9, <3>3, <5>1, ToldBinary
      <4> QED
        BY <1>4, <4>4
    <3>8. Means(u, L[i])
      BY <2>4, <3>2, <3>3, <3>7, WrittenMeans
    <3>9. ~Fusible(u[Len(u)])
      BY <2>6, <3>3, <3>4 DEF Fusible
    <3> QED
      BY <1>1, <1>5, <3>6, <3>8, <3>9 DEF Faithful
  <2> QED
    BY <1>9, <2>5, <2>6, Zenon DEF Binary
<1>10. CASE com.kind \in Unary
  <2>1. com.first \in 1 .. i - 1
    BY <1>2, <1>10 DEF Placed
  <2>2. /\ Faithful(out, one, X) /\ Complete(one) /\ n \in Nat /\ Kept(out, one)
        /\ one \in Seq(UnwrappedCommands) /\ Len(one) \in Nat /\ Len(out) \in Nat
    BY <1>8, <2>1
  <2>3. PICK new : new = [com EXCEPT !.first = n]
    OBVIOUS
  <2>4. u = Append(one, new)
    <3>1. /\ com.kind # "or" /\ com.kind # "concat"
          /\ com.kind # "multiconcat"
      BY <1>10 DEF Unary
    <3> QED
      BY <1>1, <1>6, <1>7, <1>10, <2>3, <3>1, Zenon DEF fuse_unwrapped_commandsR
  <2>5. new \in UnwrappedCommands /\ new.kind = com.kind /\ new.first = n
    BY <1>2, <2>2, <2>3, OperandMoved
  <2>6. u[Len(u)] = new /\ Kept(one, u) /\ Len(u) \in Nat
    <3>1. u \in Seq(UnwrappedCommands) /\ u[Len(u)] = new /\ Kept(one, u)
      BY <2>2, <2>4, <2>5, KeptAppended
    <3> QED
      BY <3>1
  <2>7. Kept(out, u)
    BY <2>2, <2>6, KeptOn
  <2>8. ASSUME NEW M, Meaning(u, M) PROVE Told(u, new, M) = L[i]
    <3>1. Meaning(one, M)
      BY <2>2, <2>6, <2>8, MeaningKept
    <3>2. M[n] = X
      BY <1>7, <2>2, <3>1 DEF Faithful, Means
    <3>3. L[com.first] = M[new.first]
      BY <1>7, <2>5, <3>2
    <3>4. Told(u, new, M) = Told(b, com, L)
      BY <1>10, <2>5, <3>3, ToldUnary
    <3> QED
      BY <1>4, <3>4
  <2>9. Means(u, L[i])
    BY <2>2, <2>4, <2>5, <2>8, WrittenMeans
  <2>10. ~Fusible(u[Len(u)])
    BY <1>10, <2>5, <2>6 DEF Fusible, Unary
  <2> QED
    BY <1>1, <1>5, <2>7, <2>9, <2>10 DEF Faithful
<1>11. CASE com.kind = "multiconcat"
  <2>1. com.kind \notin Unary /\ com.kind # "or" /\ com.kind # "concat"
    BY <1>11 DEF Unary
  <2>2. u = out \o SubSeq(b, com.first, com.second)
                \o << [com EXCEPT !.first = Len(out) + 1,
                                  !.second = Len(out) + com.second
                                               - com.first + 1] >>
    BY <1>1, <1>11, <2>1, Zenon DEF fuse_unwrapped_commandsR
  <2>3. Faithful(out, u, Row(b, com.first, com.second))
    BY <1>1, <1>5, <1>11, <2>2, MulticoncatMeans
  <2>4. Told(b, com, L) = Row(b, com.first, com.second)
    BY <1>11, Zenon DEF Told
  <2> QED
    BY <1>1, <1>4, <2>3, <2>4
<1>12. CASE com.kind \in Simple
  <2>1. /\ com.kind \notin Unary /\ com.kind # "or" /\ com.kind # "concat"
        /\ com.kind # "multiconcat"
    BY <1>12 DEF Unary, Simple
  <2>2. u = Append(out, com)
    BY <1>1, <2>1, Zenon DEF fuse_unwrapped_commandsR
  <2>3. Len(u) = Len(out) + 1 /\ Kept(out, u)
    BY <1>2, <2>2, KeptAppended
  <2>4. \A M : Told(u, com, M) = L[i]
    BY <1>4, <1>12, ToldSimple
  <2>5. Means(u, L[i])
    BY <1>2, <2>2, <2>4, WrittenMeans
  <2> QED
    BY <1>1, <1>5, <2>3, <2>5 DEF Faithful
<1> QED
  BY <1>3, <1>9, <1>10, <1>11, <1>12

(* The fused buffer means what the buffer does.                            *)
LEMMA FuseMeans ==
  ASSUME NEW b, Complete(b), b # <<>>, NEW L, Meaning(b, L)
  PROVE  Means(fuse_unwrapped_commands(b), L[Len(b)])
<1>1. PICK f : f = CHOOSE g : IsFuse(b, g)
  OBVIOUS
<1>2. IsFuse(b, f)
  BY <1>1, FuseExists, Zenon
<1>3. fuse_unwrapped_commands(b) = f[Len(b)][<<>>]
  BY <1>1, Zenon DEF fuse_unwrapped_commands, IsFuse
<1>4. PICK N, X :
        /\ N = Len(b)
        /\ X = [i \in 1 .. N |-> {g \in Fusers : Keeps(g, L[i])}]
  OBVIOUS
<1>5. N \in Nat /\ N \in 1 .. N
  BY <1>4 DEF Complete
<1>6. ASSUME NEW i \in 1 .. N, \A j \in 1 .. i - 1 : f[j] \in X[j]
      PROVE  f[i] \in X[i]
  <2>1. f[i] = Fuser(b, i, f)
    BY <1>2, <1>4 DEF IsFuse, Fuser
  <2>2. \A j \in 1 .. i - 1 : j \in 1 .. N
    BY <1>5
  <2>3. /\ \A j \in 1 .. i - 1 : f[j] \in Fusers
        /\ \A j \in 1 .. i - 1 : Keeps(f[j], L[j])
    BY <1>4, <1>6, <2>2
  <2>4. f[i] \in Fusers
    BY <1>4, <2>1, <2>3, FuserStep
  <2>5. ASSUME NEW out, Complete(out) PROVE Faithful(out, f[i][out], L[i])
    <3>1. Faithful(out, fuse_unwrapped_commandsR(b, b[i], f, out), L[i])
      BY <1>4, <2>3, <2>5, FaithfulStep
    <3>2. out \in Seq(UnwrappedCommands)
      BY <2>5 DEF Complete
    <3>3. f[i][out] = fuse_unwrapped_commandsR(b, b[i], f, out)
      BY <2>1, <3>2 DEF Fuser
    <3> QED
      BY <3>1, <3>3
  <2>6. Keeps(f[i], L[i])
    BY <2>5 DEF Keeps
  <2> QED
    BY <1>4, <2>4, <2>6
<1>7. \A i \in 1 .. N : f[i] \in X[i]
  BY <1>5, <1>6, RecursionTyped
<1>8. Keeps(f[N], L[N])
  BY <1>4, <1>5, <1>7
<1>9. Faithful(<<>>, f[N][<<>>], L[N])
  BY <1>8, EmptyComplete DEF Keeps
<1> QED
  BY <1>3, <1>4, <1>9 DEF Faithful

=============================================================================
