---------------------------- MODULE LanguageProofs ----------------------------
(***************************************************************************)
(* Proofs about the words that expressions and their automata stand for.   *)
(* The automata built from an expression accept the words of it,           *)
(* for every list of expressions, every set of characters and every bound  *)
(* on the length of the words, through all that is done to them - the      *)
(* fusing of unwrapped commands, the building of the NDFA from the         *)
(* commands, the subset construction of Dfa, the refinement of the         *)
(* partition of its states and their renumbering -; the branches that are  *)
(* generated for the minimized automaton take the strings these words      *)
(* stand for, and the minimized automaton is minimal; the expression of    *)
(* identifiers itself, put together of two texts and the keywords, means   *)
(* what the texts describe; and first_chars finds what the words of an     *)
(* expression begin with.                                                  *)
(***************************************************************************)
EXTENDS AutomataProofs

-----------------------------------------------------------------------------
(* The reference, Words: the words, with actions, up to a length.          *)

Acted     == [gc : Gen_chars, act : Nat]
WordsOver == SUBSET Seq(Acted)

(* The words of W are those of X of at most n letters, but for actions.    *)
Spells(W, X, n) ==
  /\ W \in WordsOver
  /\ \A w \in W : Len(w) <= n /\ Spelling(w) \in X
  /\ \A x \in X : Len(x) <= n => \E w \in W : Spelling(w) = x

LEMMA SameStrings ==
  ASSUME NEW S, NEW s \in Seq(S), NEW t \in Seq(S), Len(s) = Len(t),
         \A k \in 1 .. Len(s) : s[k] = t[k]
  PROVE  s = t
OBVIOUS

LEMMA SpellingIs ==
  ASSUME NEW w \in Seq(Acted)
  PROVE  /\ Spelling(w) \in Strings /\ Len(Spelling(w)) = Len(w)
         /\ Len(w) \in Nat /\ \A k \in 1 .. Len(w) : Spelling(w)[k] = w[k].gc
<1>1. ASSUME NEW k \in 1 .. Len(w) PROVE w[k].gc \in Gen_chars
  <2>1. w[k] \in Acted
    OBVIOUS
  <2> QED
    BY <2>1 DEF Acted
<1>2. DOMAIN w = 1 .. Len(w) /\ Len(w) \in Nat
  OBVIOUS
<1>3. PICK s : s = [k \in 1 .. Len(w) |-> w[k].gc]
  OBVIOUS
<1>4. s = Spelling(w)
  BY <1>2, <1>3 DEF Spelling
<1>5. s \in Seq(Gen_chars) /\ Len(s) = Len(w)
  BY <1>1, <1>2, <1>3
<1> QED
  BY <1>2, <1>3, <1>4, <1>5 DEF Strings

LEMMA SpellingJoined ==
  ASSUME NEW v \in Seq(Acted), NEW w \in Seq(Acted)
  PROVE  /\ v \o w \in Seq(Acted) /\ Len(v \o w) = Len(v) + Len(w)
         /\ Spelling(v \o w) = Spelling(v) \o Spelling(w)
<1>1. PICK n, l : n = Len(v) /\ l = Len(w)
  OBVIOUS
<1>2. n \in Nat /\ l \in Nat
  BY <1>1
<1>3. PICK x : x = v \o w
  OBVIOUS
<1>4. /\ x \in Seq(Acted) /\ Len(x) = n + l
      /\ \A k \in 1 .. n : x[k] = v[k]
      /\ \A k \in 1 .. l : x[n + k] = w[k]
  BY <1>1, <1>2, <1>3, TogetherAre, SMT
<1>5. PICK s, t, y, z :
        s = Spelling(v) /\ t = Spelling(w) /\ y = s \o t /\ z = Spelling(x)
  OBVIOUS
<1>6. /\ s \in Seq(Gen_chars) /\ t \in Seq(Gen_chars)
      /\ n = Len(s) /\ l = Len(t)
      /\ \A k \in 1 .. n : s[k] = v[k].gc
      /\ \A k \in 1 .. l : t[k] = w[k].gc
  BY <1>1, <1>5, SpellingIs DEF Strings
<1>7. /\ y \in Seq(Gen_chars) /\ Len(y) = n + l
      /\ \A k \in 1 .. n : y[k] = s[k]
      /\ \A k \in 1 .. l : y[n + k] = t[k]
  <2>1. y = s \o t
    BY <1>5
  <2> QED
    BY <2>1, <1>2, <1>6, TogetherAre, SMT
<1>8. /\ z \in Seq(Gen_chars) /\ Len(z) = n + l
      /\ \A k \in 1 .. n + l : z[k] = x[k].gc
  BY <1>4, <1>5, SpellingIs DEF Strings
<1>9. ASSUME NEW k \in 1 .. n + l PROVE z[k] = y[k]
  <2>1. CASE k \in 1 .. n
    BY <2>1, <1>4, <1>6, <1>7, <1>8
  <2>2. CASE k \notin 1 .. n
    <3>1. PICK j : j = k - n
      OBVIOUS
    <3>2. j \in 1 .. l /\ k = n + j
      BY <1>2, <2>2, <3>1
    <3>3. x[k] = w[j] /\ y[k] = t[j] /\ t[j] = w[j].gc
      BY <1>4, <1>6, <1>7, <3>2
    <3> QED
      BY <1>8, <3>3
  <2> QED
    BY <2>1, <2>2
<1>10. z = y
  BY <1>2, <1>7, <1>8, <1>9, SameStrings
<1> QED
  BY <1>1, <1>3, <1>4, <1>5, <1>10

LEMMA SpellsUnion ==
  ASSUME NEW V, NEW X, NEW W, NEW Y, NEW n, Spells(V, X, n), Spells(W, Y, n)
  PROVE  Spells(V \cup W, X \cup Y, n)
BY DEF Spells, WordsOver

LEMMA SpellsNothing ==
  ASSUME NEW n \in Nat
  PROVE  Spells({<<>>}, {<<>>}, n)
<1>1. <<>> \in Seq(Acted) /\ Len(<<>>) = 0 /\ Spelling(<<>>) = <<>>
  BY DEF Spelling
<1> QED
  BY <1>1 DEF Spells, WordsOver

LEMMA JoinIs ==
  ASSUME NEW V \in WordsOver, NEW W \in WordsOver, NEW n \in Nat
  PROVE  /\ Join(V, W, n) \in WordsOver
         /\ \A v \in V : \A w \in W :
              Len(v) + Len(w) <= n => v \o w \in Join(V, W, n)
         /\ \A x \in Join(V, W, n) : \E v \in V : \E w \in W :
              x = v \o w /\ Len(x) <= n
<1>1. \A v \in V : \A w \in W :
        v \o w \in Seq(Acted) /\ Len(v \o w) = Len(v) + Len(w)
  BY SpellingJoined DEF WordsOver
<1> DEFINE P == {x \o y : x \in V, y \in W}
<1>3. Join(V, W, n) = {w \in P : Len(w) <= n}
  BY DEF Join
<1>4. \A v \in V : \A w \in W : v \o w \in P
  OBVIOUS
<1>5. \A x \in P : \E v \in V : \E w \in W : x = v \o w
  OBVIOUS
<1> HIDE DEF P
<1>6. P \subseteq Seq(Acted)
  BY <1>1, <1>5
<1>7. \A v \in V : \A w \in W :
        Len(v) + Len(w) <= n => v \o w \in Join(V, W, n)
  BY <1>1, <1>3, <1>4
<1> QED
  BY <1>3, <1>5, <1>6, <1>7 DEF WordsOver

LEMMA SpellsJoin ==
  ASSUME NEW V, NEW X, X \subseteq Strings, NEW W, NEW Y, Y \subseteq Strings,
         NEW n \in Nat, Spells(V, X, n), Spells(W, Y, n)
  PROVE  Spells(Join(V, W, n), Cat(X, Y), n)
<1>1. V \in WordsOver /\ W \in WordsOver
  BY DEF Spells
<1>2. Join(V, W, n) \in WordsOver
  BY <1>1, JoinIs
<1>3. ASSUME NEW x \in Join(V, W, n)
      PROVE  Len(x) <= n /\ Spelling(x) \in Cat(X, Y)
  <2>1. PICK v \in V, w \in W : x = v \o w /\ Len(x) <= n
    BY <1>1, JoinIs
  <2>2. v \in Seq(Acted) /\ w \in Seq(Acted)
    BY <1>1 DEF WordsOver
  <2>3. Spelling(x) = Spelling(v) \o Spelling(w)
    BY <2>1, <2>2, SpellingJoined
  <2>4. Spelling(v) \in X /\ Spelling(w) \in Y
    BY DEF Spells
  <2>5. Spelling(v) \o Spelling(w) \in Cat(X, Y)
    BY <2>4, CatIs
  <2> QED
    BY <2>1, <2>3, <2>5
<1>4. ASSUME NEW x \in Cat(X, Y), Len(x) <= n
      PROVE  \E w \in Join(V, W, n) : Spelling(w) = x
  <2>1. PICK u \in X, y \in Y : x = u \o y
    BY DEF Cat
  <2>2. Len(u) \in Nat /\ Len(y) \in Nat /\ Len(x) = Len(u) + Len(y)
    BY <2>1 DEF Strings
  <2>3. Len(u) <= n /\ Len(y) <= n
    BY <1>4, <2>2
  <2>4. PICK v \in V : Spelling(v) = u
    BY <2>3 DEF Spells
  <2>5. PICK w \in W : Spelling(w) = y
    BY <2>3 DEF Spells
  <2>6. v \in Seq(Acted) /\ w \in Seq(Acted)
    BY <1>1 DEF WordsOver
  <2>7. Len(v) = Len(u) /\ Len(w) = Len(y)
    BY <2>4, <2>5, <2>6, SpellingIs
  <2>8. v \o w \in Join(V, W, n)
    <3>1. n \in Nat /\ Len(v) + Len(w) <= n
      BY <1>4, <2>2, <2>7
    <3>2. v \in V /\ w \in W
      OBVIOUS
    <3> QED
      BY ONLY <1>1, <3>1, <3>2, JoinIs
  <2>9. Spelling(v \o w) = x
    BY <2>1, <2>4, <2>5, <2>6, SpellingJoined
  <2> QED
    BY <2>8, <2>9
<1> QED
  BY <1>2, <1>3, <1>4 DEF Spells

LEMMA SpellsLetters ==
  ASSUME NEW S, S \subseteq Gen_chars, NEW a \in Nat, NEW n \in Nat, n >= 1,
         NEW W, W = {<< [gc |-> gc, act |-> a] >> : gc \in S}
  PROVE  Spells(W, LettersWords(S), n)
<1>1. ASSUME NEW gc \in S
      PROVE  /\ << [gc |-> gc, act |-> a] >> \in Seq(Acted)
             /\ Len(<< [gc |-> gc, act |-> a] >>) = 1
             /\ Spelling(<< [gc |-> gc, act |-> a] >>) = <<gc>>
  <2>1. PICK r : r = [gc |-> gc, act |-> a]
    OBVIOUS
  <2>2. r \in Acted /\ r.gc = gc
    BY <2>1 DEF Acted
  <2>3. PICK w : w = <<r>>
    OBVIOUS
  <2>4. w \in Seq(Acted) /\ Len(w) = 1 /\ w[1] = r
    BY <2>2, <2>3
  <2>5. Spelling(w) \in Seq(Gen_chars) /\ Len(Spelling(w)) = 1 /\ Spelling(w)[1] = gc
    BY <2>2, <2>4, SpellingIs DEF Strings
  <2>6. <<gc>> \in Seq(Gen_chars) /\ Len(<<gc>>) = 1 /\ <<gc>>[1] = gc
    OBVIOUS
  <2>7. Spelling(w) = <<gc>>
    BY <2>5, <2>6, SameStrings
  <2> QED
    BY <2>1, <2>3, <2>4, <2>7
<1>2. W \in WordsOver
  BY <1>1 DEF WordsOver
<1>3. \A w \in W : Len(w) <= n /\ Spelling(w) \in LettersWords(S)
  BY <1>1 DEF LettersWords
<1>4. \A x \in LettersWords(S) : Len(x) <= n => \E w \in W : Spelling(w) = x
  BY <1>1 DEF LettersWords
<1> QED
  BY <1>2, <1>3, <1>4 DEF Spells

(* Repeated: one round more at every step.                                 *)
IsRepeated(X, Z, n, f) ==
  f = [k \in 0 .. n |-> IF k = 0 THEN Z ELSE f[k - 1] \cup Join(f[k - 1], X, n)]

LEMMA RepeatedExists ==
  ASSUME NEW X \in WordsOver, NEW Z \in WordsOver, NEW n \in Nat
  PROVE  \E f : /\ IsRepeated(X, Z, n, f)
                /\ \A k \in 0 .. n : f[k] \in WordsOver
<1>1. PICK T : T = [k \in 0 .. n |-> WordsOver]
  OBVIOUS
<1>2. PICK G : G = [k \in 0 .. n |-> [W \in WordsOver |-> W \cup Join(W, X, n)]]
  OBVIOUS
<1>3. \A k \in 0 .. n : \A W \in WordsOver : G[k][W] = W \cup Join(W, X, n)
  BY <1>2
<1>4. \A W \in WordsOver : W \cup Join(W, X, n) \in WordsOver
  <2>1. \A W \in WordsOver : Join(W, X, n) \in WordsOver
    BY JoinIs
  <2> QED
    BY <2>1 DEF WordsOver
<1>5. \A k \in 0 .. n : T[k] = WordsOver
  BY <1>1
<1>6. \A k \in 0 + 1 .. n : \A W \in T[k - 1] : G[k][W] \in T[k]
  <2>1. \A k \in 0 + 1 .. n : k \in 0 .. n /\ k - 1 \in 0 .. n
    OBVIOUS
  <2> QED
    BY <2>1, <1>3, <1>4, <1>5
<1>7. Z \in T[0]
  BY <1>5
<1>8. PICK f : Steps(f, G, Z, 0, n) /\ \A k \in 0 .. n : f[k] \in T[k]
  BY <1>6, <1>7, StepsExist
<1>9. \A k \in 0 .. n : f[k] \in WordsOver
  BY <1>5, <1>8
<1>10. ASSUME NEW k \in 0 .. n
       PROVE  f[k] = IF k = 0 THEN Z ELSE f[k - 1] \cup Join(f[k - 1], X, n)
  <2>1. f[k] = IF k = 0 THEN Z ELSE G[k][f[k - 1]]
    BY <1>8 DEF Steps
  <2>2. k # 0 => k - 1 \in 0 .. n
    OBVIOUS
  <2>3. k # 0 => G[k][f[k - 1]] = f[k - 1] \cup Join(f[k - 1], X, n)
    BY <1>3, <1>9, <2>2
  <2> QED
    BY <2>1, <2>3
<1>11. f = [k \in 0 .. n |-> f[k]]
  BY <1>8 DEF Steps
<1>12. IsRepeated(X, Z, n, f)
  BY <1>10, <1>11 DEF IsRepeated
<1> QED
  BY <1>9, <1>12

LEMMA SpellsRepeated ==
  ASSUME NEW n \in Nat, NEW V, NEW X, X \subseteq Strings, Spells(V, X, n),
         NEW Z, NEW Y, Y \subseteq Strings, Spells(Z, Y, n)
  PROVE  Spells(Repeated(V, Z, n), Cat(Y, Star(X)), n)
<1>1. V \in WordsOver /\ Z \in WordsOver
  BY DEF Spells
<1>2. PICK f : f = CHOOSE g : IsRepeated(V, Z, n, g)
  OBVIOUS
<1>3. IsRepeated(V, Z, n, f)
  BY <1>1, <1>2, RepeatedExists, Zenon
<1>4. Repeated(V, Z, n) = f[n]
  BY <1>2, Zenon DEF Repeated, IsRepeated
<1>5. /\ f[0] = Z
      /\ \A k \in 1 .. n : f[k] = f[k - 1] \cup Join(f[k - 1], V, n)
  <2>1. 0 \in 0 .. n /\ \A k \in 1 .. n : k \in 0 .. n /\ k # 0
    OBVIOUS
  <2> QED
    BY <1>3, <2>1 DEF IsRepeated
<1>6. Star(X) \subseteq Strings /\ <<>> \in Star(X)
  BY StarIs
<1>7. PICK C : C = Cat(Y, Star(X))
  OBVIOUS
<1>8. /\ C \subseteq Strings /\ \A y \in Y : y \in C
      /\ \A c \in C : \A x \in X : c \o x \in C
  <2>1. C \subseteq Strings
    BY <1>6, <1>7, CatIs
  <2>2. ASSUME NEW y \in Y PROVE y \in C
    <3>1. y \o <<>> \in C /\ y \in Strings
      BY <1>6, <1>7, CatIs
    <3>2. y \o <<>> = y
      BY <3>1, Strung
    <3> QED
      BY <3>1, <3>2
  <2>3. ASSUME NEW c \in C, NEW x \in X PROVE c \o x \in C
    <3>1. PICK y \in Y, k \in Star(X) : c = y \o k
      BY <1>7 DEF Cat
    <3>2. k \o x \in Star(X)
      BY StarRight
    <3>3. y \o (k \o x) \in C
      BY <1>6, <1>7, <3>2, CatIs
    <3>4. y \in Strings /\ k \in Strings /\ x \in Strings
      BY <1>6
    <3>5. (y \o k) \o x = y \o (k \o x)
      BY <3>4, Strung
    <3> QED
      BY <3>1, <3>3, <3>5
  <2> QED
    BY <2>1, <2>2, <2>3
<1>9. PICK T : T = [k \in 0 .. n |->
                      {W \in WordsOver : \A w \in W : Len(w) <= n /\ Spelling(w) \in C}]
  OBVIOUS
<1>10. ASSUME NEW k \in 0 .. n, \A j \in 0 .. k - 1 : f[j] \in T[j]
       PROVE  f[k] \in T[k]
  <2>1. CASE k = 0
    <3>1. \A w \in Z : Len(w) <= n /\ Spelling(w) \in C
      BY <1>8 DEF Spells
    <3> QED
      BY <2>1, <3>1, <1>1, <1>5, <1>9
  <2>2. CASE k # 0
    <3>1. PICK W : W = f[k - 1]
      OBVIOUS
    <3>2. W \in WordsOver /\ \A w \in W : Len(w) <= n /\ Spelling(w) \in C
      <4>1. k - 1 \in 0 .. k - 1 /\ k - 1 \in 0 .. n
        BY <2>2
      <4> QED
        BY <4>1, <3>1, <1>9, <1>10
    <3>3. f[k] = W \cup Join(W, V, n)
      BY <2>2, <3>1, <1>5
    <3>4. Join(W, V, n) \in WordsOver
      BY <1>1, <3>2, JoinIs
    <3>5. ASSUME NEW x \in Join(W, V, n) PROVE Len(x) <= n /\ Spelling(x) \in C
      <4>1. PICK w \in W, v \in V : x = w \o v /\ Len(x) <= n
        BY <1>1, <3>2, JoinIs
      <4>2. w \in Seq(Acted) /\ v \in Seq(Acted)
        BY <1>1, <3>2 DEF WordsOver
      <4>3. Spelling(x) = Spelling(w) \o Spelling(v)
        BY <4>1, <4>2, SpellingJoined
      <4>4. Spelling(w) \in C /\ Spelling(v) \in X
        BY <3>2 DEF Spells
      <4> QED
        BY <4>1, <4>3, <4>4, <1>8
    <3>6. W \cup Join(W, V, n) \in WordsOver
      BY <3>2, <3>4 DEF WordsOver
    <3> QED
      BY <1>9, <3>2, <3>3, <3>5, <3>6
  <2> QED
    BY <2>1, <2>2
<1>11. \A k \in 0 .. n : f[k] \in T[k]
  BY <1>10, RecursionTyped
<1>12. /\ f[n] \in WordsOver /\ \A w \in f[n] : Len(w) <= n /\ Spelling(w) \in C
       /\ \A k \in 0 .. n : f[k] \in WordsOver
  <2>1. n \in 0 .. n
    OBVIOUS
  <2> QED
    BY <2>1, <1>9, <1>11
<1>13. \A k \in 0 .. n : \A j \in 0 .. k : f[j] \subseteq f[k]
  <2>1. PICK P : P = [k \in 0 .. n |->
                       {W \in WordsOver : \A j \in 0 .. k : f[j] \subseteq W}]
    OBVIOUS
  <2>2. ASSUME NEW k \in 0 .. n, \A j \in 0 .. k - 1 : f[j] \in P[j]
        PROVE  f[k] \in P[k]
    <3>1. CASE k = 0
      BY <3>1, <2>1, <1>12
    <3>2. CASE k # 0
      <4>1. k - 1 \in 0 .. k - 1 /\ k - 1 \in 0 .. n /\ k \in 1 .. n
        BY <3>2
      <4>2. \A j \in 0 .. k - 1 : f[j] \subseteq f[k - 1]
        BY <2>1, <2>2, <4>1
      <4>3. f[k - 1] \subseteq f[k]
        BY <1>5, <4>1
      <4>4. ASSUME NEW j \in 0 .. k PROVE f[j] \subseteq f[k]
        <5>1. CASE j = k
          BY <5>1
        <5>2. CASE j # k
          <6>1. j \in 0 .. k - 1
            BY <5>2
          <6> QED
            BY <6>1, <4>2, <4>3
        <5> QED
          BY <5>1, <5>2
      <4> QED
        BY <4>4, <2>1, <1>12
    <3> QED
      BY <3>1, <3>2
  <2>3. \A k \in 0 .. n : f[k] \in P[k]
    BY <2>2, RecursionTyped
  <2> QED
    BY <2>1, <2>3
<1>14. PICK K : K = {u \in Strings : \A y \in Y : Len(y \o u) <= n =>
                       \E w \in f[Len(u)] : Spelling(w) = y \o u}
  OBVIOUS
<1>15. K \in SUBSET Strings
  BY <1>14
<1>16. <<>> \in K
  <2>1. <<>> \in Strings /\ Len(<<>>) = 0
    BY Strung
  <2>2. ASSUME NEW y \in Y, Len(y \o <<>>) <= n
        PROVE  \E w \in f[Len(<<>>)] : Spelling(w) = y \o <<>>
    <3>1. y \o <<>> = y
      BY Strung
    <3> QED
      BY <1>5, <2>1, <2>2, <3>1 DEF Spells
  <2> QED
    BY <1>14, <2>1, <2>2
<1>17. ASSUME NEW k \in K, NEW x \in X
       PROVE  k \o x \in K
  <2>1. k \in Strings /\ x \in Strings /\ k \o x \in Strings
    BY <1>14, Strung
  <2>2. CASE x = <<>>
    BY <2>1, <2>2, Strung
  <2>3. CASE x # <<>>
    <3>1. ASSUME NEW y \in Y, Len(y \o (k \o x)) <= n
          PROVE  \E w \in f[Len(k \o x)] : Spelling(w) = y \o (k \o x)
      <4>1. y \in Strings
        OBVIOUS
      <4>2. PICK l, m, p : l = Len(k) /\ m = Len(x) /\ p = Len(y)
        OBVIOUS
      <4>3. /\ l \in Nat /\ m \in Nat /\ p \in Nat /\ m > 0
            /\ Len(k \o x) = l + m /\ Len(y \o k) = p + l
            /\ Len(y \o (k \o x)) = p + (l + m)
        BY <2>1, <2>3, <4>1, <4>2 DEF Strings
      <4>4. p + l <= n /\ l + m <= n /\ l + 1 <= l + m /\ l + 1 \in 1 .. n
            /\ l + 1 \in 0 .. l + m /\ l + m \in 0 .. n /\ m <= n
            /\ (l + 1) - 1 = l /\ l \in 0 .. n
        BY <3>1, <4>3
      <4>5. PICK w \in f[l] : Spelling(w) = y \o k
        BY <1>14, <4>2, <4>3, <4>4
      <4>6. PICK v \in V : Spelling(v) = x
        BY <4>2, <4>4 DEF Spells
      <4>7. w \in Seq(Acted) /\ v \in Seq(Acted)
        BY <1>1, <1>12, <4>4 DEF WordsOver
      <4>8. Len(w) = p + l /\ Len(v) = m
        BY <4>2, <4>3, <4>5, <4>6, <4>7, SpellingIs
      <4>9. Len(w) + Len(v) <= n
        BY <3>1, <4>3, <4>8
      <4>10. w \o v \in Join(f[l], V, n)
        BY <1>1, <1>12, <4>4, <4>9, JoinIs
      <4>11. w \o v \in f[l + 1]
        BY <1>5, <4>4, <4>10
      <4>12. w \o v \in f[l + m]
        BY <1>13, <4>4, <4>11
      <4>13. Spelling(w \o v) = (y \o k) \o x
        BY <4>5, <4>6, <4>7, SpellingJoined
      <4>14. (y \o k) \o x = y \o (k \o x)
        BY <2>1, <4>1, Strung
      <4> QED
        BY <4>3, <4>12, <4>13, <4>14
    <3> QED
      BY <1>14, <2>1, <3>1
  <2> QED
    BY <2>2, <2>3
<1>18. Star(X) \subseteq K
  BY <1>15, <1>16, <1>17, StarLeastRight
<1>19. ASSUME NEW c \in C, Len(c) <= n
       PROVE  \E w \in f[n] : Spelling(w) = c
  <2>1. PICK y \in Y, u \in Star(X) : c = y \o u
    BY <1>7 DEF Cat
  <2>2. u \in K /\ u \in Strings /\ y \in Strings
    BY <1>6, <1>18
  <2>3. PICK w \in f[Len(u)] : Spelling(w) = c
    BY <1>14, <1>19, <2>1, <2>2
  <2>4. Len(u) \in 0 .. n /\ n \in 0 .. n
    <3>1. Len(u) \in Nat /\ Len(y) \in Nat /\ Len(y \o u) = Len(y) + Len(u)
      BY <2>2 DEF Strings
    <3> QED
      BY <3>1, <2>1, <1>19
  <2>5. w \in f[n]
    BY <1>13, <2>4
  <2> QED
    BY <2>3, <2>5
<1> QED
  BY <1>4, <1>7, <1>12, <1>19 DEF Spells

(* Joined: one operand more at every step.                                 *)
InRow(X, first, last, n, f) ==
  f = [k \in first .. last |-> IF k = first THEN X[k] ELSE Join(f[k - 1], X[k], n)]

LEMMA JoinedExists ==
  ASSUME NEW first \in Nat, NEW last \in Nat, first <= last, NEW n \in Nat,
         NEW X, \A k \in first .. last : X[k] \in WordsOver
  PROVE  \E f : InRow(X, first, last, n, f)
<1>1. PICK T : T = [k \in first .. last |-> WordsOver]
  OBVIOUS
<1>2. PICK G : G = [k \in first .. last |->
                      [W \in WordsOver |-> Join(W, X[k], n)]]
  OBVIOUS
<1>3. \A k \in first .. last : \A W \in WordsOver : G[k][W] = Join(W, X[k], n)
  BY <1>2
<1>4. \A k \in first .. last : \A W \in WordsOver : Join(W, X[k], n) \in WordsOver
  BY JoinIs
<1>5. \A k \in first .. last : T[k] = WordsOver
  BY <1>1
<1>6. \A k \in first + 1 .. last : \A W \in T[k - 1] : G[k][W] \in T[k]
  <2>1. \A k \in first + 1 .. last : k \in first .. last /\ k - 1 \in first .. last
    OBVIOUS
  <2> QED
    BY <2>1, <1>3, <1>4, <1>5
<1>7. PICK s : s = X[first]
  OBVIOUS
<1>8. s \in T[first]
  <2>1. first \in first .. last
    OBVIOUS
  <2> QED
    BY <2>1, <1>5, <1>7
<1>9. PICK f : Steps(f, G, s, first, last) /\ \A k \in first .. last : f[k] \in T[k]
  BY <1>6, <1>8, StepsExist
<1>10. \A k \in first .. last : f[k] \in WordsOver
  BY <1>5, <1>9
<1>11. ASSUME NEW k \in first .. last
       PROVE  f[k] = IF k = first THEN X[k] ELSE Join(f[k - 1], X[k], n)
  <2>1. f[k] = IF k = first THEN s ELSE G[k][f[k - 1]]
    BY <1>9 DEF Steps
  <2>2. k # first => k - 1 \in first .. last
    OBVIOUS
  <2>3. k # first => G[k][f[k - 1]] = Join(f[k - 1], X[k], n)
    BY <1>3, <1>10, <2>2
  <2> QED
    BY <1>7, <2>1, <2>3
<1>12. f = [k \in first .. last |-> f[k]]
  BY <1>9 DEF Steps
<1>13. InRow(X, first, last, n, f)
  BY <1>11, <1>12 DEF InRow
<1> QED
  BY <1>13

(* The words of the commands joined are those of a multiconcat.            *)
LEMMA SpellsJoined ==
  ASSUME NEW b, NEW first \in Nat, NEW last \in Nat, first <= last,
         NEW n \in Nat, NEW X,
         \A k \in first .. last : Letters(b[k]) \subseteq Gen_chars,
         \A k \in first .. last : Spells(X[k], LettersWords(Letters(b[k])), n)
  PROVE  Spells(Joined(X, first, last, n), Row(b, first, last), n)
<1>1. \A k \in first .. last : X[k] \in WordsOver
  BY DEF Spells
<1>2. PICK f : f = CHOOSE g : InRow(X, first, last, n, g)
  OBVIOUS
<1>3. InRow(X, first, last, n, f)
  BY <1>1, <1>2, JoinedExists, Zenon
<1>4. Joined(X, first, last, n) = f[last]
  BY <1>2, Zenon DEF Joined, InRow
<1>5. PICK T : T = [k \in first .. last |->
                      {W \in WordsOver : Spells(W, Row(b, first, k), n)}]
  OBVIOUS
<1>6. ASSUME NEW k \in first .. last, \A j \in first .. k - 1 : f[j] \in T[j]
      PROVE  f[k] \in T[k]
  <2>1. k \in Nat
    OBVIOUS
  <2>2. CASE k = first
    <3>1. f[k] = X[k]
      BY <2>2, <1>3 DEF InRow
    <3>2. Row(b, k, k) = LettersWords(Letters(b[k]))
      BY <2>1, RowOne
    <3>3. Spells(f[k], Row(b, first, k), n)
      BY <2>2, <3>1, <3>2
    <3> QED
      BY <3>1, <3>3, <1>1, <1>5
  <2>3. CASE k # first
    <3>1. PICK j : j = k - 1
      OBVIOUS
    <3>2. j \in first .. k - 1 /\ j \in first .. last /\ first < k
      BY <3>1, <2>1, <2>3
    <3>3. PICK W : W = f[j]
      OBVIOUS
    <3>4. Spells(W, Row(b, first, j), n)
      BY <1>5, <1>6, <3>2, <3>3
    <3>5. f[k] = Join(W, X[k], n)
      BY <1>3, <2>3, <3>1, <3>3 DEF InRow
    <3>6. PICK R, Q : R = Row(b, first, j) /\ Q = LettersWords(Letters(b[k]))
      OBVIOUS
    <3>7. R \subseteq Strings
      BY <3>6 DEF Row
    <3>8. Q \subseteq Strings
      <4>1. Letters(b[k]) \subseteq Gen_chars
        OBVIOUS
      <4> QED
        BY <3>6, <4>1, LetterWord DEF LettersWords
    <3>9. Spells(X[k], Q, n) /\ Spells(W, R, n)
      BY <3>4, <3>6
    <3>10. Spells(Join(W, X[k], n), Cat(R, Q), n)
      BY <3>7, <3>8, <3>9, SpellsJoin
    <3>11. Row(b, first, k) = Cat(R, Q)
      BY <2>1, <3>1, <3>2, <3>6, RowMore
    <3>12. Spells(f[k], Row(b, first, k), n)
      BY <3>5, <3>10, <3>11
    <3> QED
      BY <1>5, <3>12 DEF Spells
  <2> QED
    BY <2>2, <2>3
<1>7. \A k \in first .. last : f[k] \in T[k]
  BY <1>6, RecursionTyped
<1>8. last \in first .. last
  OBVIOUS
<1> QED
  BY <1>4, <1>5, <1>7, <1>8

(* The words of one command, of those of the commands before it.           *)
Worded(com, words, n) ==
  LET X == words[com.first]
  IN CASE com.kind = "or"       -> X \cup words[com.second]
       [] com.kind = "concat"   -> Join(X, words[com.second], n)
       [] com.kind = "Kleene"   -> Repeated(X, {<<>>}, n)
       [] com.kind = "positive" -> Repeated(X, X, n)
       [] com.kind = "optional" -> X \cup {<<>>}
       [] com.kind = "multiconcat" ->
            Joined([k \in com.first .. com.second |-> words[k]],
                   com.first, com.second, n)
       [] OTHER -> {<< [gc |-> gc, act |-> com.action_name] >> :
                      gc \in Letters(com)}

IsWords(b, n, f) == f = [i \in 1 .. Len(b) |-> Worded(b[i], f, n)]

LEMMA WordedSame ==
  ASSUME NEW b, Complete(b), NEW i \in 1 .. Len(b), NEW g, NEW h,
         \A j \in 1 .. i - 1 : g[j] = h[j], NEW n
  PROVE  Worded(b[i], g, n) = Worded(b[i], h, n)
<1>1. PICK com : com = b[i]
  OBVIOUS
<1>2. com \in UnwrappedCommands /\ InPlace(b, i) /\ i \in Nat
  <2>1. Len(b) \in Nat /\ i \in DOMAIN b
    BY DEF Complete
  <2> QED
    BY <1>1, <2>1 DEF Complete
<1>3. /\ com.kind \in Binary \cup Unary \cup Simple \cup {"multiconcat"}
      /\ com.first \in Nat /\ com.second \in Nat
  BY <1>2, Zenon DEF UnwrappedCommands, Simple
<1>4. CASE com.kind \in Binary
  <2>1. g[com.first] = h[com.first] /\ g[com.second] = h[com.second]
    BY <1>1, <1>2, <1>4 DEF InPlace, Placed
  <2>2. CASE com.kind = "or"
    BY <1>1, <2>1, <2>2, Zenon DEF Worded
  <2>3. CASE com.kind = "concat"
    BY <1>1, <2>1, <2>3, Zenon DEF Worded
  <2> QED
    BY <1>4, <2>2, <2>3, Zenon DEF Binary
<1>5. CASE com.kind = "multiconcat"
  <2>1. com.first \in 1 .. i - 1 /\ com.second \in com.first .. i - 1
    BY <1>1, <1>2, <1>5 DEF InPlace, Placed
  <2>2. \A k \in com.first .. com.second : k \in 1 .. i - 1
    BY <1>3, <2>1
  <2>3. \A k \in com.first .. com.second : g[k] = h[k]
    BY <2>2
  <2>4. [k \in com.first .. com.second |-> g[k]]
          = [k \in com.first .. com.second |-> h[k]]
    BY <2>3, Zenon
  <2> QED
    BY <1>1, <1>5, <2>4, Zenon DEF Worded
<1>6. CASE com.kind \in Unary
  <2>1. g[com.first] = h[com.first]
    BY <1>1, <1>2, <1>6 DEF InPlace, Placed
  <2>2. CASE com.kind = "Kleene"
    BY <1>1, <2>1, <2>2, Zenon DEF Worded
  <2>3. CASE com.kind = "positive"
    BY <1>1, <2>1, <2>3, Zenon DEF Worded
  <2>4. CASE com.kind = "optional"
    BY <1>1, <2>1, <2>4, Zenon DEF Worded
  <2> QED
    BY <1>6, <2>2, <2>3, <2>4, Zenon DEF Unary
<1>7. CASE com.kind = "multior"
  BY <1>1, <1>7, Zenon DEF Worded
<1>8. CASE com.kind \in {"char_def", "ndq", "nsq"}
  <2>1. \A x : Worded(com, x, n)
                 = {<< [gc |-> gc, act |-> com.action_name] >> :
                      gc \in Letters(com)}
    BY <1>8, Zenon DEF Worded
  <2> QED
    BY <1>1, <2>1, Zenon
<1> QED
  BY <1>3, <1>4, <1>5, <1>6, <1>7, <1>8, Zenon DEF Simple

LEMMA CatNothing ==
  ASSUME NEW Y, Y \subseteq Strings
  PROVE  Cat({<<>>}, Y) = Y
BY Strung DEF Cat

LEMMA WordedStep ==
  ASSUME NEW b, Complete(b), NEW i \in 1 .. Len(b), NEW L, Meaning(b, L),
         NEW n \in Nat, n >= 1, NEW words,
         \A j \in 1 .. i - 1 : Spells(words[j], L[j], n)
  PROVE  Spells(Worded(b[i], words, n), L[i], n)
<1>1. PICK com : com = b[i]
  OBVIOUS
<1>2. /\ com \in UnwrappedCommands /\ InPlace(b, i)
      /\ i \in Nat /\ i >= 1 /\ \A j \in 1 .. i - 1 : b[j] \in UnwrappedCommands
  <2>1. Len(b) \in Nat /\ i \in DOMAIN b /\ \A j \in 1 .. i - 1 : j \in DOMAIN b
    BY DEF Complete
  <2> QED
    BY <1>1, <2>1 DEF Complete
<1>3. /\ com.kind \in Binary \cup Unary \cup Simple \cup {"multiconcat"}
      /\ com.action_name \in Nat /\ com.first \in Nat /\ com.second \in Nat
  BY <1>2, Zenon DEF UnwrappedCommands, Simple
<1>4. /\ L[i] = Told(b, com, L)
      /\ \A j \in 1 .. i - 1 : L[j] \subseteq Strings
      /\ \A j \in 1 .. i - 1 : L[j] = Told(b, b[j], L)
  <2>1. \A j \in 1 .. i - 1 : j \in 1 .. Len(b)
    BY DEF Complete
  <2> QED
    BY <1>1, <2>1 DEF Meaning
<1>5. PICK V, X : V = words[com.first] /\ X = L[com.first]
  OBVIOUS
<1>6. PICK W, Y : W = words[com.second] /\ Y = L[com.second]
  OBVIOUS
<1>7. com.first \in 1 .. i - 1 => Spells(V, X, n) /\ X \subseteq Strings
  BY <1>4, <1>5
<1>8. com.second \in 1 .. i - 1 => Spells(W, Y, n) /\ Y \subseteq Strings
  BY <1>4, <1>6
<1>9. Spells({<<>>}, {<<>>}, n) /\ {<<>>} \subseteq Strings
  BY SpellsNothing, Strung
<1>10. CASE com.kind \in Binary
  <2>1. Spells(V, X, n) /\ X \subseteq Strings /\ Spells(W, Y, n) /\ Y \subseteq Strings
    BY <1>1, <1>2, <1>7, <1>8, <1>10 DEF InPlace, Placed
  <2>2. CASE com.kind = "or"
    <3>1. Worded(com, words, n) = V \cup W
      BY <1>5, <1>6, <2>2, Zenon DEF Worded
    <3>2. Told(b, com, L) = X \cup Y
      BY <1>5, <1>6, <2>2, Zenon DEF Told
    <3> QED
      BY <1>1, <1>4, <2>1, <3>1, <3>2, SpellsUnion
  <2>3. CASE com.kind = "concat"
    <3>1. Worded(com, words, n) = Join(V, W, n)
      BY <1>5, <1>6, <2>3, Zenon DEF Worded
    <3>2. Told(b, com, L) = Cat(X, Y)
      BY <1>5, <1>6, <2>3, Zenon DEF Told
    <3>3. Spells(Join(V, W, n), Cat(X, Y), n)
      BY <2>1, SpellsJoin
    <3> QED
      BY <1>1, <1>4, <3>1, <3>2, <3>3
  <2> QED
    BY <1>10, <2>2, <2>3, Zenon DEF Binary
<1>11. CASE com.kind = "multiconcat"
  <2>1. /\ com.first \in 1 .. i - 1 /\ com.second \in com.first .. i - 1
        /\ \A k \in com.first .. com.second : b[k].kind \in Simple
    BY <1>1, <1>2, <1>11 DEF InPlace, Placed
  <2>2. PICK ws : ws = [k \in com.first .. com.second |-> words[k]]
    OBVIOUS
  <2>3. \A k \in com.first .. com.second : k \in 1 .. i - 1 /\ ws[k] = words[k]
    BY <1>3, <2>1, <2>2
  <2>4. ASSUME NEW k \in com.first .. com.second
        PROVE  /\ Letters(b[k]) \subseteq Gen_chars
               /\ Spells(ws[k], LettersWords(Letters(b[k])), n)
    <3>1. k \in 1 .. i - 1 /\ ws[k] = words[k] /\ b[k] \in UnwrappedCommands
      BY <1>2, <2>3
    <3>2. Letters(b[k]) \subseteq Gen_chars
      BY <3>1, LettersAre
    <3>3. Spells(words[k], L[k], n) /\ L[k] = Told(b, b[k], L)
      BY <1>4, <3>1
    <3>4. L[k] = LettersWords(Letters(b[k]))
      BY <2>1, <3>3, ToldSimple
    <3> QED
      BY <3>1, <3>2, <3>3, <3>4
  <2>5. PICK x \in Nat, y \in Nat : x = com.first /\ y = com.second
    BY <1>3
  <2>6. /\ x <= y
        /\ \A k \in x .. y : Letters(b[k]) \subseteq Gen_chars
        /\ \A k \in x .. y : Spells(ws[k], LettersWords(Letters(b[k])), n)
    BY <1>3, <2>1, <2>4, <2>5
  <2>7. Spells(Joined(ws, x, y, n), Row(b, x, y), n)
    BY <2>6, SpellsJoined
  <2>8. Worded(com, words, n) = Joined(ws, x, y, n)
    BY <1>11, <2>2, <2>5, Zenon DEF Worded
  <2>9. Told(b, com, L) = Row(b, x, y)
    BY <1>11, <2>5, Zenon DEF Told
  <2> QED
    BY <1>1, <1>4, <2>7, <2>8, <2>9
<1>12. CASE com.kind \in Unary
  <2>1. Spells(V, X, n) /\ X \subseteq Strings
    BY <1>1, <1>2, <1>7, <1>12 DEF InPlace, Placed
  <2>2. CASE com.kind = "Kleene"
    <3>1. Worded(com, words, n) = Repeated(V, {<<>>}, n)
      BY <1>5, <2>2, Zenon DEF Worded
    <3>2. Told(b, com, L) = Star(X)
      BY <1>5, <2>2, Zenon DEF Told
    <3>3. PICK Z : Z = {<<>>}
      OBVIOUS
    <3>4. Z \subseteq Strings /\ Spells(Z, Z, n)
      BY <1>9, <3>3
    <3>5. Spells(Repeated(V, Z, n), Cat(Z, Star(X)), n)
      BY <2>1, <3>4, SpellsRepeated
    <3>6. Cat(Z, Star(X)) = Star(X)
      BY <2>1, <3>3, StarIs, CatNothing
    <3> QED
      BY <1>1, <1>4, <3>1, <3>2, <3>3, <3>5, <3>6
  <2>3. CASE com.kind = "positive"
    <3>1. Worded(com, words, n) = Repeated(V, V, n)
      BY <1>5, <2>3, Zenon DEF Worded
    <3>2. Told(b, com, L) = Cat(X, Star(X))
      BY <1>5, <2>3, Zenon DEF Told
    <3>3. PICK Z, Q : Z = V /\ Q = X
      OBVIOUS
    <3>4. Q \subseteq Strings /\ Spells(Z, Q, n)
      BY <2>1, <3>3
    <3>5. Spells(Repeated(V, Z, n), Cat(Q, Star(X)), n)
      BY <2>1, <3>4, SpellsRepeated
    <3> QED
      BY <1>1, <1>4, <3>1, <3>2, <3>3, <3>5
  <2>4. CASE com.kind = "optional"
    <3>1. Worded(com, words, n) = V \cup {<<>>}
      BY <1>5, <2>4, Zenon DEF Worded
    <3>2. Told(b, com, L) = X \cup {<<>>}
      BY <1>5, <2>4, Zenon DEF Told
    <3> QED
      BY <1>1, <1>4, <1>9, <2>1, <3>1, <3>2, SpellsUnion
  <2> QED
    BY <1>12, <2>2, <2>3, <2>4, Zenon DEF Unary
<1>13. CASE com.kind \in Simple
  <2>1. PICK S, a : S = Letters(com) /\ a = com.action_name
    OBVIOUS
  <2>2. S \subseteq Gen_chars /\ a \in Nat
    BY <1>2, <1>3, <2>1, LettersAre
  <2>3. PICK U : U = {<< [gc |-> gc, act |-> a] >> : gc \in S}
    OBVIOUS
  <2>4. Spells(U, LettersWords(S), n)
    BY <2>2, <2>3, SpellsLetters
  <2>5. Worded(com, words, n)
          = {<< [gc |-> gc, act |-> com.action_name] >> : gc \in Letters(com)}
    <3>1. CASE com.kind = "char_def"
      BY <3>1, Zenon DEF Worded
    <3>2. CASE com.kind = "multior"
      BY <3>2, Zenon DEF Worded
    <3>3. CASE com.kind = "ndq"
      BY <3>3, Zenon DEF Worded
    <3>4. CASE com.kind = "nsq"
      BY <3>4, Zenon DEF Worded
    <3> QED
      BY <1>13, <3>1, <3>2, <3>3, <3>4 DEF Simple
  <2>6. Worded(com, words, n) = U
    BY <2>1, <2>3, <2>5, Zenon
  <2>7. Told(b, com, L) = LettersWords(S)
    BY <1>13, <2>1, ToldSimple
  <2> QED
    BY <1>1, <1>4, <2>4, <2>6, <2>7
<1> QED
  BY <1>3, <1>10, <1>11, <1>12, <1>13, Zenon

LEMMA WordsExist ==
  ASSUME NEW b, Complete(b), NEW L, Meaning(b, L), NEW n \in Nat, n >= 1
  PROVE  \E f : IsWords(b, n, f)
<1> DEFINE N == Len(b)
           X == [i \in 1 .. N |-> {W \in WordsOver : Spells(W, L[i], n)}]
           Made(i, h) == Worded(b[i], h, n)
           F == [i \in 1 .. N |-> [h \in Earlier(X, 1, i) |-> Made(i, h)]]
<1>0. N \in Nat
  BY DEF Complete
<1>1. \A i \in 1 .. N : \A h \in Earlier(X, 1, i) : F[i][h] = Made(i, h)
  OBVIOUS
<1>2. ASSUME NEW i \in 1 .. N, NEW h \in Earlier(X, 1, i)
      PROVE  F[i][h] \in X[i]
  <2>0. \A j \in 1 .. i - 1 : h[j] \in X[j]
    <3> HIDE DEF X
    <3> QED
      BY DEF Earlier
  <2>1. \A j \in 1 .. i - 1 : h[j] \in X[j] /\ j \in 1 .. N
    <3> HIDE DEF X, N
    <3>1. \A j \in 1 .. i - 1 : j \in 1 .. N
      BY <1>0
    <3> QED
      BY <2>0, <3>1
  <2>2. \A j \in 1 .. i - 1 : Spells(h[j], L[j], n)
    BY <2>1
  <2>3. Spells(Made(i, h), L[i], n)
    BY <2>2, WordedStep
  <2>4. Made(i, h) \in WordsOver
    BY <2>3 DEF Spells
  <2>5. Made(i, h) \in X[i]
    BY <2>3, <2>4
  <2> QED
    BY <1>1, <2>5
<1> HIDE DEF X, F, N
<1>3. PICK f : /\ Recursive(f, F, 1, N)
               /\ \A i \in 1 .. N : Before(f, 1, i) \in Earlier(X, 1, i)
  BY <1>0, <1>2, Recursion
<1>4. ASSUME NEW i \in 1 .. N PROVE f[i] = Made(i, f)
  <2>1. f[i] = Made(i, Before(f, 1, i))
    BY <1>1, <1>3 DEF Recursive
  <2>2. \A j \in 1 .. i - 1 : Before(f, 1, i)[j] = f[j]
    BY DEF Before
  <2>3. PICK h : h = Before(f, 1, i)
    OBVIOUS
  <2>4. i \in 1 .. Len(b) /\ \A j \in 1 .. i - 1 : h[j] = f[j]
    BY <2>2, <2>3 DEF N
  <2>5. \A m : Worded(b[i], h, m) = Worded(b[i], f, m)
    BY <2>4, WordedSame, ZenonT(30)
  <2> QED
    BY <2>1, <2>3, <2>5
<1>5. f = [i \in 1 .. N |-> f[i]]
  BY <1>3 DEF Recursive
<1>6. IsWords(b, n, f)
  BY <1>4, <1>5 DEF IsWords, N
<1> QED
  BY <1>6

(* The words of a buffer, as the reference counts them up, are what its    *)
(* last command means.                                                     *)
LEMMA WordsMean ==
  ASSUME NEW b, Complete(b), b # <<>>, NEW L, Meaning(b, L),
         NEW n \in Nat, n >= 1
  PROVE  Spells(Words(b, n), L[Len(b)], n)
<1>1. PICK f : f = CHOOSE g : IsWords(b, n, g)
  OBVIOUS
<1>2. IsWords(b, n, f)
  BY <1>1, WordsExist, Zenon
<1>3. Words(b, n) = f[Len(b)]
  BY <1>1, Zenon DEF Words, IsWords, Worded
<1>4. PICK N, X :
        N = Len(b) /\ X = [i \in 1 .. N |-> {W \in WordsOver : Spells(W, L[i], n)}]
  OBVIOUS
<1>5. N \in Nat /\ N \in 1 .. N
  BY <1>4 DEF Complete
<1>6. ASSUME NEW i \in 1 .. N, \A j \in 1 .. i - 1 : f[j] \in X[j]
      PROVE  f[i] \in X[i]
  <2>1. f[i] = Worded(b[i], f, n)
    BY <1>2, <1>4 DEF IsWords
  <2>2. \A j \in 1 .. i - 1 : j \in 1 .. N
    BY <1>5
  <2>3. \A j \in 1 .. i - 1 : Spells(f[j], L[j], n)
    BY <1>4, <1>6, <2>2
  <2>4. Spells(Worded(b[i], f, n), L[i], n)
    BY <1>4, <2>3, WordedStep
  <2>5. f[i] \in WordsOver /\ Spells(f[i], L[i], n)
    BY <2>1, <2>4 DEF Spells
  <2> QED
    BY <1>4, <2>5
<1>7. \A i \in 1 .. N : f[i] \in X[i]
  BY <1>5, <1>6, RecursionTyped
<1>8. Spells(f[N], L[N], n)
  BY <1>4, <1>5, <1>7
<1> QED
  BY <1>3, <1>4, <1>8

LEMMA SpellingsAre ==
  ASSUME NEW W, NEW X, NEW n, Spells(W, X, n)
  PROVE  Spellings(W) = {x \in X : Len(x) <= n}
<1>1. ASSUME NEW w \in W PROVE Spelling(w) \in X /\ Len(Spelling(w)) <= n
  <2>1. w \in Seq(Acted) /\ Len(w) <= n /\ Spelling(w) \in X
    BY DEF Spells, WordsOver
  <2> QED
    BY <2>1, SpellingIs
<1>2. \A x \in X : Len(x) <= n => \E w \in W : Spelling(w) = x
  BY DEF Spells
<1> QED
  BY <1>1, <1>2 DEF Spellings

-----------------------------------------------------------------------------
(* epsilon_closure: as many turns as there are states are enough.          *)
Shut(a, S) ==
  \A e \in a.edges : e.gc = Epsilon /\ e.from \in S => e.to \in S

LEMMA GrownIs ==
  ASSUME NEW a, NEW S
  PROVE  /\ S \subseteq Grown(a, S)
         /\ \A t \in Grown(a, S) : t \in S \/ \E e \in a.edges :
              e.gc = Epsilon /\ e.from \in S /\ e.to = t
         /\ Shut(a, S) <=> Grown(a, S) = S
<1>1. Grown(a, S)
        = S \cup {e.to : e \in {d \in a.edges : d.from \in S /\ d.gc = Epsilon}}
  BY DEF Grown, By
<1> QED
  BY <1>1 DEF Shut

LEMMA CloseTurn ==
  ASSUME NEW a, NEW n \in Nat, \A e \in a.edges : e.to \in 0 .. n,
         NEW S, S \subseteq 0 .. n, NEW k \in Nat,
         Shut(a, S) \/ Cardinality(S) >= k
  PROVE  /\ Grown(a, S) \subseteq 0 .. n
         /\ Shut(a, Grown(a, S)) \/ Cardinality(Grown(a, S)) >= k + 1
<1>1. PICK T : T = Grown(a, S)
  OBVIOUS
<1>2. /\ S \subseteq T
      /\ \A t \in T : t \in S \/ \E e \in a.edges :
           e.gc = Epsilon /\ e.from \in S /\ e.to = t
      /\ Shut(a, S) <=> T = S
  BY <1>1, GrownIs
<1>3. T \subseteq 0 .. n
  BY <1>2
<1>4. CASE Shut(a, S)
  BY <1>1, <1>2, <1>3, <1>4
<1>5. CASE ~Shut(a, S)
  <2>1. Cardinality(T) >= k + 1
    BY ONLY n \in Nat, k \in Nat, <1>2, <1>3, <1>5, CountMore,
            Shut(a, S) \/ Cardinality(S) >= k
  <2> QED
    BY <1>1, <1>3, <2>1
<1> QED
  BY <1>4, <1>5

(* The closure of s is closed, and no more is accepted from its states     *)
(* than from those of s.                                                   *)
LEMMA ClosureMeans ==
  ASSUME NEW z \in Nat, z = 0, NEW a, Spans(a, z), NEW n, n = a.final_state,
         NEW s, s \subseteq 0 .. n, NEW c, c = epsilon_closure(a, s)
  PROVE  /\ c \subseteq 0 .. n /\ s \subseteq c /\ Shut(a, c)
         /\ \A t \in c : \E r \in s : Onwards(a, t) \subseteq Onwards(a, r)
<1>1. /\ n \in Nat /\ \A e \in a.edges : e.to \in 0 .. n
      /\ a.edges \subseteq AllEdges
  BY SpansWithin
<1>2. PICK f : f = CHOOSE g : IsClose(a, s, g)
  OBVIOUS
<1>3. IsClose(a, s, f)
  BY <1>1, <1>2, CloseExists, Zenon
<1>4. c = f[n]
  BY <1>2, Zenon DEF epsilon_closure, IsClose, Grown
<1>5. DEFINE Closing(S, k) ==
        /\ s \subseteq S /\ S \subseteq 0 .. n
        /\ \A t \in S : \E r \in s : Onwards(a, t) \subseteq Onwards(a, r)
        /\ Shut(a, S) \/ Cardinality(S) >= k + 1
<1>6. PICK X : X = [k \in 0 .. n |-> {S \in SUBSET (0 .. n) : Closing(S, k)}]
  OBVIOUS
<1>7. ASSUME NEW k \in 0 .. n, \A j \in 0 .. k - 1 : f[j] \in X[j]
      PROVE  f[k] \in X[k]
  <2>1. CASE k = 0
    <3>1. f[k] = s
      BY <1>3, <2>1, <1>1 DEF IsClose
    <3>2. Shut(a, s) \/ Cardinality(s) >= 1
      <4>1. CASE s = {}
        BY <4>1 DEF Shut
      <4>2. CASE s # {}
        <5>1. IsFiniteSet(0 .. n)
          <6>1. 0 \in Int /\ n \in Int
            BY <1>1
          <6> QED
            BY <6>1, FS_Interval
        <5>2. IsFiniteSet(s)
          BY <5>1, FS_Subset
        <5>3. Cardinality(s) \in Nat /\ Cardinality(s) # 0
          BY <4>2, <5>2, FS_CardinalityType, FS_EmptySet
        <5> QED
          BY <5>3
      <4> QED
        BY <4>1, <4>2
    <3>3. Closing(s, k)
      BY <2>1, <3>2
    <3> QED
      BY <1>6, <3>1, <3>3
  <2>2. CASE k # 0
    <3>1. PICK j : j = k - 1
      OBVIOUS
    <3>2. j \in 0 .. k - 1 /\ j \in 0 .. n /\ k \in Nat /\ k = j + 1
      BY <1>1, <2>2, <3>1
    <3>3. PICK S : S = f[j]
      OBVIOUS
    <3>4. /\ s \subseteq S /\ S \subseteq 0 .. n
          /\ \A t \in S : \E r \in s : Onwards(a, t) \subseteq Onwards(a, r)
          /\ Shut(a, S) \/ Cardinality(S) >= k
      BY <1>6, <1>7, <3>2, <3>3
    <3>5. PICK T : T = Grown(a, S)
      OBVIOUS
    <3>6. f[k] = T
      BY <1>1, <1>3, <2>2, <3>1, <3>3, <3>5 DEF IsClose
    <3>7. /\ T \subseteq 0 .. n
          /\ Shut(a, T) \/ Cardinality(T) >= k + 1
      BY <1>1, <3>2, <3>4, <3>5, CloseTurn
    <3>8. ASSUME NEW t \in T
          PROVE  \E r \in s : Onwards(a, t) \subseteq Onwards(a, r)
      <4>1. CASE t \in S
        BY <3>4, <4>1
      <4>2. CASE t \notin S
        <5>1. PICK e \in a.edges : e.gc = Epsilon /\ e.from \in S /\ e.to = t
          BY <3>5, <4>2, GrownIs
        <5>2. Onwards(a, t) \subseteq Onwards(a, e.from)
          BY <1>1, <5>1, LangSilent DEF Onwards
        <5> QED
          BY <3>4, <5>1, <5>2
      <4> QED
        BY <4>1, <4>2
    <3>9. s \subseteq T
      BY <3>4, <3>5, GrownIs
    <3>10. Closing(T, k)
      BY <3>7, <3>8, <3>9
    <3> QED
      BY <1>6, <3>6, <3>7, <3>10
  <2> QED
    BY <2>1, <2>2
<1> HIDE DEF Closing
<1>8. \A k \in 0 .. n : f[k] \in X[k]
  BY <1>1, <1>7, RecursionTyped
<1>9. Closing(c, n)
  <2>1. n \in 0 .. n
    BY <1>1
  <2> QED
    BY <1>4, <1>6, <1>8, <2>1
<1>10. ASSUME Cardinality(c) >= n + 1, c \subseteq 0 .. n
       PROVE  Shut(a, c)
  <2>1. c = 0 .. n
    BY <1>1, <1>10, CountAll
  <2> QED
    BY <1>1, <2>1 DEF Shut
<1> QED
  BY <1>9, <1>10 DEF Closing

-----------------------------------------------------------------------------
(* The subset construction follows the automaton: the jump of a set leads  *)
(* to the closure of where its states lead, and they do lead somewhere; a  *)
(* marked set has a jump by every character they have, t by those done so  *)
(* far; and the jumps lead from the first set to all the others.           *)
Marked(acc, s) == \A k \in DOMAIN acc.unmarked : acc.unmarked[k] # s

Following(acc, a, t, done) ==
  /\ acc.sets # <<>> /\ acc.sets[1] = epsilon_closure(a, {a.begin_state})
  /\ \A k \in DOMAIN acc.sets : Shut(a, acc.sets[k])
  /\ \A e \in acc.jumps :
       acc.sets[e.to + 1]
         = epsilon_closure(a, Moved(a, acc.sets[e.from + 1], e.gc))
  /\ \A e \in acc.jumps : Moved(a, acc.sets[e.from + 1], e.gc) # {}
  /\ LeadFrom(acc.jumps, Len(acc.sets))
  /\ \A s \in 0 .. Len(acc.sets) - 1 :
       \A gc \in jump_chars_set(a.edges, acc.sets[s + 1]) :
         Marked(acc, s) /\ (s = t => gc \in done)
           => \E e \in acc.jumps : e.from = s /\ e.gc = gc

(* What one more jump adds.                                                *)
JumpMore(r, acc, t, gc, L, u) ==
  \E act, m :
    /\ r.jumps = acc.jumps \cup {Edge(t, gc, act, m)}
    /\ m \in 0 .. Len(r.sets) - 1 /\ r.sets[m + 1] = u
    /\ DOMAIN r.sets = 1 .. Len(r.sets)
    /\ L \in Nat /\ Len(r.sets) \in Nat /\ L <= Len(r.sets)
    /\ \A k \in 1 .. L : r.sets[k] = acc.sets[k]
    /\ \A k \in 1 .. Len(r.sets) : k \in 1 .. L \/ r.sets[k] = u
    /\ \A k \in 0 .. Len(r.sets) - 1 : k \in 0 .. L - 1 \/ k = m
    /\ \A s \in 0 .. Len(r.sets) - 1 :
         Marked(r, s) => s \in 0 .. L - 1 /\ Marked(acc, s)

LEMMA AddJumpIs ==
  ASSUME NEW n, NEW acc, NEW t, NEW done, Processed(acc, n, t, done),
         NEW a, NEW gc, NEW L, L = Len(acc.sets),
         NEW u, u = epsilon_closure(a, Moved(a, acc.sets[t + 1], gc)),
         NEW r, r = AddJump(acc, a, t, gc)
  PROVE  JumpMore(r, acc, t, gc, L, u)
<1>1. PICK ss, un, js : ss = acc.sets /\ un = acc.unmarked /\ js = acc.jumps
  OBVIOUS
<1>2. /\ ss \in Seq(SUBSET (0 .. n)) /\ un \in Seq(0 .. L - 1)
      /\ L \in Nat /\ L = Len(ss) /\ DOMAIN ss = 1 .. L
      /\ Len(un) \in Nat /\ DOMAIN un = 1 .. Len(un)
  BY <1>1 DEF Processed, Sound
<1>3. PICK act : act = action_for_jump(a.edges, ss[t + 1], gc)
  OBVIOUS
<1>4. PICK rs : rs = IF \A k \in DOMAIN ss : ss[k] # u THEN Append(ss, u) ELSE ss
  OBVIOUS
<1>5. PICK rn : rn = IF \A k \in DOMAIN ss : ss[k] # u
                     THEN Append(un, Len(rs) - 1) ELSE un
  OBVIOUS
<1>6. PICK m : m = NumberOf(u, rs)
  OBVIOUS
<1>7. r = [sets |-> rs, unmarked |-> rn, jumps |-> js \cup {Edge(t, gc, act, m)}]
  BY <1>1, <1>3, <1>4, <1>5, <1>6 DEF AddJump
<1>8. /\ r.sets = rs /\ r.unmarked = rn
      /\ r.jumps = js \cup {Edge(t, gc, act, m)}
  BY <1>7
<1>9. /\ DOMAIN rs = 1 .. Len(rs) /\ Len(rs) \in Nat /\ L <= Len(rs)
      /\ \A k \in 1 .. L : rs[k] = ss[k]
      /\ \A k \in 1 .. Len(rs) : k \in 1 .. L \/ rs[k] = u
      /\ \E k \in 1 .. Len(rs) : rs[k] = u
      /\ \A k, j \in 1 .. Len(rs) : k \notin 1 .. L /\ rs[j] = u => j = k
      /\ \A s \in 0 .. Len(rs) - 1 : (\A k \in DOMAIN rn : rn[k] # s)
           => s \in 0 .. L - 1 /\ \A k \in DOMAIN un : un[k] # s
  <2>1. CASE \A k \in DOMAIN ss : ss[k] # u
    <3>1. /\ rs = Append(ss, u) /\ Len(rs) = L + 1 /\ rs[L + 1] = u
          /\ DOMAIN rs = 1 .. L + 1 /\ \A k \in 1 .. L : rs[k] = ss[k]
      BY <1>2, <1>4, <2>1
    <3>2. rn = Append(un, L)
      <4>1. rn = Append(un, Len(rs) - 1)
        BY <1>5, <2>1
      <4>2. Len(rs) - 1 = L
        BY <1>2, <3>1
      <4> QED
        BY <4>1, <4>2
    <3>3. /\ DOMAIN rn = 1 .. Len(un) + 1 /\ rn[Len(un) + 1] = L
          /\ \A k \in 1 .. Len(un) : rn[k] = un[k]
      BY <1>2, <3>2
    <3>4. ASSUME NEW s \in 0 .. Len(rs) - 1, \A k \in DOMAIN rn : rn[k] # s
          PROVE  s \in 0 .. L - 1 /\ \A k \in DOMAIN un : un[k] # s
      <4>1. Len(un) + 1 \in DOMAIN rn
        BY <1>2, <3>3
      <4>2. s # L
        BY <3>3, <3>4, <4>1
      <4>3. \A k \in 1 .. Len(un) : k \in DOMAIN rn
        BY <1>2, <3>3
      <4> QED
        BY <1>2, <3>1, <3>3, <3>4, <4>2, <4>3
    <3>5. L + 1 \in 1 .. Len(rs)
      BY <1>2, <3>1
    <3>6. ASSUME NEW k \in 1 .. Len(rs), NEW j \in 1 .. Len(rs),
                 k \notin 1 .. L, rs[j] = u
          PROVE  j = k
      <4>1. k = L + 1 /\ (j \in 1 .. L \/ j = L + 1)
        BY <1>2, <3>1, <3>6
      <4>2. j \notin 1 .. L
        BY <1>2, <2>1, <3>1, <3>6
      <4> QED
        BY <4>1, <4>2
    <3>7. /\ DOMAIN rs = 1 .. Len(rs) /\ Len(rs) \in Nat /\ L <= Len(rs)
          /\ \A k \in 1 .. L : rs[k] = ss[k]
          /\ \A k \in 1 .. Len(rs) : k \in 1 .. L \/ rs[k] = u
          /\ \E k \in 1 .. Len(rs) : rs[k] = u
      BY <1>2, <3>1, <3>5
    <3>8. \A k, j \in 1 .. Len(rs) : k \notin 1 .. L /\ rs[j] = u => j = k
      BY <3>6
    <3> QED
      BY <3>4, <3>7, <3>8
  <2>2. CASE ~ \A k \in DOMAIN ss : ss[k] # u
    <3>1. rs = ss /\ rn = un
      BY <1>4, <1>5, <2>2
    <3> QED
      BY <1>2, <2>2, <3>1
  <2> QED
    BY <2>1, <2>2
<1>10. m \in 0 .. Len(rs) - 1 /\ rs[m + 1] = u
  <2>1. PICK k : k = CHOOSE j \in DOMAIN rs : rs[j] = u
    OBVIOUS
  <2>2. k \in DOMAIN rs /\ rs[k] = u /\ m = k - 1
    BY <1>6, <1>9, <2>1 DEF NumberOf
  <2>3. k \in 1 .. Len(rs) /\ Len(rs) \in Nat
    BY <1>9, <2>2
  <2>4. m + 1 = k
    BY <2>2, <2>3
  <2> QED
    BY <2>2, <2>3, <2>4
<1>11. \A s \in 0 .. Len(r.sets) - 1 :
         Marked(r, s) => s \in 0 .. L - 1 /\ Marked(acc, s)
  BY <1>1, <1>8, <1>9 DEF Marked
<1>12. /\ DOMAIN r.sets = 1 .. Len(r.sets)
       /\ Len(r.sets) \in Nat /\ L <= Len(r.sets)
       /\ \A k \in 1 .. L : r.sets[k] = acc.sets[k]
       /\ \A k \in 1 .. Len(r.sets) : k \in 1 .. L \/ r.sets[k] = u
  BY <1>1, <1>8, <1>9
<1>13. /\ r.jumps = acc.jumps \cup {Edge(t, gc, act, m)}
       /\ m \in 0 .. Len(r.sets) - 1 /\ r.sets[m + 1] = u
  BY <1>1, <1>8, <1>10
<1>14. ASSUME NEW k \in 0 .. Len(rs) - 1, k \notin 0 .. L - 1 PROVE k = m
  <2>1. k + 1 \in 1 .. Len(rs) /\ k + 1 \notin 1 .. L /\ m + 1 \in 1 .. Len(rs)
    BY <1>2, <1>9, <1>10, <1>14
  <2>2. m + 1 = k + 1
    BY <1>9, <1>10, <2>1
  <2> QED
    BY <1>10, <2>2
<1>15. \A k \in 0 .. Len(r.sets) - 1 : k \in 0 .. L - 1 \/ k = m
  BY <1>8, <1>14
<1> QED
  BY <1>2, <1>11, <1>12, <1>13, <1>15, Zenon DEF JumpMore

LEMMA FollowingAdded ==
  ASSUME NEW z \in Nat, z = 0, NEW a, Spans(a, z), NEW n, n = a.final_state,
         NEW acc, NEW t, NEW done, Processed(acc, n, t, done),
         Following(acc, a, t, done),
         NEW gc \in jump_chars_set(a.edges, acc.sets[t + 1]),
         NEW r, r = AddJump(acc, a, t, gc)
  PROVE  Following(r, a, t, done \cup {gc})
<1>1. PICK L, u :
        L = Len(acc.sets) /\ u = epsilon_closure(a, Moved(a, acc.sets[t + 1], gc))
  OBVIOUS
<1>2. PICK act, m :
        /\ r.jumps = acc.jumps \cup {Edge(t, gc, act, m)}
        /\ m \in 0 .. Len(r.sets) - 1 /\ r.sets[m + 1] = u
        /\ DOMAIN r.sets = 1 .. Len(r.sets)
        /\ L \in Nat /\ Len(r.sets) \in Nat /\ L <= Len(r.sets)
        /\ \A k \in 1 .. L : r.sets[k] = acc.sets[k]
        /\ \A k \in 1 .. Len(r.sets) : k \in 1 .. L \/ r.sets[k] = u
        /\ \A k \in 0 .. Len(r.sets) - 1 : k \in 0 .. L - 1 \/ k = m
        /\ \A s \in 0 .. Len(r.sets) - 1 :
             Marked(r, s) => s \in 0 .. L - 1 /\ Marked(acc, s)
  <2>1. JumpMore(r, acc, t, gc, L, u)
    BY <1>1, AddJumpIs
  <2> QED
    BY <2>1, Zenon DEF JumpMore
<1>3. /\ DOMAIN acc.sets = 1 .. L /\ t \in 0 .. L - 1
      /\ \A e \in acc.jumps : e.from \in 0 .. L - 1 /\ e.to \in 0 .. L - 1
  <2>1. acc.sets \in Seq(SUBSET (0 .. n)) /\ acc.jumps \subseteq Jumps(L)
    BY <1>1 DEF Processed, Sound
  <2>2. t \in 0 .. L - 1
    BY <1>1 DEF Processed
  <2> QED
    BY <1>1, <2>1, <2>2 DEF Jumps
<1>4. \A k \in 0 .. L - 1 : k + 1 \in 1 .. L /\ r.sets[k + 1] = acc.sets[k + 1]
  <2>1. \A k \in 0 .. L - 1 : k + 1 \in 1 .. L
    BY <1>2
  <2> QED
    BY <1>2, <2>1
<1>5. Shut(a, u)
  <2>1. PICK s : s = Moved(a, acc.sets[t + 1], gc)
    OBVIOUS
  <2>2. s \subseteq 0 .. n
    <3>1. \A e \in a.edges : e.to \in 0 .. n
      BY SpansWithin
    <3> QED
      BY <2>1, <3>1 DEF Moved, By
  <2> QED
    BY <1>1, <2>1, <2>2, ClosureMeans
<1>6. r.sets # <<>> /\ r.sets[1] = epsilon_closure(a, {a.begin_state})
  <2>1. 1 \in DOMAIN acc.sets
    BY <1>2, <1>3
  <2>2. 1 \in 1 .. L /\ 1 \in DOMAIN r.sets
    BY <1>2, <1>3
  <2>3. r.sets # <<>>
    BY <2>2
  <2> QED
    BY <1>2, <2>2, <2>3 DEF Following
<1>7. \A k \in DOMAIN r.sets : Shut(a, r.sets[k])
  <2>1. \A k \in 1 .. L : Shut(a, acc.sets[k])
    BY <1>3 DEF Following
  <2> QED
    BY <1>2, <1>5, <2>1
<1>8. ASSUME NEW e \in r.jumps
      PROVE  r.sets[e.to + 1]
               = epsilon_closure(a, Moved(a, r.sets[e.from + 1], e.gc))
  <2>1. CASE e \in acc.jumps
    <3>1. e.from \in 0 .. L - 1 /\ e.to \in 0 .. L - 1
      BY <1>3, <2>1
    <3>2. /\ r.sets[e.from + 1] = acc.sets[e.from + 1]
          /\ r.sets[e.to + 1] = acc.sets[e.to + 1]
      BY <1>4, <3>1
    <3>3. acc.sets[e.to + 1]
            = epsilon_closure(a, Moved(a, acc.sets[e.from + 1], e.gc))
      BY <2>1 DEF Following
    <3> QED
      BY <3>2, <3>3
  <2>2. CASE e = Edge(t, gc, act, m)
    <3>1. e.from = t /\ e.gc = gc /\ e.to = m
      BY <2>2 DEF Edge
    <3>2. r.sets[e.from + 1] = acc.sets[t + 1] /\ r.sets[e.to + 1] = u
      BY <1>2, <1>3, <1>4, <3>1
    <3> QED
      BY <1>1, <3>1, <3>2
  <2> QED
    BY <1>2, <2>1, <2>2
<1>9. ASSUME NEW s \in 0 .. Len(r.sets) - 1,
             NEW g \in jump_chars_set(a.edges, r.sets[s + 1]),
             Marked(r, s), s = t => g \in done \cup {gc}
      PROVE  \E e \in r.jumps : e.from = s /\ e.gc = g
  <2>1. s \in 0 .. L - 1 /\ Marked(acc, s)
    BY <1>2, <1>9
  <2>2. g \in jump_chars_set(a.edges, acc.sets[s + 1])
    BY <1>4, <2>1
  <2>3. CASE s = t /\ g = gc
    <3>1. PICK e : e = Edge(t, gc, act, m)
      OBVIOUS
    <3>2. e \in r.jumps /\ e.from = t /\ e.gc = gc
      BY <1>2, <3>1 DEF Edge
    <3> QED
      BY <2>3, <3>2
  <2>4. CASE ~(s = t /\ g = gc)
    <3>1. s = t => g \in done
      BY <1>9, <2>4
    <3>2. \E e \in acc.jumps : e.from = s /\ e.gc = g
      BY <1>1, <2>1, <2>2, <3>1 DEF Following
    <3> QED
      BY <1>2, <3>2
  <2> QED
    BY <2>3, <2>4
<1>10. ASSUME NEW e \in r.jumps
       PROVE  Moved(a, r.sets[e.from + 1], e.gc) # {}
  <2>1. CASE e \in acc.jumps
    <3>1. e.from \in 0 .. L - 1
      BY <1>3, <2>1
    <3> QED
      BY <1>4, <2>1, <3>1 DEF Following
  <2>2. CASE e = Edge(t, gc, act, m)
    <3>1. e.from = t /\ e.gc = gc
      BY <2>2 DEF Edge
    <3>2. r.sets[e.from + 1] = acc.sets[t + 1]
      BY <1>3, <1>4, <3>1
    <3> QED
      BY <3>1, <3>2 DEF jump_chars_set, Moved, By
  <2> QED
    BY <1>2, <2>1, <2>2
<1>11. LeadFrom(r.jumps, Len(r.sets))
  <2>1. ASSUME NEW T \in SUBSET Nat, 0 \in T, Forth(r.jumps, T),
               NEW k \in 0 .. Len(r.sets) - 1
        PROVE  k \in T
    <3>1. Forth(acc.jumps, T)
      BY <1>2, <2>1 DEF Forth
    <3>2. 0 .. L - 1 \subseteq T
      BY <1>1, <2>1, <3>1 DEF Following, LeadFrom
    <3>3. m \in T
      <4>1. PICK e : e = Edge(t, gc, act, m)
        OBVIOUS
      <4>2. e \in r.jumps /\ e.from = t /\ e.to = m
        BY <1>2, <4>1 DEF Edge
      <4> QED
        BY <1>3, <2>1, <3>2, <4>2 DEF Forth
    <3> QED
      BY <1>2, <3>2, <3>3
  <2> QED
    BY <2>1 DEF LeadFrom
<1> QED
  BY <1>6, <1>7, <1>8, <1>9, <1>10, <1>11 DEF Following

LEMMA TurnsFollowing ==
  ASSUME NEW z \in Nat, z = 0, NEW a, Spans(a, z), NEW n, n = a.final_state,
         NEW t, NEW gcs \in Seq(Gen_chars), Distinct(gcs),
         NEW s, s \in Under(n, t, {}), Following(s, a, t, {}),
         Tried(gcs, Len(gcs)) \subseteq jump_chars_set(a.edges, s.sets[t + 1]),
         NEW f, IsTurn(f, s, a, t, gcs)
  PROVE  /\ Following(f[Len(gcs)], a, t, Tried(gcs, Len(gcs)))
         /\ f[Len(gcs)].sets[t + 1] = s.sets[t + 1]
<1>1. PICK l, X :
        /\ l = Len(gcs)
        /\ X = [k \in 0 .. l |-> {acc \in Under(n, t, Tried(gcs, k)) :
                                    /\ Following(acc, a, t, Tried(gcs, k))
                                    /\ acc.sets[t + 1] = s.sets[t + 1]}]
  OBVIOUS
<1>2. /\ l \in Nat /\ 0 \in 0 .. l /\ l \in 0 .. l /\ DOMAIN gcs = 1 .. l
      /\ 0 \in Nat /\ n \in Nat /\ Spans(a, 0)
  BY <1>1, SpansWithin
<1>3. \A k \in 0 .. l :
        f[k] = IF k = 0 THEN s ELSE AddJump(f[k - 1], a, t, gcs[k])
  BY <1>1 DEF IsTurn
<1>4. Tried(gcs, 0) = {}
  BY DEF Tried
<1>5. ASSUME NEW k \in 0 .. l, \A j \in 0 .. k - 1 : f[j] \in X[j]
      PROVE  f[k] \in X[k]
  <2>1. CASE k = 0
    BY <1>1, <1>2, <1>3, <1>4, <2>1
  <2>2. CASE k # 0
    <3>1. PICK j : j = k - 1
      OBVIOUS
    <3>2. j \in 0 .. k - 1 /\ j \in 0 .. l /\ k \in 1 .. l
      BY <1>2, <2>2, <3>1
    <3>3. PICK acc, D, gc, r :
            acc = f[j] /\ D = Tried(gcs, j) /\ gc = gcs[k] /\ r = f[k]
      OBVIOUS
    <3>4. /\ acc \in Under(n, t, D) /\ Following(acc, a, t, D)
          /\ acc.sets[t + 1] = s.sets[t + 1]
      BY <1>1, <1>5, <3>2, <3>3
    <3>5. Processed(acc, n, t, D)
      BY <3>4 DEF Under
    <3>6. r = AddJump(acc, a, t, gc)
      BY <1>3, <2>2, <3>1, <3>3
    <3>7. gc \in Gen_chars /\ gc \notin D
      <4>1. \A i \in 1 .. j : i \in 1 .. l /\ i # k
        BY <1>2, <3>1
      <4> QED
        BY <1>2, <3>2, <3>3, <4>1 DEF Tried, Distinct
    <3>8. Tried(gcs, k) = D \cup {gc}
      <4>1. \A i : i \in 1 .. k <=> i \in 1 .. j \/ i = k
        BY <1>2, <3>1, <3>2
      <4> QED
        BY <3>3, <4>1 DEF Tried
    <3>9. Following(r, a, t, D \cup {gc})
      <4>1. gc \in Tried(gcs, l)
        BY <3>2, <3>3 DEF Tried
      <4>2. gc \in jump_chars_set(a.edges, acc.sets[t + 1])
        BY <1>1, <3>4, <4>1
      <4> QED
        BY <3>4, <3>5, <3>6, <4>2, FollowingAdded
    <3>10. Processed(r, n, t, D \cup {gc})
      BY <1>2, <3>5, <3>6, <3>7, JumpAdded
    <3>11. PICK ss, un, js : r = [sets |-> ss, unmarked |-> un, jumps |-> js]
      BY <3>6, Zenon DEF AddJump
    <3>12. r \in Under(n, t, D \cup {gc})
      BY <3>10, <3>11, ProcessedIn
    <3>13. r.sets[t + 1] = acc.sets[t + 1]
      <4>1. PICK L, u : L = Len(acc.sets)
                        /\ u = epsilon_closure(a, Moved(a, acc.sets[t + 1], gc))
        OBVIOUS
      <4>2. JumpMore(r, acc, t, gc, L, u)
        BY <3>5, <3>6, <4>1, AddJumpIs
      <4>3. L \in Nat /\ \A i \in 1 .. L : r.sets[i] = acc.sets[i]
        BY <4>2 DEF JumpMore
      <4>4. t \in 0 .. L - 1
        BY <3>5, <4>1 DEF Processed
      <4>5. t + 1 \in 1 .. L
        BY <4>3, <4>4
      <4> QED
        BY <4>3, <4>5
    <3> QED
      BY <1>1, <3>3, <3>4, <3>8, <3>9, <3>12, <3>13
  <2> QED
    BY <2>1, <2>2
<1>6. \A k \in 0 .. l : f[k] \in X[k]
  BY <1>2, <1>5, RecursionTyped
<1> QED
  BY <1>1, <1>2, <1>6

(* The turns of convert_NDFA_to_DFA.                                       *)
Turned(n, t, gcs, s, f) ==
  /\ gcs \in Seq(Gen_chars) /\ Distinct(gcs)
  /\ Tried(gcs, Len(gcs)) = jump_chars_set(ndfa.edges, sets[t + 1])
  /\ unmarked # <<>> /\ t = Last(unmarked)
  /\ Marked([unmarked |-> Front(unmarked)], t)
  /\ \A i \in Nat : i # t /\ Marked([unmarked |-> Front(unmarked)], i)
       => \A k \in DOMAIN unmarked : unmarked[k] # i
  /\ s = [sets |-> sets, unmarked |-> Front(unmarked), jumps |-> jumps]
  /\ s \in Under(n, t, {})
  /\ IsTurn(f, s, ndfa, t, gcs)
  /\ sets' = f[Len(gcs)].sets /\ unmarked' = f[Len(gcs)].unmarked
  /\ jumps' = f[Len(gcs)].jumps

LEMMA ConvertTurn ==
  ASSUME Spans(ndfa, 0), Sound(Built, ndfa.final_state), convert_NDFA_to_DFA
  PROVE  \E t, gcs, s, f : Turned(ndfa.final_state, t, gcs, s, f)
<1>1. PICK n, t, gcs, s :
        /\ n = ndfa.final_state /\ t = Last(unmarked)
        /\ gcs = InOrder(jump_chars_set(ndfa.edges, sets[t + 1]))
        /\ s = [sets |-> sets, unmarked |-> Front(unmarked), jumps |-> jumps]
  OBVIOUS
<1>2. n \in Nat /\ ndfa.edges \subseteq EdgesIn(0, n)
  BY <1>1, SpansHas
<1>3. /\ gcs \in Seq(Gen_chars) /\ Distinct(gcs)
      /\ Tried(gcs, Len(gcs)) = jump_chars_set(ndfa.edges, sets[t + 1])
  <2>1. PICK S : S = jump_chars_set(ndfa.edges, sets[t + 1])
    OBVIOUS
  <2>2. S \subseteq Gen_chars
    BY <1>2, <2>1 DEF jump_chars_set, EdgesIn, Symbols
  <2>3. S \subseteq Nat /\ IsFiniteSet(S)
    BY <2>2, CharsFinite, FS_Subset
  <2>4. /\ Cardinality(S) \in Nat
        /\ gcs \in Seq(S) /\ Len(gcs) = Cardinality(S)
        /\ \A i, j \in 1 .. Cardinality(S) : gcs[i] = gcs[j] => i = j
    BY <1>1, <2>1, <2>3, InOrderIs
  <2>5. DOMAIN gcs = 1 .. Cardinality(S)
    BY <2>4
  <2>6. Tried(gcs, Len(gcs)) \subseteq S
    BY <2>4, <2>5 DEF Tried
  <2>7. S \subseteq Tried(gcs, Len(gcs))
    <3>1. \A x \in S : \E i \in 1 .. Len(gcs) : gcs[i] = x
      BY <1>1, <2>1, <2>3, InOrderAll
    <3> QED
      BY <3>1 DEF Tried
  <2> QED
    BY <2>1, <2>2, <2>4, <2>5, <2>6, <2>7 DEF Distinct
<1>4. unmarked # <<>>
  BY DEF convert_NDFA_to_DFA
<1>5. /\ sets \in Seq(SUBSET (0 .. n)) /\ Distinct(sets)
      /\ unmarked \in Seq(0 .. Len(sets) - 1) /\ Distinct(unmarked)
      /\ jumps \subseteq Jumps(Len(sets))
      /\ \A e, f \in jumps : e.from = f.from /\ e.gc = f.gc => e = f
      /\ \A e \in jumps : \A k \in DOMAIN unmarked : e.from # unmarked[k]
  BY <1>1 DEF Sound, Built
<1>6. /\ Front(unmarked) \in Seq(0 .. Len(sets) - 1)
      /\ Distinct(Front(unmarked)) /\ t \in 0 .. Len(sets) - 1
      /\ \A k \in DOMAIN Front(unmarked) : Front(unmarked)[k] # t
      /\ \A k \in DOMAIN Front(unmarked) :
           k \in DOMAIN unmarked /\ Front(unmarked)[k] = unmarked[k]
      /\ Len(unmarked) \in DOMAIN unmarked /\ t = unmarked[Len(unmarked)]
  <2>1. PICK S : S = 0 .. Len(sets) - 1
    OBVIOUS
  <2>2. unmarked \in Seq(S)
    BY <1>5, <2>1
  <2> QED
    BY <1>1, <1>4, <1>5, <2>1, <2>2, DistinctFront
<1>7. Processed(s, n, t, {})
  <2>1. s.sets = sets /\ s.unmarked = Front(unmarked) /\ s.jumps = jumps
    BY <1>1
  <2>2. Sound(s, n)
    BY <1>5, <1>6, <2>1 DEF Sound
  <2>3. \A e \in jumps : e.from # t
    BY <1>5, <1>6
  <2> QED
    BY <1>6, <2>1, <2>2, <2>3 DEF Processed
<1>8. s \in Under(n, t, {})
  BY <1>1, <1>7, ProcessedIn
<1>9. PICK f : f = CHOOSE g : IsTurn(g, s, ndfa, t, gcs)
  OBVIOUS
<1>10. IsTurn(f, s, ndfa, t, gcs)
  BY <1>1, <1>2, <1>3, <1>8, <1>9, TurnsProcessed
<1>12. /\ sets' = f[Len(gcs)].sets /\ unmarked' = f[Len(gcs)].unmarked
       /\ jumps' = f[Len(gcs)].jumps
  BY <1>1, <1>9, Zenon DEF convert_NDFA_to_DFA, IsTurn
<1>13. PICK u : u = Front(unmarked)
  OBVIOUS
<1>14. /\ Marked([unmarked |-> u], t)
       /\ \A i \in Nat : i # t /\ Marked([unmarked |-> u], i)
            => \A k \in DOMAIN unmarked : unmarked[k] # i
  <2>1. Marked([unmarked |-> u], t)
    BY <1>6, <1>13 DEF Marked
  <2>2. ASSUME NEW i \in Nat, i # t, \A k \in DOMAIN u : u[k] # i,
               NEW k \in DOMAIN unmarked
        PROVE  unmarked[k] # i
    <3>1. Len(unmarked) \in Nat /\ DOMAIN unmarked = 1 .. Len(unmarked)
      BY <1>5
    <3>2. CASE k = Len(unmarked)
      BY <1>6, <2>2, <3>2
    <3>3. CASE k # Len(unmarked)
      <4>1. k \in 1 .. Len(unmarked) - 1
        BY <3>1, <3>3
      <4>2. u = SubSeq(unmarked, 1, Len(unmarked) - 1)
        BY <1>13 DEF Front
      <4>3. k \in DOMAIN u
        BY <1>5, <3>1, <4>1, <4>2
      <4> QED
        BY <1>6, <1>13, <2>2, <4>3
    <3> QED
      BY <3>2, <3>3
  <2> QED
    BY <2>1, <2>2 DEF Marked
<1>15. Turned(n, t, gcs, s, f)
  BY <1>1, <1>3, <1>4, <1>8, <1>10, <1>12, <1>13, <1>14 DEF Turned
<1> QED
  BY <1>1, <1>15

LEMMA FollowingSame ==
  ASSUME NEW r, NEW acc, r.sets = acc.sets, r.unmarked = acc.unmarked,
         r.jumps = acc.jumps, NEW a, NEW t, NEW done, Following(acc, a, t, done)
  PROVE  Following(r, a, t, done)
<1>1. PICK ss, js : ss = acc.sets /\ js = acc.jumps
  OBVIOUS
<1>2. r.sets = ss /\ r.jumps = js
  BY <1>1
<1>3. \A s : Marked(r, s) <=> Marked(acc, s)
  BY DEF Marked
<1>4. /\ ss # <<>> /\ ss[1] = epsilon_closure(a, {a.begin_state})
      /\ \A k \in DOMAIN ss : Shut(a, ss[k])
      /\ \A e \in js :
           ss[e.to + 1] = epsilon_closure(a, Moved(a, ss[e.from + 1], e.gc))
      /\ \A e \in js : Moved(a, ss[e.from + 1], e.gc) # {}
      /\ LeadFrom(js, Len(ss))
      /\ \A s \in 0 .. Len(ss) - 1 :
           \A gc \in jump_chars_set(a.edges, ss[s + 1]) :
             Marked(acc, s) /\ (s = t => gc \in done)
               => \E e \in js : e.from = s /\ e.gc = gc
  BY <1>1, Zenon DEF Following
<1>5. \A s \in 0 .. Len(ss) - 1 :
        \A gc \in jump_chars_set(a.edges, ss[s + 1]) :
          Marked(r, s) /\ (s = t => gc \in done)
            => \E e \in js : e.from = s /\ e.gc = gc
  BY <1>3, <1>4
<1>6. /\ r.sets # <<>> /\ r.sets[1] = epsilon_closure(a, {a.begin_state})
      /\ \A k \in DOMAIN r.sets : Shut(a, r.sets[k])
      /\ \A e \in r.jumps :
           r.sets[e.to + 1]
             = epsilon_closure(a, Moved(a, r.sets[e.from + 1], e.gc))
      /\ \A e \in r.jumps : Moved(a, r.sets[e.from + 1], e.gc) # {}
  BY <1>2, <1>4
<1>7. LeadFrom(r.jumps, Len(r.sets))
  BY <1>2, <1>4
<1>8. \A s \in 0 .. Len(r.sets) - 1 :
        \A gc \in jump_chars_set(a.edges, r.sets[s + 1]) :
          Marked(r, s) /\ (s = t => gc \in done)
            => \E e \in r.jumps : e.from = s /\ e.gc = gc
  BY <1>2, <1>5
<1> QED
  BY <1>6, <1>7, <1>8, Zenon DEF Following

LEMMA ConvertFollows ==
  ASSUME Spans(ndfa, 0), Sound(Built, ndfa.final_state), convert_NDFA_to_DFA,
         Following(Built, ndfa, 0, Gen_chars)
  PROVE  Following(Built', ndfa, 0, Gen_chars)
<1>1. PICK z, a, n : z = 0 /\ a = ndfa /\ n = a.final_state
  OBVIOUS
<1>2. z \in Nat /\ Spans(a, z)
  BY <1>1
<1>3. PICK t, gcs, s, f : Turned(n, t, gcs, s, f)
  BY <1>1, ConvertTurn
<1>4. PICK d : d = Tried(gcs, Len(gcs))
  OBVIOUS
<1>5. /\ gcs \in Seq(Gen_chars) /\ Distinct(gcs)
      /\ d = jump_chars_set(a.edges, sets[t + 1])
      /\ s = [sets |-> sets, unmarked |-> Front(unmarked), jumps |-> jumps]
      /\ s \in Under(n, t, {}) /\ IsTurn(f, s, a, t, gcs)
      /\ sets' = f[Len(gcs)].sets /\ unmarked' = f[Len(gcs)].unmarked
      /\ jumps' = f[Len(gcs)].jumps
  BY <1>1, <1>3, <1>4 DEF Turned
<1>6. \A i \in Nat : i # t /\ Marked([unmarked |-> Front(unmarked)], i)
        => \A k \in DOMAIN unmarked : unmarked[k] # i
  BY <1>3 DEF Turned
<1>7. \A S : jump_chars_set(a.edges, S) \subseteq Gen_chars
  <2>1. \A e \in a.edges : e.gc \in Symbols
    BY <1>2, SpansWithin
  <2> QED
    BY <2>1 DEF jump_chars_set, Symbols
<1>8. s.sets = sets /\ s.unmarked = Front(unmarked) /\ s.jumps = jumps
  BY <1>5
<1>9. /\ sets # <<>> /\ sets[1] = epsilon_closure(a, {a.begin_state})
      /\ \A k \in DOMAIN sets : Shut(a, sets[k])
      /\ \A e \in jumps :
           sets[e.to + 1] = epsilon_closure(a, Moved(a, sets[e.from + 1], e.gc))
      /\ \A e \in jumps : Moved(a, sets[e.from + 1], e.gc) # {}
      /\ LeadFrom(jumps, Len(sets))
      /\ \A i \in 0 .. Len(sets) - 1 :
           \A gc \in jump_chars_set(a.edges, sets[i + 1]) :
             Marked(Built, i) => \E e \in jumps : e.from = i /\ e.gc = gc
  <2>1. Built.sets = sets /\ Built.jumps = jumps
    BY DEF Built
  <2> QED
    BY <1>1, <1>7, <2>1 DEF Following
<1>10. Following(s, a, t, {})
  <2>1. ASSUME NEW i \in 0 .. Len(sets) - 1,
               NEW gc \in jump_chars_set(a.edges, sets[i + 1]),
               Marked(s, i), i # t
        PROVE  \E e \in jumps : e.from = i /\ e.gc = gc
    <3>1. Marked([unmarked |-> Front(unmarked)], i)
      BY <1>8, <2>1 DEF Marked
    <3>2. i \in Nat
      OBVIOUS
    <3>3. Marked(Built, i)
      BY <1>6, <2>1, <3>1, <3>2 DEF Marked, Built
    <3> QED
      BY <1>9, <3>3
  <2>2. LeadFrom(s.jumps, Len(s.sets))
    BY <1>8, <1>9, Zenon
  <2>3. /\ s.sets # <<>> /\ s.sets[1] = epsilon_closure(a, {a.begin_state})
        /\ \A k \in DOMAIN s.sets : Shut(a, s.sets[k])
        /\ \A e \in s.jumps :
             s.sets[e.to + 1]
               = epsilon_closure(a, Moved(a, s.sets[e.from + 1], e.gc))
        /\ \A e \in s.jumps : Moved(a, s.sets[e.from + 1], e.gc) # {}
    BY <1>8, <1>9
  <2>4. \A i \in 0 .. Len(s.sets) - 1 :
          \A gc \in jump_chars_set(a.edges, s.sets[i + 1]) :
            Marked(s, i) /\ (i = t => gc \in {})
              => \E e \in s.jumps : e.from = i /\ e.gc = gc
    <3>1. ASSUME NEW i \in 0 .. Len(s.sets) - 1,
                 NEW gc \in jump_chars_set(a.edges, s.sets[i + 1]),
                 Marked(s, i), i # t
          PROVE  \E e \in s.jumps : e.from = i /\ e.gc = gc
      BY <1>8, <2>1, <3>1, Zenon
    <3> QED
      BY <3>1
  <2> QED
    BY <2>2, <2>3, <2>4, Zenon DEF Following
<1>11. PICK acc : acc = f[Len(gcs)]
  OBVIOUS
<1>12. Following(acc, a, t, d) /\ acc.sets[t + 1] = sets[t + 1]
  <2>1. n = a.final_state /\ z = 0 /\ gcs \in Seq(Gen_chars) /\ Distinct(gcs)
    BY <1>1, <1>5
  <2>2. s \in Under(n, t, {}) /\ IsTurn(f, s, a, t, gcs)
    BY <1>5
  <2>3. /\ Following(f[Len(gcs)], a, t, Tried(gcs, Len(gcs)))
        /\ f[Len(gcs)].sets[t + 1] = s.sets[t + 1]
    <3>1. Tried(gcs, Len(gcs)) \subseteq jump_chars_set(a.edges, s.sets[t + 1])
      BY <1>4, <1>5, <1>8
    <3> QED
      BY <1>2, <1>10, <2>1, <2>2, <3>1, TurnsFollowing
  <2> QED
    BY <1>4, <1>8, <1>11, <2>3
<1>13. Following(acc, a, 0, Gen_chars)
  <2>1. ASSUME NEW i \in 0 .. Len(acc.sets) - 1,
               NEW gc \in jump_chars_set(a.edges, acc.sets[i + 1]),
               Marked(acc, i)
        PROVE  \E e \in acc.jumps : e.from = i /\ e.gc = gc
    <3>1. i = t => gc \in d
      BY <1>5, <1>12
    <3> QED
      BY <1>12, <2>1, <3>1 DEF Following
  <2> QED
    BY <1>12, <2>1 DEF Following
<1>14. Built'.sets = acc.sets /\ Built'.unmarked = acc.unmarked
       /\ Built'.jumps = acc.jumps
  BY <1>5, <1>11 DEF Built
<1>15. PICK r : r = Built'
  OBVIOUS
<1>16. Following(r, a, 0, Gen_chars)
  BY <1>13, <1>14, <1>15, FollowingSame
<1> QED
  BY <1>1, <1>15, <1>16

LEMMA JumpsAre ==
  ASSUME NEW L
  PROVE  Jumps(L) \subseteq AllEdges
<1>1. 0 .. L - 1 \subseteq Nat
  OBVIOUS
<1> QED
  BY <1>1 DEF Jumps, AllEdges, Symbols

(* When every set is marked, the deterministic automaton accepts what the  *)
(* automaton it follows does.                                              *)
LEMMA SubsetsAccept ==
  ASSUME NEW z \in Nat, z = 0, NEW a, Spans(a, z), NEW n, n = a.final_state,
         NEW acc, Sound(acc, n), Following(acc, a, 0, Gen_chars),
         acc.unmarked = <<>>, NEW F, F = FinalStates(a, acc.sets)
  PROVE  Lang(acc.jumps, F, z) = Accepts(a)
<1>1. PICK ss, js, L : ss = acc.sets /\ js = acc.jumps /\ L = Len(ss)
  OBVIOUS
<1>2. /\ ss \in Seq(SUBSET (0 .. n)) /\ js \subseteq Jumps(L)
      /\ L \in Nat /\ DOMAIN ss = 1 .. L
  BY <1>1 DEF Sound
<1>3. js \subseteq AllEdges
  BY <1>2, JumpsAre
<1>4. /\ a.begin_state = z /\ n \in Nat /\ a.edges \subseteq AllEdges
      /\ \A e \in a.edges : /\ e.from \in 0 .. n /\ e.to \in 0 .. n
                            /\ e.gc \in Symbols
      /\ \A s : Onwards(a, s) \subseteq Strings
      /\ Accepts(a) = Onwards(a, z) /\ <<>> \in Onwards(a, n)
      /\ \A e \in a.edges : \A w \in Onwards(a, e.to) :
           Prefixed(e.gc, w) \in Onwards(a, e.from)
  BY SpansWithin
<1>5. \A t \in 0 .. L - 1 : t + 1 \in 1 .. L
  BY <1>2
<1>6. \A f : f \in F <=> f \in 0 .. L - 1 /\ n \in ss[f + 1]
  BY <1>1 DEF FinalStates
<1>7. z \in 0 .. L - 1 /\ ss[z + 1] = epsilon_closure(a, {z})
  <2>1. ss # <<>> /\ ss[1] = epsilon_closure(a, {a.begin_state})
    BY <1>1 DEF Following
  <2>2. L # 0
    BY <1>1, <1>2, <2>1
  <2> QED
    BY <1>2, <1>4, <2>1, <2>2
<1>8. \A t \in 0 .. L - 1 : Shut(a, ss[t + 1])
  BY <1>1, <1>2, <1>5 DEF Following
<1>9. ASSUME NEW e \in js
      PROVE  /\ e.from \in 0 .. L - 1 /\ e.to \in 0 .. L - 1
             /\ e.from \in Nat /\ e.to \in Nat /\ e.gc \in Gen_chars
             /\ ss[e.to + 1]
                  = epsilon_closure(a, Moved(a, ss[e.from + 1], e.gc))
  <2>1. e \in Jumps(L)
    BY <1>2
  <2> QED
    BY <1>1, <2>1 DEF Jumps, Following
<1>10. \A t \in 0 .. L - 1 : \A gc \in jump_chars_set(a.edges, ss[t + 1]) :
         \E e \in js : e.from = t /\ e.gc = gc
  <2>1. \A t : Marked(acc, t)
    BY DEF Marked
  <2>2. \A S : jump_chars_set(a.edges, S) \subseteq Gen_chars
    BY <1>4 DEF jump_chars_set, Symbols
  <2> QED
    BY <1>1, <2>1, <2>2 DEF Following
<1>11. \A S : \A gc : Moved(a, S, gc) \subseteq 0 .. n
  BY <1>4 DEF Moved, By
<1>12. ASSUME NEW w \in Lang(js, F, z)
       PROVE  w \in Accepts(a)
  <2>1. PICK D : D = [t \in Nat |-> {v \in Strings : t \in 0 .. L - 1 =>
                                       \E s \in ss[t + 1] : v \in Onwards(a, s)}]
    OBVIOUS
  <2>2. D \in Families
    BY <2>1 DEF Families
  <2>3. \A t \in 0 .. L - 1 : \A v : v \in D[t] <=>
          v \in Strings /\ \E s \in ss[t + 1] : v \in Onwards(a, s)
    BY <2>1
  <2>4. \A f \in F : <<>> \in D[f]
    BY <1>4, <1>6, <2>3
  <2>5. ASSUME NEW e \in js, NEW v \in D[e.to]
        PROVE  Prefixed(e.gc, v) \in D[e.from]
    <3>1. PICK S : S = Moved(a, ss[e.from + 1], e.gc)
      OBVIOUS
    <3>2. PICK c : c = epsilon_closure(a, S)
      OBVIOUS
    <3>3. S \subseteq 0 .. n
      BY <1>11, <3>1
    <3>4. \A s \in c : \E r \in S : Onwards(a, s) \subseteq Onwards(a, r)
      BY <3>2, <3>3, ClosureMeans
    <3>5. v \in Strings /\ \E s \in c : v \in Onwards(a, s)
      BY <1>9, <2>3, <3>1, <3>2
    <3>6. PICK r \in S : v \in Onwards(a, r)
      BY <3>4, <3>5
    <3>7. PICK d \in a.edges :
            d.from \in ss[e.from + 1] /\ d.gc = e.gc /\ d.to = r
      BY <3>1 DEF Moved, By
    <3>8. Prefixed(e.gc, v) \in Onwards(a, d.from)
      BY <1>4, <3>6, <3>7
    <3> QED
      BY <1>4, <1>9, <2>3, <3>7, <3>8
  <2>6. Follows(js, F, D)
    BY <2>4, <2>5 DEF Follows
  <2>7. w \in D[z]
    BY <2>2, <2>6, LangLeast
  <2>8. PICK s \in ss[z + 1] : w \in Onwards(a, s)
    BY <1>7, <2>3, <2>7
  <2>9. PICK S, c : S = {z} /\ c = epsilon_closure(a, S)
    OBVIOUS
  <2>10. S \subseteq 0 .. n
    BY <1>4, <2>9
  <2>11. \A x \in c : \E r \in S : Onwards(a, x) \subseteq Onwards(a, r)
    BY <2>9, <2>10, ClosureMeans
  <2>12. w \in Onwards(a, z)
    BY <1>7, <2>8, <2>9, <2>11
  <2> QED
    BY <1>4, <2>12
<1>13. ASSUME NEW w \in Accepts(a)
       PROVE  w \in Lang(js, F, z)
  <2>1. PICK N : N = [s \in Nat |-> {v \in Strings : \A t \in 0 .. L - 1 :
                                       s \in ss[t + 1] => v \in Lang(js, F, t)}]
    OBVIOUS
  <2>2. N \in Families
    BY <2>1 DEF Families
  <2>3. \A s \in 0 .. n : \A v : v \in N[s] <=>
          /\ v \in Strings
          /\ \A t \in 0 .. L - 1 : s \in ss[t + 1] => v \in Lang(js, F, t)
    BY <2>1
  <2>4. <<>> \in N[n]
    <3>1. \A f \in F : <<>> \in Lang(js, F, f)
      BY <1>3, LangIs
    <3>2. n \in 0 .. n /\ <<>> \in Strings
      BY <1>4, Strung
    <3> QED
      BY <1>6, <2>3, <3>1, <3>2
  <2>5. ASSUME NEW e \in a.edges, NEW v \in N[e.to]
        PROVE  Prefixed(e.gc, v) \in N[e.from]
    <3>1. /\ e.from \in 0 .. n /\ e.to \in 0 .. n /\ e.gc \in Symbols
          /\ v \in Strings
          /\ \A t \in 0 .. L - 1 : e.to \in ss[t + 1] => v \in Lang(js, F, t)
      BY <1>4, <2>3
    <3>2. Prefixed(e.gc, v) \in Strings
      BY <3>1, PrefixedIs
    <3>3. ASSUME NEW t \in 0 .. L - 1, e.from \in ss[t + 1]
          PROVE  Prefixed(e.gc, v) \in Lang(js, F, t)
      <4>1. CASE e.gc = Epsilon
        <5>1. e.to \in ss[t + 1]
          BY <1>8, <3>3, <4>1 DEF Shut
        <5> QED
          BY <3>1, <4>1, <5>1 DEF Prefixed
      <4>2. CASE e.gc # Epsilon
        <5>1. e.gc \in jump_chars_set(a.edges, ss[t + 1])
          BY <3>3, <4>2 DEF jump_chars_set
        <5>2. PICK j \in js : j.from = t /\ j.gc = e.gc
          BY <1>10, <5>1
        <5>3. PICK S, c : S = Moved(a, ss[t + 1], e.gc) /\ c = epsilon_closure(a, S)
          OBVIOUS
        <5>4. S \subseteq 0 .. n
          BY <1>11, <5>3
        <5>5. S \subseteq c
          BY <5>3, <5>4, ClosureMeans
        <5>6. e.to \in S
          BY <3>3, <5>3 DEF Moved, By
        <5>7. ss[j.to + 1] = c /\ j.to \in 0 .. L - 1
          BY <1>9, <5>2, <5>3
        <5>8. v \in Lang(js, F, j.to)
          BY <3>1, <5>5, <5>6, <5>7
        <5>9. Prefixed(j.gc, v) \in Lang(js, F, j.from)
          BY <1>3, <5>8, LangIs
        <5> QED
          BY <5>2, <5>9
      <4> QED
        BY <4>1, <4>2
    <3> QED
      BY <2>3, <3>1, <3>2, <3>3
  <2>6. PICK G : G = {n}
    OBVIOUS
  <2>7. Follows(a.edges, G, N)
    BY <2>4, <2>5, <2>6 DEF Follows
  <2>8. Lang(a.edges, G, z) \subseteq N[z]
    BY <2>2, <2>7, LangLeast
  <2>9. w \in N[z]
    BY <1>4, <2>6, <2>8 DEF Onwards
  <2>10. PICK S, c : S = {z} /\ c = epsilon_closure(a, S)
    OBVIOUS
  <2>11. S \subseteq 0 .. n /\ z \in 0 .. n
    BY <1>4, <2>10
  <2>12. S \subseteq c
    BY <2>10, <2>11, ClosureMeans
  <2>13. z \in ss[z + 1]
    BY <1>7, <2>10, <2>12
  <2> QED
    BY <1>7, <2>3, <2>9, <2>11, <2>13
<1> QED
  BY <1>1, <1>12, <1>13

-----------------------------------------------------------------------------
(* WordsFrom counts up the words accepted, by their length.                *)
IsFrom(js, F, n, f) ==
  f = [k \in 0 .. n |->
         [s \in Nat |->
            {w \in {<<>>} : s \in F}
            \cup UNION {{<<e.gc>> \o w : w \in f[k - 1][e.to]} :
                        e \in {d \in js : k > 0 /\ d.from = s}}]]

(* The words one letter longer than those of M, or empty.                  *)
Longer(js, F, M) ==
  [s \in Nat |->
     {w \in {<<>>} : s \in F}
     \cup UNION {{<<e.gc>> \o w : w \in M[e.to]} : e \in {d \in js : d.from = s}}]

LEMMA LongerFamily ==
  ASSUME NEW js, js \subseteq AllEdges, \A e \in js : e.gc \in Gen_chars,
         NEW F, NEW M \in Families
  PROVE  Longer(js, F, M) \in Families
<1>1. PICK N : N = Longer(js, F, M)
  OBVIOUS
<1>2. ASSUME NEW s \in Nat, NEW w \in N[s] PROVE w \in Strings
  <2>1. CASE w = <<>>
    BY <2>1, Strung
  <2>2. CASE w # <<>>
    <3>0. PICK e \in js : \E v \in M[e.to] : e.from = s /\ w = <<e.gc>> \o v
      <4>1. \A x \in N[s] : \/ x = <<>> /\ s \in F
                            \/ \E e \in js : \E v \in M[e.to] :
                                 e.from = s /\ x = <<e.gc>> \o v
        <5>1. N[s] = {x \in {<<>>} : s \in F}
                     \cup UNION {{<<e.gc>> \o v : v \in M[e.to]} :
                                 e \in {d \in js : d.from = s}}
          BY <1>1 DEF Longer
        <5> QED
          BY <5>1, Zenon
      <4> QED
        BY <1>2, <2>2, <4>1, Zenon
    <3>1. PICK v \in M[e.to] : e.from = s /\ w = <<e.gc>> \o v
      BY <3>0
    <3>2. e.to \in Nat /\ e.gc \in Gen_chars
      BY DEF AllEdges
    <3>3. v \in Seq(Gen_chars)
      BY <3>2 DEF Families, Strings
    <3> QED
      BY <3>1, <3>2, <3>3 DEF Strings
  <2> QED
    BY <2>1, <2>2
<1>3. N = [s \in Nat |-> N[s]]
  BY <1>1 DEF Longer
<1> QED
  BY <1>1, <1>2, <1>3 DEF Families

LEMMA FromExists ==
  ASSUME NEW js, js \subseteq AllEdges, \A e \in js : e.gc \in Gen_chars,
         NEW F, NEW n \in Nat
  PROVE  \E f : IsFrom(js, F, n, f)
<1>1. PICK T : T = [k \in 0 .. n |-> Families]
  OBVIOUS
<1>2. PICK G : G = [k \in 0 .. n |-> [M \in Families |-> Longer(js, F, M)]]
  OBVIOUS
<1>3. \A k \in 0 .. n : \A M \in Families : G[k][M] = Longer(js, F, M)
  BY <1>2
<1>4. \A M \in Families : Longer(js, F, M) \in Families
  BY LongerFamily
<1>5. \A k \in 0 .. n : T[k] = Families
  BY <1>1
<1>6. \A k \in 0 + 1 .. n : \A M \in T[k - 1] : G[k][M] \in T[k]
  <2>1. \A k \in 0 + 1 .. n : k \in 0 .. n /\ k - 1 \in 0 .. n
    OBVIOUS
  <2> QED
    BY <2>1, <1>3, <1>4, <1>5
<1>7. PICK b : b = [s \in Nat |-> {w \in {<<>>} : s \in F}]
  OBVIOUS
<1>8. b \in T[0]
  <2>1. b \in Families
    BY <1>7, Strung DEF Families
  <2> QED
    BY <2>1, <1>5
<1>9. PICK f : Steps(f, G, b, 0, n) /\ \A k \in 0 .. n : f[k] \in T[k]
  BY <1>6, <1>8, StepsExist
<1>10. \A k \in 0 .. n : f[k] \in Families
  BY <1>5, <1>9
<1>11. ASSUME NEW k \in 0 .. n
       PROVE  f[k] = [s \in Nat |->
                 {w \in {<<>>} : s \in F}
                 \cup UNION {{<<e.gc>> \o w : w \in f[k - 1][e.to]} :
                             e \in {d \in js : k > 0 /\ d.from = s}}]
  <2>1. f[k] = IF k = 0 THEN b ELSE G[k][f[k - 1]]
    BY <1>9 DEF Steps
  <2>2. CASE k = 0
    <3>1. ~(k > 0)
      BY <2>2
    <3>2. \A s : UNION {{<<e.gc>> \o w : w \in f[k - 1][e.to]} :
                        e \in {d \in js : k > 0 /\ d.from = s}} = {}
      BY <3>1
    <3>3. \A s \in Nat : {w \in {<<>>} : s \in F}
                 \cup UNION {{<<e.gc>> \o w : w \in f[k - 1][e.to]} :
                             e \in {d \in js : k > 0 /\ d.from = s}}
            = {w \in {<<>>} : s \in F}
      BY <3>2
    <3>4. f[k] = b
      BY <2>1, <2>2
    <3> QED
      BY <1>7, <3>3, <3>4, Zenon
  <2>3. CASE k # 0
    <3>1. k > 0 /\ k - 1 \in 0 .. n
      BY <2>3
    <3>2. f[k] = Longer(js, F, f[k - 1])
      BY <1>3, <1>10, <2>1, <2>3, <3>1
    <3>3. \A s : {d \in js : k > 0 /\ d.from = s} = {d \in js : d.from = s}
      BY <3>1
    <3>4. ASSUME NEW s \in Nat
          PROVE  {w \in {<<>>} : s \in F}
                 \cup UNION {{<<e.gc>> \o w : w \in f[k - 1][e.to]} :
                             e \in {d \in js : k > 0 /\ d.from = s}}
            = {w \in {<<>>} : s \in F}
              \cup UNION {{<<e.gc>> \o w : w \in f[k - 1][e.to]} :
                          e \in {d \in js : d.from = s}}
      <4>1. {d \in js : k > 0 /\ d.from = s} = {d \in js : d.from = s}
        BY <3>3
      <4> QED
        BY <4>1
    <3>5. f[k] = [s \in Nat |->
                    {w \in {<<>>} : s \in F}
                    \cup UNION {{<<e.gc>> \o w : w \in f[k - 1][e.to]} :
                                e \in {d \in js : d.from = s}}]
      BY <3>2, Zenon DEF Longer
    <3> QED
      BY <3>4, <3>5, Zenon
  <2> QED
    BY <2>2, <2>3
<1>12. f = [k \in 0 .. n |-> f[k]]
  BY <1>9 DEF Steps
<1>13. IsFrom(js, F, n, f)
  BY <1>11, <1>12, Zenon DEF IsFrom
<1> QED
  BY <1>13

Counts(js, F, st, n) ==
  WordsFrom(js, F, st, n) = {w \in Lang(js, F, st) : Len(w) <= n}

(* The words counted up to a length are those accepted that are no longer. *)
LEMMA WordsFromAre ==
  ASSUME NEW js, js \subseteq AllEdges, \A e \in js : e.gc \in Gen_chars,
         NEW F, F \subseteq Nat, NEW n \in Nat, NEW st \in Nat
  PROVE  Counts(js, F, st, n)
<1>1. PICK f : f = CHOOSE g : IsFrom(js, F, n, g)
  OBVIOUS
<1>2. IsFrom(js, F, n, f)
  BY <1>1, FromExists, Zenon
<1>3. WordsFrom(js, F, st, n) = f[n][st]
  BY <1>1, Zenon DEF WordsFrom, IsFrom
<1>4. ASSUME NEW k \in 0 .. n, NEW s \in Nat
      PROVE  /\ s \in F => <<>> \in f[k][s]
             /\ k > 0 => \A e \in js : \A w \in f[k - 1][e.to] :
                  e.from = s => <<e.gc>> \o w \in f[k][s]
             /\ \A w \in f[k][s] :
                  \/ w = <<>> /\ s \in F
                  \/ k > 0 /\ \E e \in js : \E v \in f[k - 1][e.to] :
                                e.from = s /\ w = <<e.gc>> \o v
  <2>1. f[k][s] = {w \in {<<>>} : s \in F}
                  \cup UNION {{<<e.gc>> \o w : w \in f[k - 1][e.to]} :
                              e \in {d \in js : k > 0 /\ d.from = s}}
    <3>1. f[k] = [r \in Nat |->
                    {w \in {<<>>} : r \in F}
                    \cup UNION {{<<e.gc>> \o w : w \in f[k - 1][e.to]} :
                                e \in {d \in js : k > 0 /\ d.from = r}}]
      BY <1>2, Zenon DEF IsFrom
    <3> QED
      BY <3>1, Zenon
  <2>2. ASSUME s \in F PROVE <<>> \in f[k][s]
    BY <2>1, <2>2
  <2>3. ASSUME k > 0, NEW e \in js, NEW w \in f[k - 1][e.to], e.from = s
        PROVE  <<e.gc>> \o w \in f[k][s]
    <3>1. PICK S : S = {<<e.gc>> \o v : v \in f[k - 1][e.to]}
      OBVIOUS
    <3>2. <<e.gc>> \o w \in S
      BY <2>3, <3>1
    <3>3. S \in {{<<d.gc>> \o v : v \in f[k - 1][d.to]} :
                 d \in {d \in js : k > 0 /\ d.from = s}}
      BY <2>3, <3>1, Zenon
    <3> QED
      BY <2>1, <3>2, <3>3, Zenon
  <2>4. ASSUME NEW w \in f[k][s]
        PROVE  \/ w = <<>> /\ s \in F
               \/ k > 0 /\ \E e \in js : \E v \in f[k - 1][e.to] :
                              e.from = s /\ w = <<e.gc>> \o v
    BY <2>1, <2>4, Zenon
  <2> QED
    BY <2>2, <2>3, <2>4, Zenon
<1>5. \A e \in js : e.from \in Nat /\ e.to \in Nat
  BY DEF AllEdges
<1>6. /\ \A s : Lang(js, F, s) \subseteq Strings
      /\ \A s \in F : <<>> \in Lang(js, F, s)
      /\ \A e \in js : \A w \in Lang(js, F, e.to) :
           Prefixed(e.gc, w) \in Lang(js, F, e.from)
  BY LangIs
<1>7. \A e \in js : \A w : Prefixed(e.gc, w) = <<e.gc>> \o w
  BY CharsFinite DEF Prefixed
<1>8. ASSUME NEW e \in js, NEW w \in Strings
      PROVE  Len(<<e.gc>> \o w) = Len(w) + 1 /\ Len(w) \in Nat
  BY DEF Strings
<1>9. PICK T : T = [k \in 0 .. n |-> {M \in {f[k]} :
                      \A s \in Nat : \A w \in M[s] :
                        w \in Lang(js, F, s) /\ Len(w) <= k}]
  OBVIOUS
<1>10. ASSUME NEW k \in 0 .. n, \A j \in 0 .. k - 1 : f[j] \in T[j]
       PROVE  f[k] \in T[k]
  <2>1. ASSUME NEW s \in Nat, NEW w \in f[k][s]
        PROVE  w \in Lang(js, F, s) /\ Len(w) <= k
    <3>1. CASE w = <<>> /\ s \in F
      <4>1. Len(<<>>) = 0 /\ 0 <= k
        OBVIOUS
      <4> QED
        BY <1>6, <3>1, <4>1
    <3>2. CASE ~(w = <<>> /\ s \in F)
      <4>1. k > 0 /\ \E e \in js : \E v \in f[k - 1][e.to] :
                       e.from = s /\ w = <<e.gc>> \o v
        BY <1>4, <2>1, <3>2
      <4>0. PICK e \in js : \E v \in f[k - 1][e.to] :
                              e.from = s /\ w = <<e.gc>> \o v
        BY <4>1
      <4>2. PICK v \in f[k - 1][e.to] : e.from = s /\ w = <<e.gc>> \o v
        BY <4>0
      <4>3. k - 1 \in 0 .. k - 1 /\ k - 1 \in 0 .. n
        BY <4>1
      <4>4. v \in Lang(js, F, e.to) /\ Len(v) <= k - 1
        BY <1>5, <1>9, <1>10, <4>2, <4>3
      <4>5. w \in Lang(js, F, s)
        BY <1>6, <1>7, <4>2, <4>4
      <4>6. Len(w) = Len(v) + 1 /\ Len(v) \in Nat
        BY <1>6, <1>8, <4>2, <4>4
      <4>7. Len(w) <= k
        BY <4>4, <4>6
      <4> QED
        BY <4>5, <4>7
    <3> QED
      BY <3>1, <3>2
  <2> QED
    BY <1>9, <2>1
<1>11. \A k \in 0 .. n : f[k] \in T[k]
  BY <1>10, RecursionTyped
<1>12. n \in 0 .. n
  OBVIOUS
<1>13. \A w \in f[n][st] : w \in Lang(js, F, st) /\ Len(w) <= n
  BY <1>9, <1>11, <1>12
<1>14. PICK M : M = [s \in Nat |-> {w \in Strings : \A k \in 0 .. n :
                                     Len(w) <= k => w \in f[k][s]}]
  OBVIOUS
<1>15. M \in Families
  BY <1>14 DEF Families
<1>16. \A s \in F : <<>> \in M[s]
  BY <1>4, <1>14, Strung
<1>17. ASSUME NEW e \in js, NEW w \in M[e.to]
       PROVE  Prefixed(e.gc, w) \in M[e.from]
  <2>1. w \in Strings /\ \A k \in 0 .. n : Len(w) <= k => w \in f[k][e.to]
    BY <1>5, <1>14
  <2>2. PICK x : x = <<e.gc>> \o w
    OBVIOUS
  <2>3. x \in Strings /\ Len(x) = Len(w) + 1 /\ Len(w) \in Nat
    <3>1. w \in Seq(Gen_chars) /\ e.gc \in Gen_chars
      BY <2>1 DEF Strings
    <3>2. x \in Strings
      BY <2>2, <3>1 DEF Strings
    <3> QED
      BY <1>8, <2>1, <2>2, <3>2
  <2>4. ASSUME NEW k \in 0 .. n, Len(x) <= k PROVE x \in f[k][e.from]
    <3>1. k > 0 /\ k - 1 \in 0 .. n /\ Len(w) <= k - 1
      BY <2>3, <2>4
    <3>2. w \in f[k - 1][e.to]
      BY <2>1, <3>1
    <3> QED
      BY <1>4, <1>5, <2>2, <3>1, <3>2
  <2>5. x \in M[e.from]
    BY <1>5, <1>14, <2>3, <2>4
  <2> QED
    BY <1>7, <2>2, <2>5
<1>18. Follows(js, F, M)
  BY <1>16, <1>17 DEF Follows
<1>19. Lang(js, F, st) \subseteq M[st]
  BY <1>15, <1>18, LangLeast
<1>20. \A w \in Lang(js, F, st) : Len(w) <= n => w \in f[n][st]
  BY <1>12, <1>14, <1>19
<1> QED
  BY <1>3, <1>13, <1>20 DEF Counts

-----------------------------------------------------------------------------
(* The construction, with what its automaton accepts.                      *)
Fitting(b, a) == \E L : Meaning(b, L) /\ Accepts(a) = L[Len(b)]

FollowInv ==
  stage \notin {"text", "rejected"}
    => /\ Following(Built, ndfa, 0, Gen_chars)
       /\ Complete(cmds) /\ cmds # <<>> /\ Fitting(cmds, ndfa)
       /\ stage # "subset" => unmarked = <<>>

(* Fused or not, the automaton accepts what the buffer means.              *)
LEMMA BuildFits ==
  ASSUME NEW b, Complete(b), b # <<>>, NEW opt,
         NEW a, a = build_NDFA(IF opt THEN fuse_unwrapped_commands(b) ELSE b)
  PROVE  Fitting(b, a)
<1>1. PICK L : Meaning(b, L) /\ Accepts(build_NDFA(b)) = L[Len(b)]
  BY BuildMeans
<1>2. CASE opt
  <2>1. PICK c : c = fuse_unwrapped_commands(b)
    OBVIOUS
  <2>2. Complete(c) /\ c # <<>>
    BY <2>1, FuseComplete
  <2>3. PICK M : Meaning(c, M) /\ Accepts(build_NDFA(c)) = M[Len(c)]
    BY <2>2, BuildMeans
  <2>4. Means(fuse_unwrapped_commands(b), L[Len(b)])
    BY <1>1, FuseMeans
  <2>5. M[Len(c)] = L[Len(b)]
    BY <2>1, <2>3, <2>4, Zenon DEF Means
  <2>6. a = build_NDFA(c)
    BY <1>2, <2>1
  <2> QED
    BY <1>1, <2>3, <2>5, <2>6 DEF Fitting
<1>3. CASE ~opt
  BY <1>1, <1>3 DEF Fitting
<1> QED
  BY <1>2, <1>3

LEMMA FollowBuilt ==
  ASSUME DfaInv, stage = "text", NEW b, Complete(b), b # <<>>,
         NEW opt, build_automaton(b, opt)
  PROVE  FollowInv'
<1>1. /\ ndfa' = build_NDFA(IF opt THEN fuse_unwrapped_commands(b) ELSE b)
      /\ unmarked' = <<0>> /\ jumps' = {} /\ stage' = "subset" /\ cmds' = b
      /\ sets' = <<epsilon_closure(ndfa', {ndfa'.begin_state})>>
  BY DEF build_automaton, DfaInv
<1>2. PICK z, a, n, S, u :
        /\ z = 0 /\ a = ndfa' /\ n = a.final_state
        /\ S = {a.begin_state} /\ u = epsilon_closure(a, S)
  OBVIOUS
<1>3. DfaInv'
  BY BuildSound
<1>4. Spans(a, z) /\ z \in Nat
  BY <1>1, <1>2, <1>3 DEF DfaInv
<1>5. S \subseteq 0 .. n
  <2>1. a.begin_state = z /\ n \in Nat
    BY <1>2, <1>4, SpansWithin
  <2> QED
    BY <1>2, <2>1
<1>6. Shut(a, u)
  BY <1>2, <1>4, <1>5, ClosureMeans
<1>7. PICK r : r = Built'
  OBVIOUS
<1>8. r.sets = <<u>> /\ r.unmarked = <<0>> /\ r.jumps = {}
  BY <1>1, <1>2, <1>7 DEF Built
<1>9. Following(r, a, 0, Gen_chars)
  <2>1. <<u>> # <<>> /\ <<u>>[1] = u /\ DOMAIN <<u>> = {1} /\ Len(<<u>>) = 1
    OBVIOUS
  <2>2. \A s \in 0 .. 1 - 1 : ~Marked(r, s)
    <3>1. 1 \in DOMAIN <<0>> /\ <<0>>[1] = 0
      OBVIOUS
    <3> QED
      BY <1>8, <3>1 DEF Marked
  <2>3. LeadFrom({}, 1)
    BY DEF LeadFrom
  <2> QED
    BY <1>2, <1>6, <1>8, <2>1, <2>2, <2>3 DEF Following
<1>10. Fitting(b, a)
  BY <1>1, <1>2, BuildFits
<1> QED
  BY <1>1, <1>2, <1>7, <1>9, <1>10 DEF FollowInv

(* The expression of identifiers, or of identifiers and keywords.          *)
LEMMA GenerateBuilds ==
  ASSUME TypeInv, generate_idents
  PROVE  \E b, opt : Complete(b) /\ b # <<>> /\ build_automaton(b, opt)
<1>1. /\ task = "identifiers" /\ part = "parsed" /\ ~failed /\ RawInv
  BY DEF generate_idents, TypeInv
<1>2. PICK kws, joined, b :
        /\ kws \in KeywordLists /\ joined \in BOOLEAN
        /\ b = IF joined THEN regexp1_or_regexp2(ident_commands,
                                                 u32strings_to_commands(kws))
               ELSE ident_commands
        /\ build_automaton(WithAction(b, WriteAction), TRUE)
  <2>1. PICK kws \in KeywordLists :
          LET joined == Meets(keyword_begin(kws), first_chars(bufs["id_begin"]))
          IN build_automaton(
               WithAction(IF joined
                          THEN regexp1_or_regexp2(ident_commands,
                                                  u32strings_to_commands(kws))
                          ELSE ident_commands, WriteAction), TRUE)
    BY DEF generate_idents
  <2>2. CASE Meets(keyword_begin(kws), first_chars(bufs["id_begin"]))
    <3>1. PICK b : b = regexp1_or_regexp2(ident_commands,
                                          u32strings_to_commands(kws))
      OBVIOUS
    <3>2. build_automaton(WithAction(b, WriteAction), TRUE)
      BY <2>1, <2>2, <3>1
    <3> QED
      BY <3>1, <3>2
  <2>3. CASE ~Meets(keyword_begin(kws), first_chars(bufs["id_begin"]))
    <3>1. PICK b : b = ident_commands
      OBVIOUS
    <3>2. build_automaton(WithAction(b, WriteAction), TRUE)
      BY <2>1, <2>3, <3>1
    <3> QED
      BY <3>1, <3>2
  <2> QED
    BY <2>2, <2>3
<1>4. Complete(ident_commands) /\ ident_commands # <<>>
  BY <1>1, IdentComplete
<1>5. Complete(b) /\ b # <<>>
  <2>1. kws \in Seq(Seq(Chars) \ {<<>>})
    BY <1>2, AutomataAssumption
  <2>2. Complete(u32strings_to_commands(kws))
    BY <2>1, StringsComplete
  <2>3. CASE joined
    BY <1>2, <1>4, <2>2, <2>3, OrComplete
  <2>4. CASE ~joined
    BY <1>2, <1>4, <2>4
  <2> QED
    BY <2>3, <2>4
<1>6. PICK c : c = WithAction(b, WriteAction)
  OBVIOUS
<1>7. Complete(c) /\ c # <<>>
  <2>1. WriteAction \in Nat
    BY AutomataAssumption
  <2> QED
    BY <1>5, <1>6, <2>1, ActionComplete
<1>8. build_automaton(c, TRUE)
  BY <1>2, <1>6
<1> QED
  BY <1>7, <1>8

(* And one of numbers or strings.                                          *)
LEMMA ExpressionBuilds ==
  ASSUME TypeInv, generate_expression
  PROVE  \E b, opt : Complete(b) /\ b # <<>> /\ build_automaton(b, opt)
<1>1. /\ stage = "text" /\ task = "expression" /\ Len(operands) = 1
      /\ build_automaton(unwrap_commands(buf), FALSE)
  BY DEF generate_expression
<1>2. PICK b : b = unwrap_commands(buf)
  OBVIOUS
<1>3. Complete(b) /\ b # <<>>
  BY <1>1, <1>2, ExprComplete DEF TypeInv
<1>4. build_automaton(b, FALSE)
  BY <1>1, <1>2
<1> QED
  BY <1>3, <1>4

-----------------------------------------------------------------------------
(* Q splits g: every element of g is in one of the groups, and only one,   *)
(* and two are in the relation R if, and only if, they are in one group.   *)
Splits(Q, g, R) ==
  /\ Q \in Seq(SUBSET g)
  /\ \A k \in DOMAIN Q : Q[k] # {}
  /\ \A k, l \in DOMAIN Q : \A s \in Q[k], t \in Q[l] : <<s, t>> \in R => k = l
  /\ \A s \in g : \E k \in DOMAIN Q : s \in Q[k]
  /\ \A k, l \in DOMAIN Q : \A s \in Q[k] : s \in Q[l] => k = l
  /\ \A k \in DOMAIN Q : \A s, t \in Q[k] : <<s, t>> \in R

LEMMA SplitsJoined ==
  ASSUME NEW R, NEW g, NEW h, g \cap h = {},
         \A s \in g : \A t \in h : <<s, t>> \notin R /\ <<t, s>> \notin R,
         NEW P, Splits(P, g, R), NEW Q, Splits(Q, h, R)
  PROVE  Splits(P \o Q, g \cup h, R)
<1>1. PICK m, n, u, J : /\ m = Len(P) /\ n = Len(Q) /\ u = g \cup h
                        /\ J = P \o Q
  OBVIOUS
<1>2. /\ P \in Seq(SUBSET u) /\ Q \in Seq(SUBSET u)
      /\ m \in Nat /\ n \in Nat /\ DOMAIN P = 1 .. m /\ DOMAIN Q = 1 .. n
  <2>1. P \in Seq(SUBSET g) /\ Q \in Seq(SUBSET h)
    BY DEF Splits
  <2>2. SUBSET g \subseteq SUBSET u /\ SUBSET h \subseteq SUBSET u
    BY <1>1
  <2> QED
    BY <1>1, <2>1, <2>2
<1>3. /\ J \in Seq(SUBSET u) /\ DOMAIN J = 1 .. m + n
      /\ \A k \in 1 .. m : J[k] = P[k]
      /\ \A k \in 1 .. n : J[m + k] = Q[k]
  BY <1>1, <1>2
<1>4. ASSUME NEW k \in 1 .. m + n, k \notin 1 .. m
      PROVE  k - m \in 1 .. n /\ J[k] = Q[k - m]
  <2>1. k - m \in 1 .. n /\ m + (k - m) = k
    BY <1>2, <1>4
  <2> QED
    BY <1>3, <2>1
<1>5. /\ \A k \in 1 .. m : P[k] \subseteq g
      /\ \A k \in 1 .. n : Q[k] \subseteq h
  BY <1>2 DEF Splits
<1>6. ASSUME NEW s \in u PROVE \E k \in DOMAIN J : s \in J[k]
  <2>1. CASE s \in g
    <3>1. PICK k \in 1 .. m : s \in P[k]
      BY <1>2, <2>1 DEF Splits
    <3>2. k \in 1 .. m + n
      BY <1>2
    <3> QED
      BY <1>3, <3>1, <3>2
  <2>2. CASE s \in h
    <3>1. PICK k \in 1 .. n : s \in Q[k]
      BY <1>2, <2>2 DEF Splits
    <3>2. m + k \in 1 .. m + n
      BY <1>2
    <3> QED
      BY <1>3, <3>1, <3>2
  <2> QED
    BY <1>1, <2>1, <2>2
<1>7. ASSUME NEW k \in 1 .. m + n, NEW l \in 1 .. m + n,
             NEW s \in J[k], s \in J[l]
      PROVE  k = l
  <2>1. CASE k \in 1 .. m /\ l \in 1 .. m
    BY <1>2, <1>3, <1>7, <2>1 DEF Splits
  <2>2. CASE k \notin 1 .. m /\ l \notin 1 .. m
    <3>1. /\ k - m \in 1 .. n /\ s \in Q[k - m]
          /\ l - m \in 1 .. n /\ s \in Q[l - m]
      BY <1>4, <1>7, <2>2
    <3>2. k - m = l - m
      BY <1>2, <3>1 DEF Splits
    <3> QED
      BY <1>2, <3>2
  <2>3. CASE k \in 1 .. m /\ l \notin 1 .. m
    <3>1. s \in P[k] /\ l - m \in 1 .. n /\ s \in Q[l - m]
      BY <1>3, <1>4, <1>7, <2>3
    <3>2. s \in g /\ s \in h
      BY <1>5, <2>3, <3>1
    <3> QED
      BY <3>2
  <2>4. CASE k \notin 1 .. m /\ l \in 1 .. m
    <3>1. s \in P[l] /\ k - m \in 1 .. n /\ s \in Q[k - m]
      BY <1>3, <1>4, <1>7, <2>4
    <3>2. s \in g /\ s \in h
      BY <1>5, <2>4, <3>1
    <3> QED
      BY <3>2
  <2> QED
    BY <2>1, <2>2, <2>3, <2>4
<1>8. ASSUME NEW k \in 1 .. m + n, NEW s \in J[k], NEW t \in J[k]
      PROVE  <<s, t>> \in R
  <2>1. CASE k \in 1 .. m
    BY <1>2, <1>3, <1>8, <2>1 DEF Splits
  <2>2. CASE k \notin 1 .. m
    <3>1. k - m \in 1 .. n /\ s \in Q[k - m] /\ t \in Q[k - m]
      BY <1>4, <1>8, <2>2
    <3> QED
      BY <1>2, <3>1 DEF Splits
  <2> QED
    BY <2>1, <2>2
<1>9. ASSUME NEW k \in 1 .. m + n PROVE J[k] # {}
  <2>1. CASE k \in 1 .. m
    BY <1>2, <1>3, <2>1 DEF Splits
  <2>2. CASE k \notin 1 .. m
    BY <1>2, <1>4, <2>2 DEF Splits
  <2> QED
    BY <2>1, <2>2
<1>10. ASSUME NEW k \in 1 .. m + n, NEW l \in 1 .. m + n,
              NEW s \in J[k], NEW t \in J[l], <<s, t>> \in R
       PROVE  k = l
  <2>1. CASE k \in 1 .. m /\ l \in 1 .. m
    BY <1>2, <1>3, <1>10, <2>1 DEF Splits
  <2>2. CASE k \notin 1 .. m /\ l \notin 1 .. m
    <3>1. /\ k - m \in 1 .. n /\ s \in Q[k - m]
          /\ l - m \in 1 .. n /\ t \in Q[l - m]
      BY <1>4, <1>10, <2>2
    <3>2. k - m = l - m
      BY <1>2, <1>10, <3>1 DEF Splits
    <3> QED
      BY <1>2, <3>2
  <2>3. CASE k \in 1 .. m /\ l \notin 1 .. m
    <3>1. s \in P[k] /\ l - m \in 1 .. n /\ t \in Q[l - m]
      BY <1>3, <1>4, <1>10, <2>3
    <3>2. s \in g /\ t \in h
      BY <1>5, <2>3, <3>1
    <3> QED
      BY <1>10, <3>2
  <2>4. CASE k \notin 1 .. m /\ l \in 1 .. m
    <3>1. t \in P[l] /\ k - m \in 1 .. n /\ s \in Q[k - m]
      BY <1>3, <1>4, <1>10, <2>4
    <3>2. t \in g /\ s \in h
      BY <1>5, <2>4, <3>1
    <3> QED
      BY <1>10, <3>2
  <2> QED
    BY <2>1, <2>2, <2>3, <2>4
<1>11. Splits(J, u, R)
  BY <1>3, <1>6, <1>7, <1>8, <1>9, <1>10 DEF Splits
<1> QED
  BY <1>1, <1>11, Zenon

(* The groups up to k.                                                     *)
Together(gs, k) == UNION {gs[j] : j \in 1 .. k}

IsFlat(Qs, f) ==
  f = [i \in 1 .. Len(Qs) |-> IF i = 1 THEN Qs[i] ELSE f[i - 1] \o Qs[i]]

(* What FlattenSeq does to the parts of disjoint groups.                   *)
LEMMA FlatSplits ==
  ASSUME NEW m \in Nat, NEW Qs, Qs = [k \in 1 .. m |-> Qs[k]], NEW gs, NEW R,
         \A k \in 1 .. m : Splits(Qs[k], gs[k], R),
         \A k, l \in 1 .. m : \A s \in gs[k] : s \in gs[l] => k = l,
         \A k, l \in 1 .. m : \A s \in gs[k], t \in gs[l] :
           <<s, t>> \in R => k = l
  PROVE  Splits(FlattenSeq(Qs), Together(gs, m), R)
<1>1. DOMAIN Qs = 1 .. m /\ Len(Qs) = m
  <2>1. DOMAIN Qs = 1 .. m
    OBVIOUS
  <2> QED
    BY <2>1, LenProperties
<1>2. CASE m = 0
  <2>1. FlattenSeq(Qs) = Qs
    BY <1>1, <1>2, Zenon DEF FlattenSeq
  <2>2. Qs = <<>>
    BY <1>2
  <2>3. Together(gs, m) = {}
    BY <1>2 DEF Together
  <2> QED
    BY <2>1, <2>2, <2>3 DEF Splits
<1>3. CASE m # 0
  <2>1. PICK o : o = 1
    OBVIOUS
  <2>2. /\ o \in Nat /\ o \in o .. m /\ m \in o .. m
        /\ \A k : k \in 1 .. m <=> k \in o .. m
    BY <1>3, <2>1
  <2>3. PICK X : X = [k \in o .. m |-> {Q \in Seq(SUBSET Together(gs, k)) :
                                          Splits(Q, Together(gs, k), R)}]
    OBVIOUS
  <2>4. ASSUME NEW k \in o .. m, NEW Q, Splits(Q, Together(gs, k), R)
        PROVE  Q \in X[k]
    BY <2>3, <2>4 DEF Splits
  <2>5. Qs[o] \in X[o]
    <3>1. Together(gs, o) = gs[o]
      BY <2>1 DEF Together
    <3>2. Splits(Qs[o], Together(gs, o), R)
      BY <2>2, <3>1
    <3> QED
      BY <2>2, <2>4, <3>2
  <2>6. ASSUME NEW k \in o + 1 .. m, NEW Q \in X[k - 1]
        PROVE  Q \o Qs[k] \in X[k]
    <3>1. PICK j : j = k - 1
      OBVIOUS
    <3>2. j \in o .. m /\ k \in o .. m /\ k \in 1 .. m
      BY <2>1, <3>1
    <3>3. Splits(Q, Together(gs, j), R) /\ Splits(Qs[k], gs[k], R)
      BY <2>3, <3>1, <3>2
    <3>4. Together(gs, k) = Together(gs, j) \cup gs[k]
      <4>1. \A i : i \in 1 .. k <=> i \in 1 .. j \/ i = k
        BY <3>1, <3>2
      <4> QED
        BY <4>1 DEF Together
    <3>5. Together(gs, j) \cap gs[k] = {}
      <4>1. \A i \in 1 .. j : i \in 1 .. m /\ i # k
        BY <3>1, <3>2
      <4> QED
        BY <3>2, <4>1 DEF Together
    <3>7. \A s \in Together(gs, j) : \A t \in gs[k] :
            <<s, t>> \notin R /\ <<t, s>> \notin R
      <4>1. \A i \in 1 .. j : i \in 1 .. m /\ i # k
        BY <3>1, <3>2
      <4> QED
        BY <3>2, <4>1 DEF Together
    <3>6. Splits(Q \o Qs[k], Together(gs, k), R)
      BY <3>3, <3>4, <3>5, <3>7, SplitsJoined
    <3> QED
      BY <2>4, <3>2, <3>6
  <2>7. \E f : IsFlat(Qs, f)
    <3>1. PICK G : G = [k \in o .. m |-> [Q \in X[k - 1] |-> Q \o Qs[k]]]
      OBVIOUS
    <3>2. \A k \in o + 1 .. m : \A Q \in X[k - 1] : G[k][Q] = Q \o Qs[k]
      <4>1. \A k \in o + 1 .. m : k \in o .. m
        BY <2>1
      <4> QED
        BY <3>1, <4>1
    <3>3. \A k \in o + 1 .. m : \A Q \in X[k - 1] : G[k][Q] \in X[k]
      <4>1. ASSUME NEW k \in o + 1 .. m, NEW Q \in X[k - 1]
            PROVE  G[k][Q] \in X[k]
        <5>1. G[k][Q] = Q \o Qs[k]
          BY <3>2, <4>1
        <5> QED
          BY <2>6, <4>1, <5>1
      <4> QED
        BY <4>1
    <3>7. PICK b : b = Qs[o] /\ b \in X[o]
      BY <2>5
    <3>4. PICK f : Steps(f, G, b, o, m) /\ \A k \in o .. m : f[k] \in X[k]
      <4>1. o \in Nat /\ b \in X[o]
        BY <2>2, <3>7
      <4>2. \E f : Steps(f, G, b, o, m) /\ \A k \in o .. m : f[k] \in X[k]
        BY ONLY m \in Nat, <3>3, <4>1, StepsExist
      <4> QED
        BY <4>2
    <3>5. ASSUME NEW k \in o .. m
          PROVE  f[k] = IF k = 1 THEN Qs[k] ELSE f[k - 1] \o Qs[k]
      <4>1. f[k] = IF k = o THEN Qs[o] ELSE G[k][f[k - 1]]
        BY <3>4, <3>7 DEF Steps
      <4>2. k # o => k \in o + 1 .. m /\ k - 1 \in o .. m
        BY <2>1
      <4> QED
        BY <2>1, <3>2, <3>4, <4>1, <4>2
    <3>6. f = [k \in o .. m |-> f[k]]
      BY <3>4 DEF Steps
    <3> QED
      <4>1. o .. m = 1 .. Len(Qs)
        BY <1>1, <2>1
      <4>2. \A k \in 1 .. Len(Qs) :
              f[k] = IF k = 1 THEN Qs[k] ELSE f[k - 1] \o Qs[k]
        BY <3>5, <4>1, Zenon
      <4>3. f = [k \in 1 .. Len(Qs) |-> f[k]]
        BY <3>6, <4>1, Zenon
      <4>4. IsFlat(Qs, f)
        BY <4>2, <4>3, Zenon DEF IsFlat
      <4> QED
        BY <4>4
  <2>8. PICK f : f = CHOOSE g : IsFlat(Qs, g)
    OBVIOUS
  <2>9. IsFlat(Qs, f)
    BY <2>7, <2>8, Zenon
  <2>10. FlattenSeq(Qs) = f[m]
    BY <1>1, <1>3, <2>8, Zenon DEF FlattenSeq, IsFlat
  <2>11. ASSUME NEW k \in o .. m, \A j \in o .. k - 1 : f[j] \in X[j]
         PROVE  f[k] \in X[k]
    <3>1. f[k] = IF k = 1 THEN Qs[k] ELSE f[k - 1] \o Qs[k]
      BY <1>1, <2>1, <2>9 DEF IsFlat
    <3>2. CASE k = o
      BY <2>1, <2>5, <3>1, <3>2
    <3>3. CASE k # o
      <4>1. k \in o + 1 .. m /\ k - 1 \in o .. k - 1 /\ k # 1
        BY <2>1, <3>3
      <4> QED
        BY <2>6, <2>11, <3>1, <4>1
    <3> QED
      BY <3>2, <3>3
  <2>12. \A k \in o .. m : f[k] \in X[k]
    BY <2>2, <2>11, RecursionTyped
  <2>13. f[m] \in X[m]
    BY <2>2, <2>12
  <2> QED
    BY <2>2, <2>3, <2>10, <2>13
<1> QED
  BY <1>2, <1>3

-----------------------------------------------------------------------------
(* The states of Z that go to one group by a character, or by every one.   *)
AlikeBy(P, js, gc, Z) ==
  {p \in Z \X Z : ClassOf(P, js, p[1], gc) = ClassOf(P, js, p[2], gc)}
AlikeIn(P, js, G, Z) == {p \in Z \X Z : \A gc \in G : p \in AlikeBy(P, js, gc, Z)}

LEMMA SplitsSame ==
  ASSUME NEW Q, NEW g, NEW R, Splits(Q, g, R), NEW S,
         \A s, t \in g : <<s, t>> \in R <=> <<s, t>> \in S
  PROVE  Splits(Q, g, S)
<1>1. \A k \in DOMAIN Q : Q[k] \subseteq g
  BY DEF Splits
<1> QED
  BY <1>1 DEF Splits

LEMMA GroupIs ==
  ASSUME NEW P, NEW Z, NEW R, Splits(P, Z, R), NEW s \in Z
  PROVE  /\ GroupOf(P, s) \in DOMAIN P /\ s \in P[GroupOf(P, s)]
         /\ \A k \in DOMAIN P : s \in P[k] => k = GroupOf(P, s)
<1>1. \E k \in DOMAIN P : s \in P[k]
  BY DEF Splits
<1>2. GroupOf(P, s) \in DOMAIN P /\ s \in P[GroupOf(P, s)]
  BY <1>1 DEF GroupOf
<1> QED
  BY <1>2 DEF Splits

LEMMA ClassTyped ==
  ASSUME NEW N \in Nat, NEW Z, Z = 0 .. N - 1, NEW js, js \subseteq Jumps(N),
         NEW P, NEW R, Splits(P, Z, R), NEW s, NEW gc
  PROVE  ClassOf(P, js, s, gc) \in 0 .. Len(P)
<1>1. Len(P) \in Nat /\ DOMAIN P = 1 .. Len(P)
  <2>1. P \in Seq(SUBSET Z)
    BY DEF Splits
  <2> QED
    BY <2>1
<1>2. CASE By(js, {s}, gc) = {}
  BY <1>1, <1>2 DEF ClassOf
<1>3. CASE By(js, {s}, gc) # {}
  <2>1. PICK e : e = CHOOSE d \in By(js, {s}, gc) : TRUE
    OBVIOUS
  <2>2. e \in By(js, {s}, gc)
    BY <1>3, <2>1
  <2>3. e.to \in Z
    BY <2>2 DEF By, Jumps
  <2>4. GroupOf(P, e.to) \in DOMAIN P
    BY <2>3, GroupIs
  <2>5. ClassOf(P, js, s, gc) = GroupOf(P, e.to)
    BY <1>3, <2>1, Zenon DEF ClassOf
  <2> QED
    BY <1>1, <2>4, <2>5
<1> QED
  BY <1>2, <1>3

(* split_group_by_gc tells apart what a character tells apart.             *)
LEMMA SplitByGc ==
  ASSUME NEW N \in Nat, NEW Z, Z = 0 .. N - 1, NEW js, js \subseteq Jumps(N),
         NEW P, NEW R, Splits(P, Z, R),
         NEW g, g \subseteq Z, NEW S, \A s, t \in g : <<s, t>> \in S, NEW gc
  PROVE  Splits(split_group_by_gc(P, js, g, gc), g, S \cap AlikeBy(P, js, gc, Z))
<1> DEFINE cl == [st \in g |-> ClassOf(P, js, st, gc)]
           C == {cl[st] : st \in g}
           cs == InOrder(C)
           Q == [k \in DOMAIN cs |-> {st \in g : cl[st] = cs[k]}]
<1>1. /\ cl = [st \in g |-> ClassOf(P, js, st, gc)]
      /\ C = {cl[st] : st \in g} /\ cs = InOrder(C)
      /\ Q = [k \in DOMAIN cs |-> {st \in g : cl[st] = cs[k]}]
  OBVIOUS
<1>2. split_group_by_gc(P, js, g, gc) = Q
  BY Zenon DEF split_group_by_gc
<1> HIDE DEF cl, C, cs, Q
<1>3. PICK m : m = Len(P)
  OBVIOUS
<1>4. m \in Nat
  <2>1. P \in Seq(SUBSET Z)
    BY DEF Splits
  <2> QED
    BY <1>3, <2>1
<1>5. C \subseteq 0 .. m
  <2>1. \A s \in g : cl[s] \in 0 .. m
    BY <1>1, <1>3, ClassTyped
  <2> QED
    BY <1>1, <2>1
<1>6. C \subseteq Nat /\ IsFiniteSet(C)
  <2>1. 0 \in Int /\ m \in Int
    BY <1>4
  <2>2. PICK I : I = 0 .. m
    OBVIOUS
  <2>3. IsFiniteSet(I) /\ I \subseteq Nat
    BY <2>1, <2>2, FS_Interval
  <2> QED
    BY <1>5, <2>2, <2>3, FS_Subset
<1>7. PICK c : c = Cardinality(C)
  OBVIOUS
<1>8. /\ c \in Nat /\ cs \in Seq(C) /\ Len(cs) = c
      /\ \A i, j \in 1 .. c : cs[i] = cs[j] => i = j
  BY <1>1, <1>6, <1>7, InOrderIs
<1>9. DOMAIN cs = 1 .. c
  BY <1>8
<1>10. \A x \in C : \E i \in 1 .. c : cs[i] = x
  <2>1. \A x \in C : \E i \in 1 .. Len(InOrder(C)) : InOrder(C)[i] = x
    BY <1>6, InOrderAll
  <2> QED
    BY <1>1, <1>8, <2>1
<1>11. Q \in Seq(SUBSET g) /\ DOMAIN Q = 1 .. c
       /\ \A k \in 1 .. c : Q[k] = {st \in g : cl[st] = cs[k]}
  <2>1. Q = [k \in 1 .. c |-> {st \in g : cl[st] = cs[k]}]
    BY <1>1, <1>9
  <2>2. Q \in [1 .. c -> SUBSET g]
    BY <2>1
  <2>3. Q \in Seq(SUBSET g)
    BY <1>8, <2>2
  <2> QED
    BY <2>1, <2>3
<1>12. \A s \in g : \E k \in 1 .. c : s \in Q[k]
  <2>1. \A s \in g : cl[s] \in C
    BY <1>1
  <2> QED
    BY <1>10, <1>11, <2>1
<1>13. \A k, l \in 1 .. c : \A s \in Q[k] : s \in Q[l] => k = l
  BY <1>8, <1>11
<1>14. ASSUME NEW k \in 1 .. c, NEW s \in Q[k], NEW t \in Q[k]
       PROVE  <<s, t>> \in S \cap AlikeBy(P, js, gc, Z)
  <2>1. s \in g /\ t \in g /\ cl[s] = cl[t]
    BY <1>11, <1>14
  <2>2. ClassOf(P, js, s, gc) = ClassOf(P, js, t, gc)
    BY <1>1, <2>1
  <2>3. s \in Z /\ t \in Z
    BY <2>1
  <2>4. <<s, t>> \in AlikeBy(P, js, gc, Z)
    BY <2>2, <2>3 DEF AlikeBy
  <2> QED
    BY <2>1, <2>4
<1>15. \A k \in 1 .. c : Q[k] # {}
  <2>1. ASSUME NEW k \in 1 .. c PROVE Q[k] # {}
    <3>1. cs[k] \in C
      BY <1>8, <1>9
    <3>2. PICK st \in g : cl[st] = cs[k]
      BY <1>1, <3>1
    <3> QED
      BY <1>11, <3>2
  <2> QED
    BY <2>1
<1>16. ASSUME NEW k \in 1 .. c, NEW l \in 1 .. c, NEW s \in Q[k], NEW t \in Q[l],
              <<s, t>> \in S \cap AlikeBy(P, js, gc, Z)
       PROVE  k = l
  <2>1. s \in g /\ t \in g /\ cl[s] = cs[k] /\ cl[t] = cs[l]
    BY <1>11
  <2>2. ClassOf(P, js, s, gc) = ClassOf(P, js, t, gc)
    BY <1>16 DEF AlikeBy
  <2>3. cl[s] = cl[t]
    BY <1>1, <2>1, <2>2
  <2> QED
    BY <1>8, <2>1, <2>3
<1> QED
  BY <1>2, <1>11, <1>12, <1>13, <1>14, <1>15, <1>16 DEF Splits

LEMMA SplitAllByGc ==
  ASSUME NEW N \in Nat, NEW Z, Z = 0 .. N - 1, NEW js, js \subseteq Jumps(N),
         NEW P, NEW R, Splits(P, Z, R),
         NEW g, g \subseteq Z, NEW S, NEW Q, Splits(Q, g, S), NEW gc
  PROVE  Splits(split_group_partition_by_gc(P, js, Q, gc), g,
                S \cap AlikeBy(P, js, gc, Z))
<1>1. PICK m, T, Qs :
        /\ m = Len(Q) /\ T = S \cap AlikeBy(P, js, gc, Z)
        /\ Qs = [k \in DOMAIN Q |-> split_group_by_gc(P, js, Q[k], gc)]
  OBVIOUS
<1>2. m \in Nat /\ DOMAIN Q = 1 .. m /\ \A k \in 1 .. m : Q[k] \subseteq g
  <2>1. Q \in Seq(SUBSET g)
    BY DEF Splits
  <2> QED
    BY <1>1, <2>1
<1>3. ASSUME NEW k \in 1 .. m PROVE Splits(Qs[k], Q[k], T)
  <2>1. PICK h : h = Q[k]
    OBVIOUS
  <2>2. h \subseteq Z /\ \A s, t \in h : <<s, t>> \in S
    BY <1>2, <1>3, <2>1 DEF Splits
  <2>3. Splits(split_group_by_gc(P, js, h, gc), h, S \cap AlikeBy(P, js, gc, Z))
    BY <2>2, SplitByGc
  <2> QED
    BY <1>1, <1>2, <2>1, <2>3
<1>4. /\ \A k, l \in 1 .. m : \A s \in Q[k] : s \in Q[l] => k = l
      /\ \A k, l \in 1 .. m : \A s \in Q[k], t \in Q[l] :
           <<s, t>> \in T => k = l
  <2>1. /\ \A k, l \in 1 .. m : \A s \in Q[k] : s \in Q[l] => k = l
        /\ \A k, l \in 1 .. m : \A s \in Q[k], t \in Q[l] :
             <<s, t>> \in S => k = l
    BY <1>2 DEF Splits
  <2>2. T \subseteq S
    BY <1>1
  <2> QED
    BY <2>1, <2>2
<1>5. Qs = [k \in 1 .. m |-> Qs[k]]
  BY <1>1, <1>2
<1>6. Splits(FlattenSeq(Qs), Together(Q, m), T)
  BY <1>2, <1>3, <1>4, <1>5, FlatSplits
<1>7. Together(Q, m) = g
  <2>1. \A s \in g : \E k \in 1 .. m : s \in Q[k]
    BY <1>2 DEF Splits
  <2> QED
    BY <1>2, <2>1 DEF Together
<1>8. split_group_partition_by_gc(P, js, Q, gc) = FlattenSeq(Qs)
  BY <1>1, Zenon DEF split_group_partition_by_gc
<1> QED
  BY <1>1, <1>6, <1>7, <1>8

IsSplit(P, js, g, gcs, f) ==
  f = [k \in 0 .. Len(gcs) |->
         IF k = 0 THEN <<g>>
         ELSE split_group_partition_by_gc(P, js, f[k - 1], gcs[k])]

LEMMA AlikeMore ==
  ASSUME NEW P, NEW js, NEW Z, NEW G, NEW gc
  PROVE  AlikeIn(P, js, G \cup {gc}, Z)
           = AlikeIn(P, js, G, Z) \cap AlikeBy(P, js, gc, Z)
BY DEF AlikeIn, AlikeBy

(* split_group: what is left together after each of its characters.        *)
LEMMA TurnsSplit ==
  ASSUME NEW N \in Nat, NEW Z, Z = 0 .. N - 1, NEW js, js \subseteq Jumps(N),
         NEW P, NEW R, Splits(P, Z, R),
         NEW g, g \subseteq Z, g # {}, NEW S, \A s, t \in g : <<s, t>> \in S,
         NEW C, NEW gcs \in Seq(C)
  PROVE  \E f : /\ IsSplit(P, js, g, gcs, f)
                /\ \A h : IsSplit(P, js, g, gcs, h) =>
                     Splits(h[Len(gcs)], g,
                            S \cap AlikeIn(P, js, Tried(gcs, Len(gcs)), Z))
<1>1. PICK l, z : l = Len(gcs) /\ z = 0
  OBVIOUS
<1>2. l \in Nat /\ z \in Nat /\ z \in z .. l /\ l \in z .. l
  BY <1>1
<1>3. PICK X : X = [k \in z .. l |-> {Q \in Seq(SUBSET g) :
                      Splits(Q, g, S \cap AlikeIn(P, js, Tried(gcs, k), Z))}]
  OBVIOUS
<1>4. ASSUME NEW k \in z .. l, NEW Q,
             Splits(Q, g, S \cap AlikeIn(P, js, Tried(gcs, k), Z))
      PROVE  Q \in X[k]
  BY <1>3, <1>4 DEF Splits
<1>5. <<g>> \in X[z]
  <2>1. Tried(gcs, z) = {}
    BY <1>1 DEF Tried
  <2>2. \A s, t \in g : <<s, t>> \in S \cap AlikeIn(P, js, {}, Z)
    BY DEF AlikeIn
  <2>3. <<g>> \in Seq(SUBSET g) /\ DOMAIN <<g>> = {1} /\ <<g>>[1] = g
    OBVIOUS
  <2>4. Splits(<<g>>, g, S \cap AlikeIn(P, js, {}, Z))
    BY <2>2, <2>3 DEF Splits
  <2> QED
    BY <1>2, <1>4, <2>1, <2>4
<1>6. ASSUME NEW k \in z + 1 .. l, NEW Q \in X[k - 1]
      PROVE  split_group_partition_by_gc(P, js, Q, gcs[k]) \in X[k]
  <2>1. PICK j, gc, T, U : /\ j = k - 1 /\ gc = gcs[k]
                           /\ T = S \cap AlikeIn(P, js, Tried(gcs, j), Z)
                           /\ U = S \cap AlikeIn(P, js, Tried(gcs, k), Z)
    OBVIOUS
  <2>2. j \in z .. l /\ k \in z .. l /\ k \in 1 .. l
    BY <1>1, <2>1
  <2>3. Splits(Q, g, T)
    BY <1>3, <2>1, <2>2
  <2>4. Splits(split_group_partition_by_gc(P, js, Q, gc), g,
               T \cap AlikeBy(P, js, gc, Z))
    BY <2>3, SplitAllByGc
  <2>5. Tried(gcs, k) = Tried(gcs, j) \cup {gc}
    <3>1. \A i : i \in 1 .. k <=> i \in 1 .. j \/ i = k
      BY <2>1, <2>2
    <3> QED
      BY <2>1, <3>1 DEF Tried
  <2>6. T \cap AlikeBy(P, js, gc, Z) = U
    <3>1. AlikeIn(P, js, Tried(gcs, j) \cup {gc}, Z)
            = AlikeIn(P, js, Tried(gcs, j), Z) \cap AlikeBy(P, js, gc, Z)
      BY AlikeMore
    <3>2. PICK A, B : A = AlikeIn(P, js, Tried(gcs, j), Z)
                      /\ B = AlikeBy(P, js, gc, Z)
      OBVIOUS
    <3>3. U = S \cap (A \cap B) /\ T = S \cap A
      BY <2>1, <2>5, <3>1, <3>2
    <3> QED
      BY <3>2, <3>3
  <2> QED
    BY <1>4, <2>1, <2>2, <2>4, <2>6
<1>7. \E f : IsSplit(P, js, g, gcs, f)
  <2>1. PICK G : G = [k \in z .. l |-> [Q \in X[k - 1] |->
                        split_group_partition_by_gc(P, js, Q, gcs[k])]]
    OBVIOUS
  <2>2. \A k \in z + 1 .. l : \A Q \in X[k - 1] :
          G[k][Q] = split_group_partition_by_gc(P, js, Q, gcs[k])
    <3>1. \A k \in z + 1 .. l : k \in z .. l
      BY <1>1
    <3> QED
      BY <2>1, <3>1
  <2>3. \A k \in z + 1 .. l : \A Q \in X[k - 1] : G[k][Q] \in X[k]
    <3>1. ASSUME NEW k \in z + 1 .. l, NEW Q \in X[k - 1]
          PROVE  G[k][Q] \in X[k]
      <4>1. G[k][Q] = split_group_partition_by_gc(P, js, Q, gcs[k])
        BY <2>2, <3>1
      <4> QED
        BY <1>6, <3>1, <4>1
    <3> QED
      BY <3>1
  <2>4. PICK b : b = <<g>> /\ b \in X[z]
    BY <1>5
  <2>5. PICK f : Steps(f, G, b, z, l) /\ \A k \in z .. l : f[k] \in X[k]
    <3>1. \E f : Steps(f, G, b, z, l) /\ \A k \in z .. l : f[k] \in X[k]
      BY ONLY <1>2, <2>3, <2>4, StepsExist
    <3> QED
      BY <3>1
  <2>6. ASSUME NEW k \in z .. l
        PROVE  f[k] = IF k = 0 THEN <<g>>
                      ELSE split_group_partition_by_gc(P, js, f[k - 1], gcs[k])
    <3>1. f[k] = IF k = z THEN b ELSE G[k][f[k - 1]]
      BY <2>5 DEF Steps
    <3>2. k # z => k \in z + 1 .. l /\ k - 1 \in z .. l
      BY <1>1
    <3> QED
      BY <1>1, <2>2, <2>4, <2>5, <3>1, <3>2
  <2>7. f = [k \in z .. l |-> f[k]]
    BY <2>5 DEF Steps
  <2>8. z .. l = 0 .. Len(gcs)
    BY <1>1
  <2>9. \A k \in 0 .. Len(gcs) :
          f[k] = IF k = 0 THEN <<g>>
                 ELSE split_group_partition_by_gc(P, js, f[k - 1], gcs[k])
    BY <2>6, <2>8, Zenon
  <2>10. f = [k \in 0 .. Len(gcs) |-> f[k]]
    BY <2>7, <2>8, Zenon
  <2>11. IsSplit(P, js, g, gcs, f)
    BY <2>9, <2>10, Zenon DEF IsSplit
  <2> QED
    BY <2>11
<1>8. ASSUME NEW f, IsSplit(P, js, g, gcs, f)
      PROVE  Splits(f[l], g, S \cap AlikeIn(P, js, Tried(gcs, l), Z))
  <2>1. ASSUME NEW k \in z .. l, \A j \in z .. k - 1 : f[j] \in X[j]
        PROVE  f[k] \in X[k]
    <3>1. f[k] = IF k = 0 THEN <<g>>
                 ELSE split_group_partition_by_gc(P, js, f[k - 1], gcs[k])
      BY <1>1, <1>8 DEF IsSplit
    <3>2. CASE k = z
      BY <1>1, <1>5, <3>1, <3>2
    <3>3. CASE k # z
      <4>1. k \in z + 1 .. l /\ k - 1 \in z .. k - 1 /\ k # 0
        BY <1>1, <3>3
      <4> QED
        BY <1>6, <2>1, <3>1, <4>1
    <3> QED
      BY <3>2, <3>3
  <2>2. \A k \in z .. l : f[k] \in X[k]
    BY <1>2, <2>1, RecursionTyped
  <2> QED
    BY <1>2, <1>3, <2>2
<1> QED
  BY <1>1, <1>7, <1>8

LEMMA SplitGroup ==
  ASSUME NEW N \in Nat, NEW Z, Z = 0 .. N - 1, NEW js, js \subseteq Jumps(N),
         NEW P, NEW R, Splits(P, Z, R),
         NEW g, g \subseteq Z, g # {}, NEW S, \A s, t \in g : <<s, t>> \in S
  PROVE  Splits(split_group(P, js, g), g, S \cap AlikeIn(P, js, Gen_chars, Z))
<1>1. PICK C, gcs : C = jump_chars_set(js, g) /\ gcs = InOrder(C)
  OBVIOUS
<1>2. C \subseteq Gen_chars
  BY <1>1 DEF jump_chars_set, Jumps
<1>3. C \subseteq Nat /\ IsFiniteSet(C)
  BY <1>2, CharsFinite, FS_Subset
<1>4. gcs \in Seq(C) /\ \A x \in C : \E i \in 1 .. Len(gcs) : gcs[i] = x
  BY <1>1, <1>3, InOrderAll
<1>5. C \subseteq Tried(gcs, Len(gcs))
  BY <1>4 DEF Tried
<1>6. \E f : /\ IsSplit(P, js, g, gcs, f)
             /\ \A h : IsSplit(P, js, g, gcs, h) =>
                  Splits(h[Len(gcs)], g,
                         S \cap AlikeIn(P, js, Tried(gcs, Len(gcs)), Z))
  BY <1>4, TurnsSplit
<1>7. PICK f : f = CHOOSE h : IsSplit(P, js, g, gcs, h)
  OBVIOUS
<1>8. IsSplit(P, js, g, gcs, f)
  BY <1>6, <1>7, Zenon
<1>9. split_group(P, js, g) = f[Len(gcs)]
  BY <1>1, <1>7, Zenon DEF split_group, IsSplit
<1>10. Splits(f[Len(gcs)], g, S \cap AlikeIn(P, js, Tried(gcs, Len(gcs)), Z))
  BY <1>6, <1>8
<1>11. ASSUME NEW s \in g, NEW gc \in Gen_chars, gc \notin C
       PROVE  ClassOf(P, js, s, gc) = 0
  <2>1. gc # Epsilon
    BY CharsFinite
  <2>2. By(js, {s}, gc) = {}
    BY <1>1, <1>11, <2>1 DEF By, jump_chars_set
  <2> QED
    BY <2>2 DEF ClassOf
<1>12. ASSUME NEW s \in g, NEW t \in g,
              <<s, t>> \in AlikeIn(P, js, Tried(gcs, Len(gcs)), Z)
       PROVE  <<s, t>> \in AlikeIn(P, js, Gen_chars, Z)
  <2>1. s \in Z /\ t \in Z
    OBVIOUS
  <2>2. ASSUME NEW gc \in Gen_chars
        PROVE  ClassOf(P, js, s, gc) = ClassOf(P, js, t, gc)
    <3>1. CASE gc \in C
      BY <1>5, <1>12, <3>1 DEF AlikeIn, AlikeBy
    <3>2. CASE gc \notin C
      BY <1>11, <3>2
    <3> QED
      BY <3>1, <3>2
  <2> QED
    BY <2>1, <2>2 DEF AlikeIn, AlikeBy
<1>13. AlikeIn(P, js, Gen_chars, Z) \subseteq AlikeIn(P, js, Tried(gcs, Len(gcs)), Z)
  <2>1. Tried(gcs, Len(gcs)) \subseteq Gen_chars
    BY <1>2, <1>4 DEF Tried
  <2> QED
    BY <2>1 DEF AlikeIn
<1>14. PICK A, B : /\ A = S \cap AlikeIn(P, js, Tried(gcs, Len(gcs)), Z)
                   /\ B = S \cap AlikeIn(P, js, Gen_chars, Z)
  OBVIOUS
<1>15. \A s, t \in g : <<s, t>> \in A <=> <<s, t>> \in B
  BY <1>12, <1>13, <1>14
<1>16. PICK Q : Q = split_group(P, js, g)
  OBVIOUS
<1>17. Splits(Q, g, A)
  BY <1>9, <1>10, <1>14, <1>16, Zenon
<1>18. Splits(Q, g, B)
  BY ONLY <1>15, <1>17, SplitsSame
<1> QED
  BY <1>14, <1>16, <1>18, Zenon

(* split_partition tells apart the states that go to different groups.     *)
LEMMA SplitPartition ==
  ASSUME NEW N \in Nat, NEW Z, Z = 0 .. N - 1, NEW js, js \subseteq Jumps(N),
         NEW P, NEW R, Splits(P, Z, R)
  PROVE  Splits(split_partition(P, js), Z, R \cap AlikeIn(P, js, Gen_chars, Z))
<1>1. PICK m, T, Qs :
        /\ m = Len(P) /\ T = R \cap AlikeIn(P, js, Gen_chars, Z)
        /\ Qs = [k \in DOMAIN P |-> split_group(P, js, P[k])]
  OBVIOUS
<1>2. m \in Nat /\ DOMAIN P = 1 .. m /\ \A k \in 1 .. m : P[k] \subseteq Z
  <2>1. P \in Seq(SUBSET Z)
    BY DEF Splits
  <2> QED
    BY <1>1, <2>1
<1>3. ASSUME NEW k \in 1 .. m PROVE Splits(Qs[k], P[k], T)
  <2>1. PICK h : h = P[k]
    OBVIOUS
  <2>2. h \subseteq Z /\ h # {} /\ \A s, t \in h : <<s, t>> \in R
    BY <1>2, <1>3, <2>1 DEF Splits
  <2>3. Splits(split_group(P, js, h), h, R \cap AlikeIn(P, js, Gen_chars, Z))
    BY <2>2, SplitGroup
  <2> QED
    BY <1>1, <1>2, <2>1, <2>3
<1>4. /\ \A k, l \in 1 .. m : \A s \in P[k] : s \in P[l] => k = l
      /\ \A k, l \in 1 .. m : \A s \in P[k], t \in P[l] :
           <<s, t>> \in T => k = l
  <2>1. /\ \A k, l \in 1 .. m : \A s \in P[k] : s \in P[l] => k = l
        /\ \A k, l \in 1 .. m : \A s \in P[k], t \in P[l] :
             <<s, t>> \in R => k = l
    BY <1>2 DEF Splits
  <2>2. T \subseteq R
    BY <1>1
  <2> QED
    BY <2>1, <2>2
<1>5. Qs = [k \in 1 .. m |-> Qs[k]]
  BY <1>1, <1>2
<1>6. Splits(FlattenSeq(Qs), Together(P, m), T)
  BY <1>2, <1>3, <1>4, <1>5, FlatSplits
<1>7. Together(P, m) = Z
  <2>1. \A s \in Z : \E k \in 1 .. m : s \in P[k]
    BY <1>2 DEF Splits
  <2> QED
    BY <1>2, <2>1 DEF Together
<1>8. split_partition(P, js) = FlattenSeq(Qs)
  BY <1>1, Zenon DEF split_partition
<1> QED
  BY <1>1, <1>6, <1>7, <1>8

-----------------------------------------------------------------------------
(* The jumps of the groups.                                                *)
First_of(g) == CHOOSE s \in g : \A r \in g : s <= r
GroupEdge(P, js, k, e) ==
  Edge(k - 1, e.gc, action_for_jump(js, P[k], e.gc), GroupOf(P, e.to) - 1)
Stands(P, js, d) ==
  \E k \in DOMAIN P : \E e \in js :
    /\ d = GroupEdge(P, js, k, e) /\ e.from = First_of(P[k])
    /\ P[k] # {} => e.from \in P[k]
StoodFor(P, js, k, E) ==
  \E r \in P[k] : \A e \in js : e.from = r => GroupEdge(P, js, k, e) \in E

LEMMA GroupJumps ==
  ASSUME NEW N \in Nat, NEW Z, Z = 0 .. N - 1, NEW js, js \subseteq Jumps(N),
         NEW P, NEW R, Splits(P, Z, R), NEW E, E = minimal_DFA_jumps(P, js)
  PROVE  /\ \A d \in E : Stands(P, js, d)
         /\ \A k \in DOMAIN P : P[k] # {} => StoodFor(P, js, k, E)
<1>1. E = UNION {{GroupEdge(P, js, k, e) : e \in {f \in js : f.from = First_of(P[k])}} :
                 k \in DOMAIN P}
  BY Zenon DEF minimal_DFA_jumps, GroupEdge, First_of
<1>2. ASSUME NEW k \in DOMAIN P, P[k] # {} PROVE First_of(P[k]) \in P[k]
  <2>1. P[k] \subseteq Nat
    BY DEF Splits
  <2>2. \E s \in P[k] : \A r \in P[k] : s <= r
    BY <1>2, <2>1, FirstOf
  <2> QED
    BY <2>2 DEF First_of
<1>3. ASSUME NEW d \in E
      PROVE  Stands(P, js, d)
  <2>1. PICK k \in DOMAIN P :
          d \in {GroupEdge(P, js, k, e) : e \in {f \in js : f.from = First_of(P[k])}}
    BY <1>1, <1>3, Zenon
  <2>2. PICK e \in js : e.from = First_of(P[k]) /\ d = GroupEdge(P, js, k, e)
    BY <2>1, Zenon
  <2> QED
    BY <1>2, <2>2 DEF Stands
<1>4. ASSUME NEW k \in DOMAIN P, P[k] # {}
      PROVE  StoodFor(P, js, k, E)
  <2>1. PICK r : r = First_of(P[k])
    OBVIOUS
  <2>2. ASSUME NEW e \in js, e.from = r PROVE GroupEdge(P, js, k, e) \in E
    <3>1. PICK S : S = {GroupEdge(P, js, k, f) :
                          f \in {f \in js : f.from = First_of(P[k])}}
      OBVIOUS
    <3>2. GroupEdge(P, js, k, e) \in S
      BY <2>1, <2>2, <3>1
    <3>3. S \in {{GroupEdge(P, js, j, f) : f \in {f \in js : f.from = First_of(P[j])}} :
                 j \in DOMAIN P}
      BY <1>4, <3>1, Zenon
    <3> QED
      BY <1>1, <3>2, <3>3, Zenon
  <2> QED
    BY <1>2, <1>4, <2>1, <2>2 DEF StoodFor
<1> QED
  BY <1>3, <1>4

LEMMA GroupEdgesTyped ==
  ASSUME NEW N \in Nat, NEW Z, Z = 0 .. N - 1, NEW js, js \subseteq Jumps(N),
         NEW P, NEW R, Splits(P, Z, R), NEW E, E = minimal_DFA_jumps(P, js)
  PROVE  E \subseteq Jumps(Len(P))
<1>1. PICK m : m = Len(P)
  OBVIOUS
<1>2. m \in Nat /\ DOMAIN P = 1 .. m
  <2>1. P \in Seq(SUBSET Z)
    BY DEF Splits
  <2> QED
    BY <1>1, <2>1
<1>3. js \subseteq EdgesIn(0, N)
  <2>1. 0 .. N - 1 \subseteq 0 .. N
    OBVIOUS
  <2> QED
    BY <2>1 DEF Jumps, EdgesIn, Symbols
<1>4. ASSUME NEW d \in E PROVE d \in Jumps(m)
  <2>1. Stands(P, js, d)
    BY <1>4, GroupJumps
  <2>2. PICK k \in DOMAIN P : \E e \in js : d = GroupEdge(P, js, k, e)
    BY <2>1 DEF Stands
  <2>3. PICK e \in js : d = GroupEdge(P, js, k, e)
    BY <2>2
  <2>4. e.gc \in Gen_chars /\ e.to \in Z
    BY DEF Jumps
  <2>5. PICK S, gc : S = P[k] /\ gc = e.gc
    OBVIOUS
  <2>6. action_for_jump(js, S, gc) \in Nat
    BY <1>3, ActionIs
  <2>7. GroupOf(P, e.to) \in 1 .. m
    BY <1>2, <2>4, GroupIs
  <2>8. k - 1 \in 0 .. m - 1 /\ GroupOf(P, e.to) - 1 \in 0 .. m - 1
    BY <1>2, <2>7
  <2> QED
    BY <2>3, <2>4, <2>5, <2>6, <2>8 DEF GroupEdge, Edge, Jumps
<1> QED
  BY <1>1, <1>4

(* No state has two jumps by one character.                                *)
OneJump(E) == \A d, f \in E : d.from = f.from /\ d.gc = f.gc => d = f

LEMMA GroupOneJump ==
  ASSUME NEW N \in Nat, NEW Z, Z = 0 .. N - 1, NEW js, js \subseteq Jumps(N),
         OneJump(js), NEW P, NEW R, Splits(P, Z, R),
         NEW E, E = minimal_DFA_jumps(P, js)
  PROVE  OneJump(E)
<1>1. DOMAIN P = 1 .. Len(P) /\ Len(P) \in Nat
  <2>1. P \in Seq(SUBSET Z)
    BY DEF Splits
  <2> QED
    BY <2>1
<1>2. \A d \in E : Stands(P, js, d)
  BY GroupJumps
<1>3. ASSUME NEW d \in E, NEW f \in E, d.from = f.from, d.gc = f.gc
      PROVE  d = f
  <2>1. PICK k \in DOMAIN P : \E e \in js :
          d = GroupEdge(P, js, k, e) /\ e.from = First_of(P[k])
    BY <1>2 DEF Stands
  <2>2. PICK e \in js : d = GroupEdge(P, js, k, e) /\ e.from = First_of(P[k])
    BY <2>1
  <2>3. PICK l \in DOMAIN P : \E g \in js :
          f = GroupEdge(P, js, l, g) /\ g.from = First_of(P[l])
    BY <1>2 DEF Stands
  <2>4. PICK g \in js : f = GroupEdge(P, js, l, g) /\ g.from = First_of(P[l])
    BY <2>3
  <2>5. d.from = k - 1 /\ f.from = l - 1 /\ d.gc = e.gc /\ f.gc = g.gc
    BY <2>2, <2>4 DEF GroupEdge, Edge
  <2>6. k = l
    <3>1. k - 1 = l - 1
      BY <1>3, <2>5
    <3>2. k \in Int /\ l \in Int
      BY <1>1
    <3> QED
      BY ONLY <3>1, <3>2
  <2>7. e = g
    BY <1>3, <2>2, <2>4, <2>5, <2>6 DEF OneJump
  <2> QED
    BY <2>2, <2>4, <2>6, <2>7
<1> QED
  BY <1>3 DEF OneJump

(* Two states that are alike have jumps to the same groups.                *)
LEMMA JumpsAlike ==
  ASSUME NEW N \in Nat, NEW Z, Z = 0 .. N - 1, NEW js, js \subseteq Jumps(N),
         \A e, f \in js : e.from = f.from /\ e.gc = f.gc => e = f,
         NEW P, NEW R, Splits(P, Z, R), NEW s, NEW t,
         <<s, t>> \in AlikeIn(P, js, Gen_chars, Z), NEW e \in js, e.from = s
  PROVE  \E f \in js : /\ f.from = t /\ f.gc = e.gc
                       /\ GroupOf(P, f.to) = GroupOf(P, e.to)
<1>1. PICK gc : gc = e.gc
  OBVIOUS
<1>2. gc \in Gen_chars /\ e.to \in Z
  BY <1>1 DEF Jumps
<1>3. ClassOf(P, js, s, gc) = ClassOf(P, js, t, gc)
  BY <1>2 DEF AlikeIn, AlikeBy
<1>4. By(js, {s}, gc) = {e}
  BY <1>1 DEF By
<1>5. ClassOf(P, js, s, gc) = GroupOf(P, e.to)
  <2>1. (CHOOSE d \in By(js, {s}, gc) : TRUE) = e
    BY <1>4
  <2> QED
    BY <1>4, <2>1 DEF ClassOf
<1>6. GroupOf(P, e.to) # 0
  <2>1. P \in Seq(SUBSET Z)
    BY DEF Splits
  <2>2. GroupOf(P, e.to) \in DOMAIN P
    BY <1>2, GroupIs
  <2> QED
    BY <2>1, <2>2
<1>7. By(js, {t}, gc) # {}
  BY <1>3, <1>5, <1>6 DEF ClassOf
<1>8. PICK f : f = CHOOSE d \in By(js, {t}, gc) : TRUE
  OBVIOUS
<1>9. f \in By(js, {t}, gc)
  BY <1>7, <1>8
<1>10. ClassOf(P, js, t, gc) = GroupOf(P, f.to)
  BY <1>7, <1>8, Zenon DEF ClassOf
<1> QED
  BY <1>1, <1>3, <1>5, <1>9, <1>10 DEF By

-----------------------------------------------------------------------------
(* The groups accept what their states do.                                 *)
Fin(F, Z) == {p \in Z \X Z : p[1] \in F <=> p[2] \in F}
Stable(P, js, F, Z) ==
  \E R : Splits(P, Z, R) /\ R \subseteq Fin(F, Z) \cap AlikeIn(P, js, Gen_chars, Z)

(* The same words are accepted from s as from t.                           *)
SameWords(E, F, s, D, G, t) == Lang(E, F, s) = Lang(D, G, t)

FinalGroups(P, F) == {k - 1 : k \in {i \in DOMAIN P : P[i] \cap F # {}}}

LEMMA StableIs ==
  ASSUME NEW P, NEW js, NEW F, NEW Z, Stable(P, js, F, Z),
         NEW k \in DOMAIN P, NEW s \in P[k], NEW t \in P[k]
  PROVE  /\ s \in F => t \in F
         /\ <<s, t>> \in AlikeIn(P, js, Gen_chars, Z)
<1>1. <<s, t>> \in Fin(F, Z) \cap AlikeIn(P, js, Gen_chars, Z)
  BY DEF Stable, Splits
<1> QED
  BY <1>1 DEF Fin

LEMMA GroupsAccept ==
  ASSUME NEW N \in Nat, NEW Z, Z = 0 .. N - 1, NEW js, js \subseteq Jumps(N),
         \A e, f \in js : e.from = f.from /\ e.gc = f.gc => e = f,
         NEW F, F \subseteq Z, NEW P, Stable(P, js, F, Z),
         NEW E, E = minimal_DFA_jumps(P, js), NEW H, H = FinalGroups(P, F),
         NEW s \in Z
  PROVE  SameWords(E, H, GroupOf(P, s) - 1, js, F, s)
<1>1. PICK m : m = Len(P)
  OBVIOUS
<1>2. PICK R : Splits(P, Z, R)
  BY DEF Stable
<1>3. m \in Nat /\ DOMAIN P = 1 .. m /\ \A k \in 1 .. m : P[k] \subseteq Z
  <2>1. P \in Seq(SUBSET Z)
    BY <1>2 DEF Splits
  <2> QED
    BY <1>1, <2>1
<1>4. E \subseteq Jumps(m) /\ E \subseteq AllEdges
  <2>1. E \subseteq Jumps(m)
    BY <1>1, <1>2, GroupEdgesTyped
  <2> QED
    BY <2>1, JumpsAre
<1>5. js \subseteq AllEdges
  BY JumpsAre
<1>6. /\ \A d \in E : Stands(P, js, d)
      /\ \A k \in DOMAIN P : P[k] # {} => StoodFor(P, js, k, E)
  BY <1>2, GroupJumps
<1>7. \A k \in DOMAIN P : \A t, u \in P[k] :
        /\ t \in F => u \in F
        /\ <<t, u>> \in AlikeIn(P, js, Gen_chars, Z)
  <2>1. ASSUME NEW k \in DOMAIN P, NEW t \in P[k], NEW u \in P[k]
        PROVE  /\ t \in F => u \in F
               /\ <<t, u>> \in AlikeIn(P, js, Gen_chars, Z)
    BY StableIs
  <2> QED
    BY <2>1
<1>8. \A t \in Z : /\ GroupOf(P, t) \in 1 .. m /\ t \in P[GroupOf(P, t)]
                   /\ \A k \in 1 .. m : t \in P[k] => k = GroupOf(P, t)
  <2>1. ASSUME NEW t \in Z
        PROVE  /\ GroupOf(P, t) \in DOMAIN P /\ t \in P[GroupOf(P, t)]
               /\ \A k \in DOMAIN P : t \in P[k] => k = GroupOf(P, t)
    BY <1>2, GroupIs
  <2> QED
    BY <1>3, <2>1
<1>9. \A e \in js : e.from \in Z /\ e.to \in Z /\ e.gc \in Symbols
  BY DEF Jumps, Symbols
<1>10. ASSUME NEW t, NEW u, <<t, u>> \in AlikeIn(P, js, Gen_chars, Z),
              NEW e \in js, e.from = t
       PROVE  \E f \in js : /\ f.from = u /\ f.gc = e.gc
                            /\ GroupOf(P, f.to) = GroupOf(P, e.to)
  BY <1>2, <1>10, JumpsAlike
<1>11. /\ \A t : Lang(js, F, t) \subseteq Strings
       /\ \A f \in F : <<>> \in Lang(js, F, f)
       /\ \A e \in js : \A w \in Lang(js, F, e.to) :
            Prefixed(e.gc, w) \in Lang(js, F, e.from)
  BY <1>5, LangIs
<1>12. /\ \A t : Lang(E, H, t) \subseteq Strings
       /\ \A f \in H : <<>> \in Lang(E, H, f)
       /\ \A e \in E : \A w \in Lang(E, H, e.to) :
            Prefixed(e.gc, w) \in Lang(E, H, e.from)
  BY <1>4, LangIs
<1>13. ASSUME NEW w \in Lang(E, H, GroupOf(P, s) - 1)
       PROVE  w \in Lang(js, F, s)
  <2>1. PICK M : M = [g \in Nat |-> {v \in Strings : \A t \in Z :
                        t \in P[g + 1] => v \in Lang(js, F, t)}]
    OBVIOUS
  <2>2. M \in Families
    BY <2>1 DEF Families
  <2>3. \A g \in Nat : \A v : v \in M[g] <=>
          v \in Strings /\ \A t \in Z : t \in P[g + 1] => v \in Lang(js, F, t)
    BY <2>1
  <2>4. ASSUME NEW h \in H PROVE <<>> \in M[h]
    <3>1. PICK k \in 1 .. m : h = k - 1 /\ P[k] \cap F # {}
      BY <1>3 DEF FinalGroups
    <3>2. h \in Nat /\ h + 1 = k
      BY <1>3, <3>1
    <3>3. \A t \in P[k] : t \in F
      BY <1>3, <1>7, <3>1
    <3>4. <<>> \in Strings
      BY Strung
    <3> QED
      BY <1>11, <2>3, <3>2, <3>3, <3>4
  <2>5. ASSUME NEW d \in E, NEW v \in M[d.to]
        PROVE  Prefixed(d.gc, v) \in M[d.from]
    <3>1. PICK k \in DOMAIN P : \E e \in js :
            d = GroupEdge(P, js, k, e) /\ (P[k] # {} => e.from \in P[k])
      BY <1>6 DEF Stands
    <3>2. PICK e \in js :
            d = GroupEdge(P, js, k, e) /\ (P[k] # {} => e.from \in P[k])
      BY <3>1
    <3>3. d.from = k - 1 /\ d.gc = e.gc /\ d.to = GroupOf(P, e.to) - 1
      BY <3>2 DEF GroupEdge, Edge
    <3>4. /\ d.from \in Nat /\ d.from + 1 = k
          /\ d.to \in Nat /\ d.to + 1 = GroupOf(P, e.to)
      BY <1>3, <1>8, <1>9, <3>3
    <3>5. v \in Strings /\ \A t \in Z : t \in P[GroupOf(P, e.to)] => v \in Lang(js, F, t)
      BY <2>3, <3>4
    <3>6. ASSUME NEW t \in Z, t \in P[k] PROVE Prefixed(d.gc, v) \in Lang(js, F, t)
      <4>1. e.from \in P[k]
        BY <3>2, <3>6
      <4>2. <<e.from, t>> \in AlikeIn(P, js, Gen_chars, Z)
        BY <1>7, <3>6, <4>1
      <4>3. PICK f \in js : /\ f.from = t /\ f.gc = e.gc
                            /\ GroupOf(P, f.to) = GroupOf(P, e.to)
        BY <1>10, <4>2
      <4>4. v \in Lang(js, F, f.to)
        BY <1>8, <1>9, <3>5, <4>3
      <4> QED
        BY <1>11, <3>3, <4>3, <4>4
    <3>7. Prefixed(d.gc, v) \in Strings
      BY <1>9, <3>3, <3>5, PrefixedIs
    <3> QED
      BY <2>3, <3>4, <3>6, <3>7
  <2>6. Follows(E, H, M)
    BY <2>4, <2>5 DEF Follows
  <2>7. PICK g : g = GroupOf(P, s) - 1
    OBVIOUS
  <2>8. g \in Nat /\ s \in P[g + 1]
    <3>1. g + 1 = GroupOf(P, s) /\ g \in Nat
      BY <1>3, <1>8, <2>7
    <3> QED
      BY <1>8, <3>1
  <2>9. w \in M[g]
    BY <1>13, <2>2, <2>6, <2>7, LangLeast
  <2> QED
    BY <2>3, <2>8, <2>9
<1>14. ASSUME NEW w \in Lang(js, F, s)
       PROVE  w \in Lang(E, H, GroupOf(P, s) - 1)
  <2>1. PICK D : D = [t \in Nat |-> Lang(E, H, GroupOf(P, t) - 1)]
    OBVIOUS
  <2>2. D \in Families
    BY <1>12, <2>1 DEF Families
  <2>3. \A t \in Z : D[t] = Lang(E, H, GroupOf(P, t) - 1)
    BY <2>1
  <2>4. ASSUME NEW f \in F PROVE <<>> \in D[f]
    <3>1. f \in Z /\ GroupOf(P, f) \in DOMAIN P /\ f \in P[GroupOf(P, f)]
      BY <1>3, <1>8
    <3>2. GroupOf(P, f) - 1 \in H
      BY <3>1 DEF FinalGroups
    <3> QED
      BY <1>12, <2>3, <3>1, <3>2
  <2>5. ASSUME NEW e \in js, NEW v \in D[e.to]
        PROVE  Prefixed(e.gc, v) \in D[e.from]
    <3>1. PICK k : k = GroupOf(P, e.from)
      OBVIOUS
    <3>2. e.from \in Z /\ e.to \in Z /\ k \in DOMAIN P /\ e.from \in P[k]
      BY <1>3, <1>8, <1>9, <3>1
    <3>3. StoodFor(P, js, k, E)
      BY <1>6, <3>2
    <3>4. PICK r \in P[k] : \A f \in js : f.from = r => GroupEdge(P, js, k, f) \in E
      BY <3>3 DEF StoodFor
    <3>5. <<e.from, r>> \in AlikeIn(P, js, Gen_chars, Z)
      BY <1>7, <3>2, <3>4
    <3>6. PICK f \in js : /\ f.from = r /\ f.gc = e.gc
                          /\ GroupOf(P, f.to) = GroupOf(P, e.to)
      BY <1>10, <3>5
    <3>7. PICK d \in E : d = GroupEdge(P, js, k, f)
      BY <3>4, <3>6
    <3>8. /\ d.from = GroupOf(P, e.from) - 1 /\ d.gc = e.gc
          /\ d.to = GroupOf(P, e.to) - 1
      BY <3>1, <3>6, <3>7 DEF GroupEdge, Edge
    <3>9. v \in Lang(E, H, d.to)
      BY <2>3, <3>2, <3>8
    <3>10. Prefixed(d.gc, v) \in Lang(E, H, d.from)
      BY <1>12, <3>9
    <3> QED
      BY <2>3, <3>2, <3>8, <3>10
  <2>6. Follows(js, F, D)
    BY <2>4, <2>5 DEF Follows
  <2>7. w \in D[s]
    BY <1>14, <2>2, <2>6, LangLeast
  <2> QED
    BY <2>3, <2>7
<1> QED
  BY <1>13, <1>14 DEF SameWords

-----------------------------------------------------------------------------
(* reordered_DFA numbers the states anew.                                  *)
LEMMA Renumbered ==
  ASSUME NEW n \in Nat, NEW b \in 0 .. n - 1, NEW H, H \subseteq 0 .. n - 1,
         NEW E, E \subseteq Jumps(n), NEW m, m = Reordered(n, b, H, E),
         NEW z \in Nat, z = 0
  PROVE  /\ m.n = n
         /\ m.jumps \subseteq Jumps(n) /\ m.final_states \subseteq 0 .. n - 1
         /\ OneJump(E) => OneJump(m.jumps)
         /\ SameWords(m.jumps, m.final_states, z, E, H, b)
<1>1. PICK p : p = [s \in 0 .. n - 1 |-> CASE s = b -> 0
                                           [] s < b -> s + 1
                                           [] OTHER -> s]
  OBVIOUS
<1>2. /\ m.n = n /\ m.final_states = {p[s] : s \in H}
      /\ m.jumps = {Edge(p[e.from], e.gc, e.act, p[e.to]) : e \in E}
  BY <1>1 DEF Reordered
<1>3. PICK h, q :
        /\ h = [s \in Nat |-> IF s = b THEN 0 ELSE IF s < b THEN s + 1 ELSE s]
        /\ q = [s \in Nat |-> IF s = 0 THEN b ELSE IF s <= b THEN s - 1 ELSE s]
  OBVIOUS
<1>4. /\ b \in Nat /\ h \in [Nat -> Nat] /\ q \in [Nat -> Nat]
      /\ h[b] = z /\ q[z] = b
  BY <1>3
<1>5. ASSUME NEW s \in 0 .. n - 1
      PROVE  p[s] = h[s] /\ p[s] \in 0 .. n - 1 /\ q[p[s]] = s
  <2>1. CASE s = b
    <3>1. p[s] = 0 /\ h[s] = 0
      BY <1>1, <1>3, <2>1
    <3> QED
      BY <1>4, <2>1, <3>1
  <2>2. CASE s # b /\ s < b
    <3>1. p[s] = s + 1 /\ h[s] = s + 1
      BY <1>1, <1>3, <2>2
    <3>2. s + 1 \in 0 .. n - 1 /\ s + 1 <= b /\ s + 1 # 0
      BY <2>2
    <3>3. q[s + 1] = (s + 1) - 1
      BY <1>3, <3>2
    <3> QED
      BY <3>1, <3>2, <3>3
  <2>3. CASE s # b /\ ~(s < b)
    <3>1. p[s] = s /\ h[s] = s
      BY <1>1, <1>3, <2>3
    <3>2. s # 0 /\ ~(s <= b)
      BY <1>4, <2>3
    <3>3. q[s] = s
      BY <1>3, <3>2
    <3> QED
      BY <3>1, <3>3
  <2> QED
    BY <2>1, <2>2, <2>3
<1>6. \A e \in E : /\ e.from \in 0 .. n - 1 /\ e.to \in 0 .. n - 1
                   /\ e.gc \in Gen_chars /\ e.act \in Nat
  BY DEF Jumps
<1>7. PICK J, G : J = m.jumps /\ G = m.final_states
  OBVIOUS
<1>8. ASSUME NEW e \in J
      PROVE  \E d \in E : e = Edge(p[d.from], d.gc, d.act, p[d.to])
  BY <1>2, <1>7
<1>9. ASSUME NEW d \in E
      PROVE  Edge(p[d.from], d.gc, d.act, p[d.to]) \in J
  BY <1>2, <1>7
<1>10. J \subseteq Jumps(n)
  <2>1. ASSUME NEW e \in J PROVE e \in Jumps(n)
    <3>1. PICK d \in E : e = Edge(p[d.from], d.gc, d.act, p[d.to])
      BY <1>8
    <3>2. p[d.from] \in 0 .. n - 1 /\ p[d.to] \in 0 .. n - 1
      BY <1>5, <1>6
    <3> QED
      BY <1>6, <3>1, <3>2 DEF Edge, Jumps
  <2> QED
    BY <2>1
<1>11. G \subseteq Nat /\ H \subseteq Nat
  BY <1>2, <1>5, <1>7
<1>12. E \subseteq AllEdges /\ J \subseteq AllEdges
  BY <1>10, JumpsAre
<1>13. PICK e0 : e0 = <<>>
  OBVIOUS
<1>14. e0 \in Strings /\ \A s : \A w \in Lang(E, H, s) : w \o e0 = w
  <2>1. \A s : Lang(E, H, s) \subseteq Strings
    BY <1>12, LangIs
  <2> QED
    BY <1>13, <2>1, Strung
<1>15. \A s : \A w \in Lang(J, G, s) : w \o e0 = w
  <2>1. \A s : Lang(J, G, s) \subseteq Strings
    BY <1>12, LangIs
  <2> QED
    BY <1>13, <2>1, Strung
<1>16. \A w \in Lang(E, H, b) : w \o e0 \in Lang(J, G, h[b])
  <2>1. \A e \in E : \E f \in J : /\ f.from = h[e.from] /\ f.to = h[e.to]
                                  /\ f.gc = e.gc
    <3>1. ASSUME NEW e \in E
          PROVE  \E f \in J : /\ f.from = h[e.from] /\ f.to = h[e.to]
                              /\ f.gc = e.gc
      <4>1. PICK f \in J : f = Edge(p[e.from], e.gc, e.act, p[e.to])
        BY <1>9
      <4>2. p[e.from] = h[e.from] /\ p[e.to] = h[e.to]
        BY <1>5, <1>6
      <4> QED
        BY <4>1, <4>2 DEF Edge
    <3> QED
      BY <3>1
  <2>2. \A f \in H : e0 \in Lang(J, G, h[f])
    <3>1. \A f \in G : e0 \in Lang(J, G, f)
      BY <1>12, <1>13, LangIs
    <3>2. \A f \in H : h[f] \in G
      BY <1>2, <1>5, <1>7
    <3> QED
      BY <3>1, <3>2
  <2> QED
    BY <1>4, <1>11, <1>12, <1>14, <2>1, <2>2, LangMapped
<1>17. \A w \in Lang(J, G, z) : w \o e0 \in Lang(E, H, q[z])
  <2>1. \A e \in J : \E f \in E : /\ f.from = q[e.from] /\ f.to = q[e.to]
                                  /\ f.gc = e.gc
    <3>1. ASSUME NEW e \in J
          PROVE  \E f \in E : /\ f.from = q[e.from] /\ f.to = q[e.to]
                              /\ f.gc = e.gc
      <4>1. PICK f \in E : e = Edge(p[f.from], f.gc, f.act, p[f.to])
        BY <1>8
      <4>2. q[p[f.from]] = f.from /\ q[p[f.to]] = f.to
        BY <1>5, <1>6
      <4> QED
        BY <4>1, <4>2 DEF Edge
    <3> QED
      BY <3>1
  <2>2. \A f \in G : e0 \in Lang(E, H, q[f])
    <3>1. \A f \in H : e0 \in Lang(E, H, f)
      BY <1>12, <1>13, LangIs
    <3>2. \A f \in G : q[f] \in H
      BY <1>2, <1>5, <1>7
    <3> QED
      BY <3>1, <3>2
  <2> QED
    BY <1>4, <1>11, <1>12, <1>14, <2>1, <2>2, LangMapped
<1>18. Lang(J, G, z) = Lang(E, H, b)
  <2>1. ASSUME NEW w \in Lang(J, G, z) PROVE w \in Lang(E, H, b)
    BY <1>4, <1>15, <1>17, <2>1
  <2>2. ASSUME NEW w \in Lang(E, H, b) PROVE w \in Lang(J, G, z)
    BY <1>4, <1>14, <1>16, <2>2
  <2> QED
    BY <2>1, <2>2
<1>19. ASSUME OneJump(E) PROVE OneJump(J)
  <2>1. ASSUME NEW d \in J, NEW f \in J, d.from = f.from, d.gc = f.gc
        PROVE  d = f
    <3>1. PICK e \in E : d = Edge(p[e.from], e.gc, e.act, p[e.to])
      BY <1>8
    <3>2. PICK g \in E : f = Edge(p[g.from], g.gc, g.act, p[g.to])
      BY <1>8
    <3>3. p[e.from] = p[g.from] /\ e.gc = g.gc
      BY <2>1, <3>1, <3>2 DEF Edge
    <3>4. e.from = g.from
      BY <1>5, <1>6, <3>3
    <3>5. e = g
      BY <1>19, <3>3, <3>4 DEF OneJump
    <3> QED
      BY <3>1, <3>2, <3>5
  <2> QED
    BY <2>1 DEF OneJump
<1>20. G \subseteq 0 .. n - 1
  BY <1>2, <1>5, <1>7
<1> QED
  BY <1>2, <1>7, <1>10, <1>18, <1>19, <1>20 DEF SameWords

-----------------------------------------------------------------------------
(* States that do alike, with a state more that a missing jump goes to:    *)
(* they end a word alike, and go to states that do alike.                  *)
Bisim(B, js, F, N) ==
  \A s, t \in 0 .. N : <<s, t>> \in B =>
    /\ s \in F <=> t \in F
    /\ \A gc \in Gen_chars : <<GoTo(js, N, s, gc), GoTo(js, N, t, gc)>> \in B

(* Every such relation is a part of R.                                     *)
Holds(B, R, Z) == \A s, t \in Z : <<s, t>> \in B => <<s, t>> \in R
Held(R, js, F, N) == \A B : Bisim(B, js, F, N) => Holds(B, R, 0 .. N - 1)
Coarse(P, js, F, N) == \E R : Splits(P, 0 .. N - 1, R) /\ Held(R, js, F, N)

(* From every state a word may be ended.                                   *)
AllEnd(js, F, N) ==
  \A T \in SUBSET Nat : F \subseteq T /\ Against(js, T) => 0 .. N - 1 \subseteq T

LEMMA GoToJump ==
  ASSUME NEW N, NEW js, OneJump(js), NEW P, NEW e \in js
  PROVE  /\ GoTo(js, N, e.from, e.gc) = e.to
         /\ ClassOf(P, js, e.from, e.gc) = GroupOf(P, e.to)
<1>1. PICK s, gc : s = e.from /\ gc = e.gc
  OBVIOUS
<1>2. By(js, {s}, gc) = {e}
  BY <1>1 DEF By, OneJump
<1>3. Moved([edges |-> js], {s}, gc) = {e.to}
  <2>1. [edges |-> js].edges = js
    OBVIOUS
  <2> QED
    BY <1>2, <2>1 DEF Moved
<1>4. GoTo(js, N, s, gc) = e.to
  BY <1>3 DEF GoTo
<1>5. ClassOf(P, js, s, gc) = GroupOf(P, e.to)
  <2>1. (CHOOSE d \in By(js, {s}, gc) : TRUE) = e
    BY <1>2
  <2> QED
    BY <1>2, <2>1 DEF ClassOf
<1> QED
  BY <1>1, <1>4, <1>5

LEMMA GoToNone ==
  ASSUME NEW N, NEW js, NEW P, NEW s, NEW gc,
         \A e \in js : ~(e.from = s /\ e.gc = gc)
  PROVE  GoTo(js, N, s, gc) = N /\ ClassOf(P, js, s, gc) = 0
<1>1. By(js, {s}, gc) = {}
  BY DEF By
<1>2. Moved([edges |-> js], {s}, gc) = {}
  <2>1. [edges |-> js].edges = js
    OBVIOUS
  <2> QED
    BY <1>1, <2>1 DEF Moved
<1> QED
  BY <1>1, <1>2 DEF GoTo, ClassOf

(* No state does as the one more, from which no word is ended.             *)
LEMMA NotDead ==
  ASSUME NEW N \in Nat, NEW js, js \subseteq Jumps(N), OneJump(js),
         NEW F, F \subseteq 0 .. N - 1, AllEnd(js, F, N),
         NEW B, Bisim(B, js, F, N), NEW s \in 0 .. N - 1
  PROVE  <<s, N>> \notin B /\ <<N, s>> \notin B
<1>1. PICK T : T = {r \in 0 .. N - 1 : <<r, N>> \notin B /\ <<N, r>> \notin B}
  OBVIOUS
<1>2. N \in 0 .. N /\ N \notin F /\ \A r \in 0 .. N - 1 : r \in 0 .. N
  OBVIOUS
<1>3. F \subseteq T
  BY <1>1, <1>2 DEF Bisim
<1>4. ASSUME NEW e \in js, e.to \in T PROVE e.from \in T
  <2>1. e.from \in 0 .. N - 1 /\ e.gc \in Gen_chars
    BY DEF Jumps
  <2>2. \A d \in js : ~(d.from = N /\ d.gc = e.gc)
    <3>1. \A d \in js : d.from \in 0 .. N - 1
      BY DEF Jumps
    <3> QED
      BY <3>1
  <2>3. GoTo(js, N, e.from, e.gc) = e.to
    BY GoToJump
  <2>6. GoTo(js, N, N, e.gc) = N
    BY <2>2, GoToNone
  <2>4. <<e.to, N>> \notin B /\ <<N, e.to>> \notin B
    BY <1>1, <1>4
  <2>5. <<e.from, N>> \notin B /\ <<N, e.from>> \notin B
    BY <1>2, <2>1, <2>3, <2>4, <2>6 DEF Bisim
  <2> QED
    BY <1>1, <2>1, <2>5
<1>5. T \in SUBSET Nat /\ Against(js, T)
  <2>1. T \in SUBSET Nat
    BY <1>1
  <2> QED
    BY <1>4, <2>1, Zenon DEF Against
<1>6. s \in T
  BY <1>3, <1>5 DEF AllEnd
<1> QED
  BY <1>1, <1>6

(* States that do alike go to the same groups.                             *)
LEMMA BisimAlike ==
  ASSUME NEW N \in Nat, NEW Z, Z = 0 .. N - 1, NEW js, js \subseteq Jumps(N),
         OneJump(js), NEW F, F \subseteq Z, AllEnd(js, F, N),
         NEW P, NEW R, Splits(P, Z, R),
         NEW B, Bisim(B, js, F, N), Holds(B, R, Z)
  PROVE  Holds(B, AlikeIn(P, js, Gen_chars, Z), Z)
<1>1. SUFFICES ASSUME NEW s \in Z, NEW t \in Z, <<s, t>> \in B,
                      NEW gc \in Gen_chars
               PROVE  ClassOf(P, js, s, gc) = ClassOf(P, js, t, gc)
  BY DEF Holds, AlikeIn, AlikeBy
<1>2. s \in 0 .. N /\ t \in 0 .. N
  OBVIOUS
<1>3. <<GoTo(js, N, s, gc), GoTo(js, N, t, gc)>> \in B
  BY <1>1, <1>2 DEF Bisim
<1>4. \A e \in js : e.to \in Z
  BY DEF Jumps
<1>5. \A r \in Z : <<r, N>> \notin B /\ <<N, r>> \notin B
  BY NotDead
<1>6. CASE \E e \in js : e.from = s /\ e.gc = gc
  <2>1. PICK e \in js : e.from = s /\ e.gc = gc
    BY <1>6
  <2>2. GoTo(js, N, s, gc) = e.to /\ ClassOf(P, js, s, gc) = GroupOf(P, e.to)
    BY <2>1, GoToJump
  <2>3. CASE \E f \in js : f.from = t /\ f.gc = gc
    <3>1. PICK f \in js : f.from = t /\ f.gc = gc
      BY <2>3
    <3>2. GoTo(js, N, t, gc) = f.to /\ ClassOf(P, js, t, gc) = GroupOf(P, f.to)
      BY <3>1, GoToJump
    <3>3. e.to \in Z /\ f.to \in Z /\ <<e.to, f.to>> \in R
      BY <1>3, <1>4, <2>2, <3>2 DEF Holds
    <3>4. /\ GroupOf(P, e.to) \in DOMAIN P /\ e.to \in P[GroupOf(P, e.to)]
          /\ GroupOf(P, f.to) \in DOMAIN P /\ f.to \in P[GroupOf(P, f.to)]
      BY <3>3, GroupIs
    <3>5. GroupOf(P, e.to) = GroupOf(P, f.to)
      BY <3>3, <3>4 DEF Splits
    <3> QED
      BY <2>2, <3>2, <3>5
  <2>4. CASE ~ \E f \in js : f.from = t /\ f.gc = gc
    <3>1. GoTo(js, N, t, gc) = N
      BY <2>4, GoToNone
    <3> QED
      BY <1>3, <1>4, <1>5, <2>2, <3>1
  <2> QED
    BY <2>3, <2>4
<1>7. CASE ~ \E e \in js : e.from = s /\ e.gc = gc
  <2>1. GoTo(js, N, s, gc) = N /\ ClassOf(P, js, s, gc) = 0
    BY <1>7, GoToNone
  <2>2. CASE \E f \in js : f.from = t /\ f.gc = gc
    <3>1. PICK f \in js : f.from = t /\ f.gc = gc
      BY <2>2
    <3>2. GoTo(js, N, t, gc) = f.to
      BY <3>1, GoToJump
    <3> QED
      BY <1>3, <1>4, <1>5, <2>1, <3>2
  <2>3. CASE ~ \E f \in js : f.from = t /\ f.gc = gc
    <3>1. ClassOf(P, js, t, gc) = 0
      BY <2>3, GoToNone
    <3> QED
      BY <2>1, <3>1
  <2> QED
    BY <2>2, <2>3
<1> QED
  BY <1>6, <1>7

(* A word may be ended from every set of states, as from every state.      *)
LEMMA DfaEnds ==
  ASSUME NEW a, Spans(a, 0), NEW n, n = a.final_state,
         NEW acc, Sound(acc, n), Following(acc, a, 0, Gen_chars),
         acc.unmarked = <<>>, NEW F, F = FinalStates(a, acc.sets),
         NEW N, N = Len(acc.sets)
  PROVE  AllEnd(acc.jumps, F, N) /\ F # {}
<1>1. PICK ss, js, z : ss = acc.sets /\ js = acc.jumps /\ z = 0
  OBVIOUS
<1>2. /\ ss \in Seq(SUBSET (0 .. n)) /\ js \subseteq Jumps(N)
      /\ N \in Nat /\ DOMAIN ss = 1 .. N
  BY <1>1 DEF Sound
<1>3. /\ a.begin_state = z /\ n \in Nat
      /\ \A e \in a.edges : /\ e.from \in 0 .. n /\ e.to \in 0 .. n
                            /\ e.gc \in Symbols
      /\ LeadTo(a.edges, n, 0, n)
  <2>1. z \in Nat /\ Spans(a, z)
    BY <1>1
  <2> QED
    BY <1>1, <2>1, SpansWithin DEF Spans
<1>4. \A k \in 0 .. N - 1 : k + 1 \in 1 .. N
  BY <1>2
<1>5. /\ ss # <<>> /\ ss[1] = epsilon_closure(a, {z})
      /\ \A k \in 1 .. N : Shut(a, ss[k])
      /\ \A e \in js : ss[e.to + 1] = epsilon_closure(a, Moved(a, ss[e.from + 1], e.gc))
      /\ \A e \in js : Moved(a, ss[e.from + 1], e.gc) # {}
      /\ LeadFrom(js, N)
  BY <1>1, <1>2, <1>3 DEF Following
<1>6. \A s \in 0 .. N - 1 : \A gc \in jump_chars_set(a.edges, ss[s + 1]) :
        \E e \in js : e.from = s /\ e.gc = gc
  <2>1. \A s : Marked(acc, s)
    BY DEF Marked
  <2>2. \A S : jump_chars_set(a.edges, S) \subseteq Gen_chars
    BY <1>3 DEF jump_chars_set, Symbols
  <2>3. \A s \in 0 .. Len(acc.sets) - 1 :
          \A gc \in jump_chars_set(a.edges, acc.sets[s + 1]) :
            Marked(acc, s) /\ (s = 0 => gc \in Gen_chars)
              => \E e \in acc.jumps : e.from = s /\ e.gc = gc
    BY Zenon DEF Following
  <2>4. \A s \in 0 .. Len(acc.sets) - 1 :
          \A gc \in jump_chars_set(a.edges, acc.sets[s + 1]) :
            \E e \in acc.jumps : e.from = s /\ e.gc = gc
    BY <2>1, <2>2, <2>3, Zenon
  <2>5. acc.sets = ss /\ acc.jumps = js /\ Len(acc.sets) = N
    BY <1>1
  <2>6. ASSUME NEW s \in 0 .. N - 1, NEW gc \in jump_chars_set(a.edges, ss[s + 1])
        PROVE  \E e \in js : e.from = s /\ e.gc = gc
    <3>1. s \in 0 .. Len(acc.sets) - 1
      BY <2>5
    <3>2. gc \in jump_chars_set(a.edges, acc.sets[s + 1])
      BY <2>5
    <3>3. \E e \in acc.jumps : e.from = s /\ e.gc = gc
      BY <2>4, <3>1, <3>2
    <3> QED
      BY <2>5, <3>3
  <2> QED
    BY <2>6
<1>7. \A e \in js : /\ e.from \in 0 .. N - 1 /\ e.to \in 0 .. N - 1
                    /\ e.from \in Nat /\ e.to \in Nat
  BY <1>2 DEF Jumps
<1>8. ASSUME NEW S, S \subseteq 0 .. n PROVE S \subseteq epsilon_closure(a, S)
  <2>1. PICK c : c = epsilon_closure(a, S)
    OBVIOUS
  <2>2. z \in Nat /\ z = 0 /\ Spans(a, z) /\ n = a.final_state
    BY <1>1
  <2>3. S \subseteq c
    BY ONLY <1>8, <2>1, <2>2, ClosureMeans
  <2> QED
    BY <2>1, <2>3
<1>9. \A e \in js : Moved(a, ss[e.from + 1], e.gc) \subseteq ss[e.to + 1]
  <2>1. \A S, gc : Moved(a, S, gc) \subseteq 0 .. n
    BY <1>3 DEF Moved, By
  <2> QED
    BY <1>5, <1>8, <2>1
<1>10. 0 \in 0 .. N - 1
  <2>1. N # 0
    BY <1>1, <1>2, <1>5
  <2> QED
    BY <1>2, <2>1
<1>11. \A k \in 0 .. N - 1 : ss[k + 1] # {}
  <2>1. PICK T : T = {k \in 0 .. N - 1 : ss[k + 1] # {}}
    OBVIOUS
  <2>2. T \in SUBSET Nat
    BY <2>1
  <2>3. 0 \in T
    <3>1. {z} \subseteq ss[1]
      BY <1>1, <1>3, <1>5, <1>8
    <3> QED
      BY <1>10, <2>1, <3>1
  <2>4. Forth(js, T)
    BY <1>5, <1>7, <1>9, <2>1 DEF Forth
  <2> QED
    BY <1>5, <2>1, <2>2, <2>3, <2>4 DEF LeadFrom
<1>12. ASSUME NEW T \in SUBSET Nat, F \subseteq T, Against(js, T),
              NEW k \in 0 .. N - 1
       PROVE  k \in T
  <2>1. PICK U : U = {s \in 0 .. n : \A i \in 0 .. N - 1 :
                        s \in ss[i + 1] => i \in T}
    OBVIOUS
  <2>2. U \in SUBSET Nat
    BY <2>1
  <2>3. n \in U
    <3>1. \A i \in 0 .. N - 1 : n \in ss[i + 1] => i \in F
      BY <1>1 DEF FinalStates
    <3> QED
      BY <1>3, <1>12, <2>1, <3>1
  <2>4. ASSUME NEW e \in a.edges, e.to \in U, NEW i \in 0 .. N - 1,
               e.from \in ss[i + 1]
        PROVE  i \in T
    <3>1. CASE e.gc = Epsilon
      <4>1. e.to \in ss[i + 1]
        BY <1>4, <1>5, <2>4, <3>1 DEF Shut
      <4> QED
        BY <2>1, <2>4, <4>1
    <3>2. CASE e.gc # Epsilon
      <4>1. e.gc \in jump_chars_set(a.edges, ss[i + 1])
        BY <2>4, <3>2 DEF jump_chars_set
      <4>2. PICK j \in js : j.from = i /\ j.gc = e.gc
        BY <1>6, <4>1
      <4>3. e.to \in Moved(a, ss[i + 1], e.gc)
        BY <2>4 DEF Moved, By
      <4>4. e.to \in ss[j.to + 1] /\ j.to \in 0 .. N - 1
        BY <1>7, <1>9, <4>2, <4>3
      <4>5. j.to \in T
        BY <2>1, <2>4, <4>4
      <4> QED
        BY <1>12, <4>2, <4>5 DEF Against
    <3> QED
      BY <3>1, <3>2
  <2>5. Against(a.edges, U)
    BY <1>3, <2>1, <2>4 DEF Against
  <2>6. 0 .. n \subseteq U
    BY <1>3, <2>2, <2>3, <2>5 DEF LeadTo
  <2>7. PICK s : s \in ss[k + 1]
    BY <1>11
  <2>8. s \in 0 .. n
    BY <1>2, <1>4, <2>7
  <2> QED
    BY <2>1, <2>6, <2>7, <2>8
<1>13. AllEnd(js, F, N)
  BY <1>12 DEF AllEnd
<1>14. F # {}
  <2>1. SUFFICES ASSUME F = {} PROVE FALSE
    OBVIOUS
  <2>2. {} \in SUBSET Nat /\ F \subseteq {} /\ Against(js, {})
    BY <2>1 DEF Against
  <2> QED
    BY <1>10, <1>13, <2>2 DEF AllEnd
<1> QED
  BY <1>1, <1>13, <1>14

-----------------------------------------------------------------------------
(* The states of one automaton stand for those of another: G takes each    *)
(* state, and the one more, to the one that stands for it.                 *)
Image(G, js, F, N, E, H, n) ==
  /\ G \in [0 .. N -> 0 .. n] /\ G[N] = n
  /\ \A s \in 0 .. N - 1 : G[s] \in 0 .. n - 1 /\ (G[s] \in H <=> s \in F)
  /\ \A g \in 0 .. n - 1 : \E s \in 0 .. N - 1 : G[s] = g
  /\ \A e \in js : \E d \in E : /\ d.from = G[e.from] /\ d.gc = e.gc
                                /\ d.to = G[e.to]
  /\ \A d \in E : \A s \in 0 .. N - 1 :
       d.from = G[s] => \E e \in js : /\ e.from = s /\ e.gc = d.gc
                                      /\ d.to = G[e.to]

(* What one stands for is together in a group.                             *)
Merges(G, P, N) ==
  \A s, t \in 0 .. N - 1 : G[s] = G[t] <=> GroupOf(P, s) = GroupOf(P, t)

LEMMA GroupsImage ==
  ASSUME NEW N \in Nat, NEW Z, Z = 0 .. N - 1, NEW js, js \subseteq Jumps(N),
         OneJump(js), NEW F, F \subseteq Z, NEW P, Stable(P, js, F, Z),
         NEW E, E = minimal_DFA_jumps(P, js), NEW H, H = FinalGroups(P, F),
         NEW n, n = Len(P),
         NEW G, G = [s \in 0 .. N |-> IF s = N THEN n ELSE GroupOf(P, s) - 1]
  PROVE  Image(G, js, F, N, E, H, n) /\ Merges(G, P, N)
<1>1. PICK R : Splits(P, Z, R)
  BY DEF Stable
<1>2. n \in Nat /\ DOMAIN P = 1 .. n /\ \A k \in 1 .. n : P[k] \subseteq Z /\ P[k] # {}
  <2>1. P \in Seq(SUBSET Z) /\ \A k \in DOMAIN P : P[k] # {}
    BY <1>1 DEF Splits
  <2>2. n \in Nat /\ DOMAIN P = 1 .. n /\ \A k \in 1 .. n : P[k] \in SUBSET Z
    BY <2>1
  <2> QED
    BY <2>1, <2>2
<1>3. ASSUME NEW s \in Z
      PROVE  /\ GroupOf(P, s) \in 1 .. n /\ s \in P[GroupOf(P, s)]
             /\ \A k \in 1 .. n : s \in P[k] => k = GroupOf(P, s)
  <2>1. /\ GroupOf(P, s) \in DOMAIN P /\ s \in P[GroupOf(P, s)]
        /\ \A k \in DOMAIN P : s \in P[k] => k = GroupOf(P, s)
    BY <1>1, <1>3, GroupIs
  <2> QED
    BY <1>2, <2>1
<1>4. ASSUME NEW s \in Z
      PROVE  /\ G[s] = GroupOf(P, s) - 1 /\ G[s] \in 0 .. n - 1 /\ G[s] \in 0 .. n
             /\ s \in 0 .. N
  <2>1. s \in 0 .. N /\ s # N
    OBVIOUS
  <2>2. G[s] = GroupOf(P, s) - 1
    BY <2>1
  <2> QED
    BY <1>2, <1>3, <2>1, <2>2
<1>5. G \in [0 .. N -> 0 .. n] /\ G[N] = n
  <2>1. N \in 0 .. N /\ n \in 0 .. n
    BY <1>2
  <2>2. G[N] = n
    BY <2>1
  <2>3. \A s \in 0 .. N : s = N \/ s \in Z
    OBVIOUS
  <2>4. \A s \in 0 .. N : G[s] \in 0 .. n
    BY <1>4, <2>1, <2>2, <2>3
  <2> QED
    BY <2>2, <2>4
<1>6. /\ \A d \in E : Stands(P, js, d)
      /\ \A k \in DOMAIN P : P[k] # {} => StoodFor(P, js, k, E)
  BY <1>1, GroupJumps
<1>17. ASSUME NEW k \in DOMAIN P, NEW s \in P[k], NEW t \in P[k]
       PROVE  s \in F => t \in F
  <2>1. /\ s \in F => t \in F
        /\ <<s, t>> \in AlikeIn(P, js, Gen_chars, Z)
    BY StableIs
  <2> QED
    BY <2>1
<1>7. ASSUME NEW s \in Z PROVE G[s] \in H <=> s \in F
  <2>1. PICK k \in DOMAIN P : k = GroupOf(P, s) /\ s \in P[k] /\ G[s] = k - 1
    BY <1>2, <1>3, <1>4
  <2>2. k - 1 \in H <=> P[k] \cap F # {}
    <3>1. ASSUME NEW l \in DOMAIN P, l - 1 = k - 1 PROVE l = k
      BY <1>2, <3>1
    <3> QED
      BY <3>1 DEF FinalGroups
  <2>3. ASSUME NEW t \in P[k], t \in F PROVE s \in F
    BY <1>17, <2>1, <2>3
  <2> QED
    BY <2>1, <2>2, <2>3
<1>8. ASSUME NEW g \in 0 .. n - 1 PROVE \E s \in 0 .. N - 1 : G[s] = g
  <2>1. g + 1 \in 1 .. n /\ (g + 1) - 1 = g
    BY <1>2
  <2>2. PICK s \in Z : s \in P[g + 1]
    BY <1>2, <2>1
  <2>3. GroupOf(P, s) = g + 1
    BY <1>3, <2>1, <2>2
  <2> QED
    BY <1>4, <2>1, <2>3
<1>9. \A e \in js : e.from \in Z /\ e.to \in Z
  BY DEF Jumps
<1>10. \A e, f \in js : e.from = f.from /\ e.gc = f.gc => e = f
  BY DEF OneJump
<1>11. ASSUME NEW k \in DOMAIN P, NEW s \in P[k], NEW t \in P[k],
              NEW e \in js, e.from = s
       PROVE  \E f \in js : /\ f.from = t /\ f.gc = e.gc
                            /\ GroupOf(P, f.to) = GroupOf(P, e.to)
  <2>1. <<s, t>> \in AlikeIn(P, js, Gen_chars, Z)
    BY StableIs
  <2> QED
    BY <1>1, <1>10, <1>11, <2>1, JumpsAlike
<1>12. ASSUME NEW e \in js
       PROVE  \E d \in E : /\ d.from = G[e.from] /\ d.gc = e.gc
                           /\ d.to = G[e.to]
  <2>1. PICK k \in DOMAIN P : k = GroupOf(P, e.from) /\ e.from \in P[k]
    BY <1>2, <1>3, <1>9
  <2>2. PICK r \in P[k] : \A f \in js : f.from = r => GroupEdge(P, js, k, f) \in E
    BY <1>2, <1>6 DEF StoodFor
  <2>3. PICK f \in js : /\ f.from = r /\ f.gc = e.gc
                        /\ GroupOf(P, f.to) = GroupOf(P, e.to)
    BY <1>11, <2>1
  <2>4. PICK d \in E : d = GroupEdge(P, js, k, f)
    BY <2>2, <2>3
  <2>5. d.from = k - 1 /\ d.gc = e.gc /\ d.to = GroupOf(P, e.to) - 1
    BY <2>3, <2>4 DEF GroupEdge, Edge
  <2> QED
    BY <1>4, <1>9, <2>1, <2>5
<1>13. ASSUME NEW d \in E, NEW s \in Z, d.from = G[s]
       PROVE  \E e \in js : /\ e.from = s /\ e.gc = d.gc /\ d.to = G[e.to]
  <2>1. PICK k \in DOMAIN P : \E e \in js :
          d = GroupEdge(P, js, k, e) /\ (P[k] # {} => e.from \in P[k])
    BY <1>6 DEF Stands
  <2>2. PICK e \in js : d = GroupEdge(P, js, k, e) /\ e.from \in P[k]
    BY <1>2, <2>1
  <2>3. d.from = k - 1 /\ d.gc = e.gc /\ d.to = GroupOf(P, e.to) - 1
    BY <2>2 DEF GroupEdge, Edge
  <2>4. k = GroupOf(P, s)
    <3>1. k - 1 = GroupOf(P, s) - 1
      BY <1>4, <1>13, <2>3
    <3>2. k \in Int /\ GroupOf(P, s) \in Int
      BY <1>2, <1>3
    <3> QED
      BY ONLY <3>1, <3>2
  <2>5. s \in P[k]
    BY <1>3, <2>4
  <2>6. PICK f \in js : /\ f.from = s /\ f.gc = e.gc
                        /\ GroupOf(P, f.to) = GroupOf(P, e.to)
    BY <1>11, <2>2, <2>5
  <2> QED
    BY <1>4, <1>9, <2>3, <2>6
<1>14. Image(G, js, F, N, E, H, n)
  BY <1>4, <1>5, <1>7, <1>8, <1>12, <1>13, Zenon DEF Image
<1>15. ASSUME NEW s \in Z, NEW t \in Z
       PROVE  G[s] = G[t] <=> GroupOf(P, s) = GroupOf(P, t)
  <2>1. GroupOf(P, s) \in Int /\ GroupOf(P, t) \in Int
    BY <1>3
  <2>2. G[s] = GroupOf(P, s) - 1 /\ G[t] = GroupOf(P, t) - 1
    BY <1>4
  <2> QED
    BY ONLY <2>1, <2>2
<1>16. Merges(G, P, N)
  BY <1>15 DEF Merges
<1> QED
  BY <1>14, <1>16

(* The new numbers, each given once, 0 to the first state.                 *)
NewNumber(b, s) == CASE s = b -> 0 [] s < b -> s + 1 [] OTHER -> s

Renumbers(p, n, b) ==
  /\ \A s \in 0 .. n - 1 : p[s] \in 0 .. n - 1
  /\ p[b] = 0
  /\ \A s, t \in 0 .. n - 1 : p[s] = p[t] => s = t
  /\ \A g \in 0 .. n - 1 : \E s \in 0 .. n - 1 : p[s] = g

LEMMA NewNumbers ==
  ASSUME NEW n \in Nat, NEW b \in 0 .. n - 1,
         NEW p, p = [s \in 0 .. n - 1 |-> NewNumber(b, s)]
  PROVE  Renumbers(p, n, b)
<1>1. ASSUME NEW s \in 0 .. n - 1
      PROVE  /\ s = b => p[s] = 0
             /\ s < b => p[s] = s + 1
             /\ s > b => p[s] = s
  BY DEF NewNumber
<1>2. ASSUME NEW s \in 0 .. n - 1
      PROVE  p[s] \in 0 .. n - 1
  BY <1>1
<1>3. ASSUME NEW s \in 0 .. n - 1, NEW t \in 0 .. n - 1, p[s] = p[t]
      PROVE  s = t
  BY <1>1, <1>3
<1>4. ASSUME NEW g \in 0 .. n - 1
      PROVE  \E s \in 0 .. n - 1 : p[s] = g
  <2>1. CASE g = 0
    BY <1>1, <2>1
  <2>2. CASE g # 0 /\ g <= b
    <3>1. g - 1 \in 0 .. n - 1 /\ g - 1 < b /\ (g - 1) + 1 = g
      BY <2>2
    <3> QED
      BY <1>1, <3>1
  <2>3. CASE g > b
    BY <1>1, <2>3
  <2> QED
    BY <2>1, <2>2, <2>3
<1> QED
  BY <1>1, <1>2, <1>3, <1>4 DEF Renumbers

LEMMA RenumberedImage ==
  ASSUME NEW N \in Nat, NEW n \in Nat, NEW js, js \subseteq Jumps(N), NEW F,
         NEW H, H \subseteq 0 .. n - 1, NEW E, E \subseteq Jumps(n),
         NEW G, Image(G, js, F, N, E, H, n), 0 \in 0 .. N - 1,
         NEW P, Merges(G, P, N),
         NEW b, b = G[0], NEW m, m = Reordered(n, b, H, E)
  PROVE  \E D : /\ Image(D, js, F, N, m.jumps, m.final_states, n)
                /\ D[0] = 0 /\ Merges(D, P, N)
<1>1. PICK p : p = [s \in 0 .. n - 1 |-> NewNumber(b, s)]
  OBVIOUS
<1>2. /\ m.final_states = {p[s] : s \in H}
      /\ m.jumps = {Edge(p[e.from], e.gc, e.act, p[e.to]) : e \in E}
  BY <1>1 DEF Reordered, NewNumber
<1>3. /\ G \in [0 .. N -> 0 .. n] /\ G[N] = n
      /\ \A s \in 0 .. N - 1 : G[s] \in 0 .. n - 1 /\ (G[s] \in H <=> s \in F)
      /\ \A g \in 0 .. n - 1 : \E s \in 0 .. N - 1 : G[s] = g
  BY DEF Image
<1>4. b \in 0 .. n - 1
  BY <1>3
<1>5. /\ \A s \in 0 .. n - 1 : p[s] \in 0 .. n - 1
      /\ p[b] = 0
      /\ \A s, t \in 0 .. n - 1 : p[s] = p[t] => s = t
      /\ \A g \in 0 .. n - 1 : \E s \in 0 .. n - 1 : p[s] = g
  <2>1. Renumbers(p, n, b)
    BY <1>1, <1>4, NewNumbers
  <2> QED
    BY <2>1 DEF Renumbers
<1>6. PICK D : D = [s \in 0 .. N |-> IF s = N THEN n ELSE p[G[s]]]
  OBVIOUS
<1>7. ASSUME NEW s \in 0 .. N - 1
      PROVE  s \in 0 .. N /\ D[s] = p[G[s]] /\ D[s] \in 0 .. n - 1 /\ D[s] \in 0 .. n
  <2>1. s \in 0 .. N /\ s # N
    OBVIOUS
  <2>2. D[s] = p[G[s]]
    BY <1>6, <2>1
  <2>3. D[s] \in 0 .. n - 1
    BY <1>3, <1>5, <2>2
  <2> QED
    BY <2>1, <2>2, <2>3
<1>8. D \in [0 .. N -> 0 .. n] /\ D[N] = n
  <2>1. N \in 0 .. N /\ n \in 0 .. n
    OBVIOUS
  <2>2. D[N] = n
    BY <1>6, <2>1
  <2>3. \A s \in 0 .. N : s = N \/ s \in 0 .. N - 1
    OBVIOUS
  <2>4. \A s \in 0 .. N : D[s] \in 0 .. n
    BY <1>7, <2>1, <2>2, <2>3
  <2> QED
    BY <1>6, <2>2, <2>4
<1>9. ASSUME NEW s \in 0 .. N - 1 PROVE D[s] \in m.final_states <=> s \in F
  <2>1. PICK g : g = G[s]
    OBVIOUS
  <2>2. D[s] = p[g] /\ g \in 0 .. n - 1 /\ (g \in H <=> s \in F)
    BY <1>3, <1>7, <2>1
  <2>3. p[g] \in m.final_states <=> g \in H
    <3>1. ASSUME p[g] \in m.final_states PROVE g \in H
      <4>1. PICK h \in H : p[h] = p[g]
        BY <1>2, <3>1
      <4> QED
        BY <1>5, <2>2, <4>1
    <3> QED
      BY <1>2, <3>1
  <2> QED
    BY <2>2, <2>3
<1>10. ASSUME NEW g \in 0 .. n - 1 PROVE \E s \in 0 .. N - 1 : D[s] = g
  <2>1. PICK h \in 0 .. n - 1 : p[h] = g
    BY <1>5
  <2>2. PICK s \in 0 .. N - 1 : G[s] = h
    BY <1>3
  <2> QED
    BY <1>7, <2>1, <2>2
<1>11. \A e \in js : e.from \in 0 .. N - 1 /\ e.to \in 0 .. N - 1
  BY DEF Jumps
<1>12. \A e \in E : e.from \in 0 .. n - 1 /\ e.to \in 0 .. n - 1
  BY DEF Jumps
<1>13. ASSUME NEW e \in js
       PROVE  \E d \in m.jumps : /\ d.from = D[e.from] /\ d.gc = e.gc
                                 /\ d.to = D[e.to]
  <2>1. PICK f \in E : f.from = G[e.from] /\ f.gc = e.gc /\ f.to = G[e.to]
    BY DEF Image
  <2>2. PICK d \in m.jumps : d = Edge(p[f.from], f.gc, f.act, p[f.to])
    BY <1>2
  <2>3. d.from = p[G[e.from]] /\ d.gc = e.gc /\ d.to = p[G[e.to]]
    BY <2>1, <2>2 DEF Edge
  <2> QED
    BY <1>7, <1>11, <2>3
<1>14. ASSUME NEW d \in m.jumps, NEW s \in 0 .. N - 1, d.from = D[s]
       PROVE  \E e \in js : /\ e.from = s /\ e.gc = d.gc /\ d.to = D[e.to]
  <2>1. PICK f \in E : d = Edge(p[f.from], f.gc, f.act, p[f.to])
    BY <1>2
  <2>2. d.from = p[f.from] /\ d.gc = f.gc /\ d.to = p[f.to]
    BY <2>1 DEF Edge
  <2>3. f.from = G[s]
    <3>1. f.from \in 0 .. n - 1 /\ G[s] \in 0 .. n - 1
      BY <1>3, <1>12
    <3>2. p[f.from] = p[G[s]]
      BY <1>7, <1>14, <2>2
    <3> QED
      BY <1>5, <3>1, <3>2
  <2>4. PICK e \in js : e.from = s /\ e.gc = f.gc /\ f.to = G[e.to]
    BY <2>3 DEF Image
  <2> QED
    BY <1>7, <1>11, <2>2, <2>4
<1>15. Image(D, js, F, N, m.jumps, m.final_states, n)
  BY <1>7, <1>8, <1>9, <1>10, <1>13, <1>14, Zenon DEF Image
<1>16. D[0] = 0
  BY <1>5, <1>7
<1>17. Merges(D, P, N)
  <2>1. ASSUME NEW s \in 0 .. N - 1, NEW t \in 0 .. N - 1
        PROVE  D[s] = D[t] <=> G[s] = G[t]
    <3>1. G[s] \in 0 .. n - 1 /\ G[t] \in 0 .. n - 1
      BY <1>3
    <3>2. D[s] = p[G[s]] /\ D[t] = p[G[t]]
      BY <1>7
    <3> QED
      BY <1>5, <3>1, <3>2
  <2> QED
    BY <2>1 DEF Merges
<1> QED
  BY <1>15, <1>16, <1>17

-----------------------------------------------------------------------------
(* The jumps of the one go as those of the other.                          *)
LEMMA ImageGoes ==
  ASSUME NEW N \in Nat, NEW n \in Nat, NEW js, js \subseteq Jumps(N), OneJump(js),
         NEW F, NEW H, NEW E, E \subseteq Jumps(n), OneJump(E),
         NEW G, Image(G, js, F, N, E, H, n), NEW s \in 0 .. N, NEW gc
  PROVE  GoTo(E, n, G[s], gc) = G[GoTo(js, N, s, gc)]
<1>1. /\ G[N] = n /\ \A r \in 0 .. N - 1 : G[r] \in 0 .. n - 1
      /\ \A e \in js : \E d \in E : /\ d.from = G[e.from] /\ d.gc = e.gc
                                    /\ d.to = G[e.to]
      /\ \A d \in E : \A r \in 0 .. N - 1 :
           d.from = G[r] => \E e \in js : /\ e.from = r /\ e.gc = d.gc
                                          /\ d.to = G[e.to]
  BY DEF Image
<1>2. PICK P : P = <<>>
  OBVIOUS
<1>3. CASE \E e \in js : e.from = s /\ e.gc = gc
  <2>1. PICK e \in js : e.from = s /\ e.gc = gc
    BY <1>3
  <2>2. PICK d \in E : d.from = G[e.from] /\ d.gc = e.gc /\ d.to = G[e.to]
    BY <1>1
  <2>3. GoTo(js, N, e.from, e.gc) = e.to
    BY GoToJump
  <2>4. GoTo(E, n, d.from, d.gc) = d.to
    BY GoToJump
  <2> QED
    BY <2>1, <2>2, <2>3, <2>4
<1>4. CASE ~ \E e \in js : e.from = s /\ e.gc = gc
  <2>1. GoTo(js, N, s, gc) = N
    BY <1>4, GoToNone
  <2>2. \A d \in E : ~(d.from = G[s] /\ d.gc = gc)
    <3>1. SUFFICES ASSUME NEW d \in E, d.from = G[s], d.gc = gc PROVE FALSE
      OBVIOUS
    <3>2. CASE s \in 0 .. N - 1
      BY <1>1, <1>4, <3>1, <3>2
    <3>3. CASE s = N
      <4>1. d.from \in 0 .. n - 1
        BY DEF Jumps
      <4> QED
        BY <1>1, <3>1, <3>3, <4>1
    <3> QED
      BY <3>2, <3>3
  <2>3. GoTo(E, n, G[s], gc) = n
    BY <2>2, GoToNone
  <2> QED
    BY <1>1, <2>1, <2>3
<1> QED
  BY <1>3, <1>4

(* What stands for states that are not told apart does alike.              *)
AllApart(n, E, H) ==
  \A s, t \in 0 .. n - 1 : s < t => <<s, t>> \in Apart(n, E, H)

LEMMA ToldApart ==
  ASSUME NEW N \in Nat, NEW n \in Nat, NEW js, js \subseteq Jumps(N), OneJump(js),
         NEW F, F \subseteq 0 .. N - 1, NEW H, H \subseteq 0 .. n - 1,
         NEW E, E \subseteq Jumps(n), OneJump(E),
         NEW G, Image(G, js, F, N, E, H, n), NEW P, Merges(G, P, N),
         Coarse(P, js, F, N)
  PROVE  AllApart(n, E, H)
<1>13. PICK A : A = Apart(n, E, H)
  OBVIOUS
<1>1. SUFFICES ASSUME NEW s \in 0 .. n - 1, NEW t \in 0 .. n - 1,
                      <<s, t>> \notin A
               PROVE  s = t
  <2>1. ASSUME NEW s \in 0 .. n - 1, NEW t \in 0 .. n - 1, s < t
        PROVE  <<s, t>> \in A
    <3>1. s # t
      BY <2>1
    <3> QED
      BY <1>1, <3>1
  <2> QED
    BY <1>13, <2>1 DEF AllApart
<1>2. PICK B : B = {p \in (0 .. N) \X (0 .. N) : <<G[p[1]], G[p[2]]>> \notin A}
  OBVIOUS
<1>3. \A u, v \in 0 .. N : <<u, v>> \in B <=> <<G[u], G[v]>> \notin A
  BY <1>2
<1>4. /\ G \in [0 .. N -> 0 .. n] /\ G[N] = n
      /\ \A r \in 0 .. N - 1 : G[r] \in 0 .. n - 1 /\ (G[r] \in H <=> r \in F)
      /\ \A g \in 0 .. n - 1 : \E r \in 0 .. N - 1 : G[r] = g
  BY DEF Image
<1>5. ASSUME NEW u \in 0 .. N PROVE G[u] \in H <=> u \in F
  <2>1. CASE u \in 0 .. N - 1
    BY <1>4, <2>1
  <2>2. CASE u = N
    <3>1. n \notin H /\ N \notin F
      OBVIOUS
    <3> QED
      BY <1>4, <2>2, <3>1
  <2> QED
    BY <2>1, <2>2
<1>6. ASSUME NEW u \in 0 .. n, NEW v \in 0 .. n, <<u, v>> \notin A
      PROVE  /\ u \in H <=> v \in H
             /\ \A e \in E : <<GoTo(E, n, u, e.gc), GoTo(E, n, v, e.gc)>> \notin A
             /\ \A r \in 0 .. n : <<r, r>> \notin A
  <2>1. PICK C : C = Apart(n, E, H)
    OBVIOUS
  <2>2. /\ n \in Nat /\ E \subseteq Jumps(n) /\ C = Apart(n, E, H)
        /\ <<u, v>> \notin C
    BY <1>6, <1>13, <2>1
  <2>3. /\ u \in H <=> v \in H
        /\ \A e \in E : <<GoTo(E, n, u, e.gc), GoTo(E, n, v, e.gc)>> \notin C
        /\ \A r \in 0 .. n : <<r, r>> \notin C
    BY ONLY <2>2, u \in 0 .. n, v \in 0 .. n, ApartIs
  <2> QED
    BY <1>13, <2>1, <2>3
<1>7. ASSUME NEW u \in 0 .. N, NEW v \in 0 .. N, <<u, v>> \in B
      PROVE  /\ u \in F <=> v \in F
             /\ \A gc \in Gen_chars : <<GoTo(js, N, u, gc), GoTo(js, N, v, gc)>> \in B
  <2>1. G[u] \in 0 .. n /\ G[v] \in 0 .. n /\ <<G[u], G[v]>> \notin A
    BY <1>3, <1>4, <1>7
  <2>2. u \in F <=> v \in F
    BY <1>5, <1>6, <2>1
  <2>3. ASSUME NEW gc \in Gen_chars
        PROVE  <<GoTo(js, N, u, gc), GoTo(js, N, v, gc)>> \in B
    <3>1. PICK x, y : x = GoTo(js, N, u, gc) /\ y = GoTo(js, N, v, gc)
      OBVIOUS
    <3>2. x \in 0 .. N /\ y \in 0 .. N
      BY <3>1, GoToIs
    <3>3. G[x] = GoTo(E, n, G[u], gc) /\ G[y] = GoTo(E, n, G[v], gc)
      <4>1. GoTo(E, n, G[u], gc) = G[GoTo(js, N, u, gc)]
        BY ImageGoes
      <4>2. GoTo(E, n, G[v], gc) = G[GoTo(js, N, v, gc)]
        BY ImageGoes
      <4> QED
        BY <3>1, <4>1, <4>2
    <3>4. <<G[x], G[y]>> \notin A
      <4>1. CASE \E e \in E : e.gc = gc
        BY <1>6, <2>1, <3>3, <4>1
      <4>2. CASE ~ \E e \in E : e.gc = gc
        <5>1. GoTo(E, n, G[u], gc) = n /\ GoTo(E, n, G[v], gc) = n
          BY <4>2, GoToNone
        <5>2. n \in 0 .. n
          OBVIOUS
        <5> QED
          BY <1>6, <2>1, <3>3, <5>1, <5>2
      <4> QED
        BY <4>1, <4>2
    <3> QED
      BY <1>3, <3>1, <3>2, <3>4
  <2> QED
    BY <2>2, <2>3
<1>8. Bisim(B, js, F, N)
  BY <1>7 DEF Bisim
<1>9. PICK R : Splits(P, 0 .. N - 1, R) /\ Held(R, js, F, N)
  BY DEF Coarse
<1>10. PICK u, v \in 0 .. N - 1 : G[u] = s /\ G[v] = t
  BY <1>4
<1>11. <<u, v>> \in R
  <2>1. u \in 0 .. N /\ v \in 0 .. N
    OBVIOUS
  <2>2. <<u, v>> \in B
    BY <1>1, <1>3, <1>10, <2>1
  <2> QED
    BY <1>8, <1>9, <2>2 DEF Held, Holds
<1>12. GroupOf(P, u) = GroupOf(P, v)
  <2>1. PICK Z : Z = 0 .. N - 1
    OBVIOUS
  <2>2. Splits(P, Z, R) /\ u \in Z /\ v \in Z
    BY <1>9, <2>1
  <2>3. /\ GroupOf(P, u) \in DOMAIN P /\ u \in P[GroupOf(P, u)]
        /\ GroupOf(P, v) \in DOMAIN P /\ v \in P[GroupOf(P, v)]
    BY <2>2, GroupIs
  <2> QED
    BY <1>11, <2>2, <2>3 DEF Splits
<1> QED
  BY <1>10, <1>12 DEF Merges

(* Every state is reached: those that stand for what is reached are.       *)
LEMMA ImageReached ==
  ASSUME NEW N \in Nat, NEW n \in Nat, NEW js, js \subseteq Jumps(N),
         LeadFrom(js, N), 0 \in 0 .. N - 1,
         NEW F, NEW H, NEW E, NEW G, Image(G, js, F, N, E, H, n), G[0] = 0
  PROVE  LeadFrom(E, n)
<1>1. SUFFICES ASSUME NEW T \in SUBSET Nat, 0 \in T, Forth(E, T), NEW g \in 0 .. n - 1
               PROVE  g \in T
  BY DEF LeadFrom
<1>2. PICK U : U = {s \in 0 .. N - 1 : G[s] \in T}
  OBVIOUS
<1>3. U \in SUBSET Nat /\ 0 \in U
  BY <1>1, <1>2
<1>4. ASSUME NEW e \in js, e.from \in U PROVE e.to \in U
  <2>1. e.to \in 0 .. N - 1
    BY DEF Jumps
  <2>2. PICK d \in E : d.from = G[e.from] /\ d.to = G[e.to]
    BY DEF Image
  <2>3. d.from \in T
    BY <1>2, <1>4, <2>2
  <2>4. d.to \in T
    BY <1>1, <2>3 DEF Forth
  <2> QED
    BY <1>2, <2>1, <2>2, <2>4
<1>5. Forth(js, U)
  BY <1>4 DEF Forth
<1>6. 0 .. N - 1 \subseteq U
  BY <1>3, <1>5 DEF LeadFrom
<1>7. PICK s \in 0 .. N - 1 : G[s] = g
  BY DEF Image
<1> QED
  BY <1>2, <1>6, <1>7

-----------------------------------------------------------------------------
(* The minimization: the partition tells apart what ends a word and, once  *)
(* it has been split, what goes to different groups of the one before, but *)
(* no states that do alike.                                                *)
States == 0 .. Len(sets) - 1
Finals == FinalStates(ndfa, sets)

Parted(R) ==
  /\ Splits(new_partition, States, R)
  /\ R \subseteq Fin(Finals, States) /\ Held(R, jumps, Finals, Len(sets))
  /\ old_partition # <<>>
       => R \subseteq AlikeIn(old_partition, jumps, Gen_chars, States)

PartInv ==
  /\ stage \in {"text", "rejected", "subset"} => old_partition = <<>>
  /\ stage = "refine" => \E R : Parted(R)
  /\ stage \in {"minimal", "done"}
       => /\ Stable(new_partition, jumps, Finals, States)
          /\ Coarse(new_partition, jumps, Finals, Len(sets))
          /\ mdfa = minimize_DFA(new_partition, Finals, jumps)
  /\ stage = "done" => gdfa = fuse_DFA_jumps(mdfa)

LEMMA InitialSplits ==
  ASSUME NEW N, NEW Z, Z = 0 .. N - 1, NEW F, F \subseteq Z, F # {},
         NEW P, P = build_initial_partition(N, F)
  PROVE  Splits(P, Z, Fin(F, Z))
<1>1. PICK O : O = Z \ F
  OBVIOUS
<1>2. P = IF O = {} THEN <<F>> ELSE <<F, O>>
  BY <1>1 DEF build_initial_partition
<1>3. /\ \A s, t \in F : <<s, t>> \in Fin(F, Z)
      /\ \A s, t \in O : <<s, t>> \in Fin(F, Z)
      /\ \A s \in F : \A t \in O :
           <<s, t>> \notin Fin(F, Z) /\ <<t, s>> \notin Fin(F, Z)
  BY <1>1 DEF Fin
<1>4. CASE O = {}
  <2>1. P = <<F>> /\ F = Z
    BY <1>1, <1>2, <1>4
  <2>2. P \in Seq(SUBSET Z) /\ DOMAIN P = {1} /\ P[1] = F
    BY <2>1
  <2> QED
    BY <1>3, <1>4, <2>1, <2>2 DEF Splits
<1>5. CASE O # {}
  <2>1. P = <<F, O>> /\ O \subseteq Z
    BY <1>1, <1>2, <1>5
  <2>2. /\ P \in Seq(SUBSET Z) /\ DOMAIN P = {1, 2} /\ P[1] = F /\ P[2] = O
    BY <2>1
  <2>3. \A s \in Z : s \in F \/ s \in O
    BY <1>1
  <2>4. \A s : ~(s \in F /\ s \in O)
    BY <1>1
  <2>5. \A k, l \in {1, 2} : \A s \in P[k], t \in P[l] :
          <<s, t>> \in Fin(F, Z) => k = l
    BY <1>3, <2>2
  <2> QED
    BY <1>3, <1>5, <2>2, <2>3, <2>4, <2>5 DEF Splits
<1> QED
  BY <1>4, <1>5

LEMMA FinalsAre ==
  ASSUME DfaInv, stage \notin {"text", "rejected"}
  PROVE  /\ Len(sets) \in Nat /\ jumps \subseteq Jumps(Len(sets))
         /\ \A e, f \in jumps : e.from = f.from /\ e.gc = f.gc => e = f
         /\ Finals \subseteq States
<1>1. Sound(Built, ndfa.final_state)
  BY DEF DfaInv
<1>2. /\ sets \in Seq(SUBSET (0 .. ndfa.final_state))
      /\ jumps \subseteq Jumps(Len(sets))
      /\ \A e, f \in jumps : e.from = f.from /\ e.gc = f.gc => e = f
  BY <1>1 DEF Sound, Built
<1>3. Finals \subseteq States
  BY DEF Finals, States, FinalStates
<1> QED
  BY <1>2, <1>3

LEMMA PartKept ==
  ASSUME PartInv, UNCHANGED <<stage, ndfa, sets, jumps, old_partition,
                              new_partition, mdfa, gdfa>>
  PROVE  PartInv'
BY DEF PartInv, Parted, States, Finals

(* The automaton begins in a state.                                        *)
LEMMA StatesAre ==
  ASSUME DfaInv, FollowInv, stage \notin {"text", "rejected"}
  PROVE  0 \in States
<1>1. sets # <<>>
  <2>1. Following(Built, ndfa, 0, Gen_chars)
    BY DEF FollowInv
  <2> QED
    BY <2>1 DEF Following, Built
<1>2. sets \in Seq(SUBSET (0 .. ndfa.final_state))
  BY DEF DfaInv, Sound, Built
<1>3. Len(sets) \in Nat /\ Len(sets) # 0
  BY <1>1, <1>2
<1> QED
  BY <1>3 DEF States

(* At the end the groups are stable, and accept what their states do.      *)
Minimized(m, n) ==
  /\ n \in Nat /\ n > 0 /\ m.n = n
  /\ m.jumps \subseteq Jumps(n) /\ m.final_states \subseteq 0 .. n - 1
  /\ OneJump(m.jumps)
  /\ Lang(m.jumps, m.final_states, 0) = Lang(jumps, Finals, 0)

LEMMA MinimalAccepts ==
  ASSUME DfaInv, FollowInv, stage \notin {"text", "rejected"},
         Stable(new_partition, jumps, Finals, States),
         NEW m, m = minimize_DFA(new_partition, Finals, jumps),
         NEW n, n = Len(new_partition)
  PROVE  Minimized(m, n)
<1>1. PICK N, Z, js, F, P, z :
        /\ N = Len(sets) /\ Z = States /\ js = jumps /\ F = Finals
        /\ P = new_partition /\ z = 0
  OBVIOUS
<1>2. /\ N \in Nat /\ Z = 0 .. N - 1 /\ js \subseteq Jumps(N)
      /\ \A e, f \in js : e.from = f.from /\ e.gc = f.gc => e = f
      /\ F \subseteq Z
  BY <1>1, FinalsAre DEF States
<1>3. z \in Z /\ z \in Nat
  BY <1>1, StatesAre
<1>4. Stable(P, js, F, Z)
  BY <1>1
<1>5. PICK R : Splits(P, Z, R)
  BY <1>4 DEF Stable
<1>7. PICK b, H, E : /\ b = GroupOf(P, z) - 1
                     /\ H = FinalGroups(P, F) /\ E = minimal_DFA_jumps(P, js)
  OBVIOUS
<1>8. m = Reordered(n, b, H, E)
  BY <1>1, <1>7, Zenon DEF minimize_DFA, FinalGroups
<1>9. n \in Nat /\ DOMAIN P = 1 .. n
  <2>1. P \in Seq(SUBSET Z)
    BY <1>5 DEF Splits
  <2> QED
    BY <1>1, <2>1
<1>10. b \in 0 .. n - 1
  <2>1. GroupOf(P, z) \in DOMAIN P
    BY <1>3, <1>5, GroupIs
  <2> QED
    BY <1>7, <1>9, <2>1
<1>11. H \subseteq 0 .. n - 1
  BY <1>7, <1>9 DEF FinalGroups
<1>12. E \subseteq Jumps(n)
  <2>1. n = Len(P)
    BY <1>1
  <2> QED
    BY <1>2, <1>5, <1>7, <2>1, GroupEdgesTyped
<1>13. /\ m.n = n
       /\ OneJump(E) => OneJump(m.jumps)
       /\ m.jumps \subseteq Jumps(n) /\ m.final_states \subseteq 0 .. n - 1
       /\ SameWords(m.jumps, m.final_states, z, E, H, b)
  <2>1. n \in Nat /\ z \in Nat /\ z = 0
    BY <1>1, <1>9
  <2> QED
    BY ONLY <1>8, <1>10, <1>11, <1>12, <2>1, Renumbered
<1>14. SameWords(E, H, GroupOf(P, z) - 1, js, F, z)
  <2>1. N \in Nat /\ Z = 0 .. N - 1 /\ js \subseteq Jumps(N)
    BY <1>2
  <2>2. \A e, f \in js : e.from = f.from /\ e.gc = f.gc => e = f
    BY <1>2
  <2>3. F \subseteq Z /\ z \in Z
    BY <1>2, <1>3
  <2>4. E = minimal_DFA_jumps(P, js) /\ H = FinalGroups(P, F)
    BY <1>7
  <2> QED
    BY ONLY <1>4, <2>1, <2>2, <2>3, <2>4, GroupsAccept
<1>15. OneJump(E)
  <2>1. OneJump(js)
    BY <1>2 DEF OneJump
  <2> QED
    BY <1>2, <1>5, <1>7, <2>1, GroupOneJump
<1>16. n > 0
  BY <1>9, <1>10
<1> QED
  BY <1>1, <1>7, <1>9, <1>13, <1>14, <1>15, <1>16 DEF SameWords, Minimized

LEMMA DfaAccepts ==
  ASSUME DfaInv, FollowInv, PartInv, DfaNext
  PROVE  FollowInv' /\ PartInv'
<1>1. CASE convert_NDFA_to_DFA
  <2>1. stage = "subset" /\ stage' = "subset"
        /\ UNCHANGED <<cmds, ndfa, old_partition>>
    BY <1>1 DEF convert_NDFA_to_DFA
  <2>2. /\ Spans(ndfa, 0) /\ Sound(Built, ndfa.final_state)
        /\ Following(Built, ndfa, 0, Gen_chars)
    BY <2>1 DEF DfaInv, FollowInv
  <2>3. Following(Built', ndfa, 0, Gen_chars)
    BY <1>1, <2>2, ConvertFollows
  <2> QED
    BY <2>1, <2>3 DEF FollowInv, PartInv
<1>2. CASE ~convert_NDFA_to_DFA
  <2>1. /\ UNCHANGED <<cmds, ndfa, sets, unmarked, jumps>>
        /\ stage \in {"subset", "refine", "minimal"}
        /\ stage' \in {"refine", "minimal", "done"}
        /\ stage = "subset" => unmarked = <<>>
    BY <1>2 DEF DfaNext, begin_minimization, end_minimization,
                split_states_into_equivalence_classes, group_jumps
  <2>2. Built' = Built
    BY <2>1, BuiltKept
  <2>3. FollowInv'
    BY <2>1, <2>2 DEF FollowInv
  <2>4. States' = States /\ Finals' = Finals
    BY <2>1 DEF States, Finals
  <2>5. PICK N, Z, js, F : N = Len(sets) /\ Z = States /\ js = jumps /\ F = Finals
    OBVIOUS
  <2>6. /\ N \in Nat /\ Z = 0 .. N - 1 /\ js \subseteq Jumps(N) /\ F \subseteq Z
        /\ OneJump(js)
    BY <2>1, <2>5, FinalsAre DEF States, OneJump
  <2>11. AllEnd(js, F, N) /\ F # {}
    <3>1. PICK a, acc, n : a = ndfa /\ acc = Built /\ n = a.final_state
      OBVIOUS
    <3>2. /\ Spans(a, 0) /\ Sound(acc, n) /\ Following(acc, a, 0, Gen_chars)
          /\ unmarked = <<>>
      BY <2>1, <3>1 DEF DfaInv, FollowInv
    <3>3. acc.sets = sets /\ acc.jumps = js /\ acc.unmarked = unmarked
      BY <2>5, <3>1 DEF Built
    <3>4. F = FinalStates(a, acc.sets) /\ N = Len(acc.sets)
      BY <2>5, <3>1, <3>3 DEF Finals
    <3>5. AllEnd(acc.jumps, F, N) /\ F # {}
      BY <3>1, <3>2, <3>3, <3>4, DfaEnds
    <3> QED
      BY <3>3, <3>5
  <2>7. CASE begin_minimization
    <3>1. /\ new_partition' = build_initial_partition(N, F)
          /\ stage = "subset" /\ stage' = "refine" /\ old_partition' = old_partition
      BY <2>5, <2>7 DEF begin_minimization, Finals
    <3>2. PICK P, R : P = new_partition' /\ R = Fin(F, Z)
      OBVIOUS
    <3>3. Splits(P, Z, R)
      BY <2>6, <2>11, <3>1, <3>2, InitialSplits
    <3>4. Held(R, js, F, N)
      <4>1. \A s \in Z : s \in 0 .. N
        BY <2>6
      <4>2. ASSUME NEW B, Bisim(B, js, F, N) PROVE Holds(B, R, Z)
        BY <3>2, <4>1, <4>2 DEF Bisim, Holds, Fin
      <4> QED
        BY <2>6, <4>2 DEF Held
    <3>5. old_partition' = <<>>
      BY <3>1 DEF PartInv
    <3>6. \E S : Parted(S)'
      BY <2>1, <2>4, <2>5, <3>2, <3>3, <3>4, <3>5 DEF Parted
    <3> QED
      BY <2>3, <3>1, <3>5, <3>6 DEF PartInv
  <2>8. CASE split_states_into_equivalence_classes
    <3>1. PICK P, Q : P = new_partition /\ Q = split_partition(P, js)
      OBVIOUS
    <3>2. /\ new_partition' = Q /\ old_partition' = P
          /\ stage = "refine" /\ stage' = "refine"
      BY <2>5, <2>8, <3>1 DEF split_states_into_equivalence_classes
    <3>3. PICK R : Splits(P, Z, R) /\ R \subseteq Fin(F, Z) /\ Held(R, js, F, N)
      BY <2>5, <3>1, <3>2 DEF PartInv, Parted
    <3>4. PICK A, S : A = AlikeIn(P, js, Gen_chars, Z) /\ S = R \cap A
      OBVIOUS
    <3>5. Splits(Q, Z, S)
      BY <2>6, <3>1, <3>3, <3>4, SplitPartition
    <3>6. Held(S, js, F, N)
      <4>1. ASSUME NEW B, Bisim(B, js, F, N) PROVE Holds(B, S, Z)
        <5>1. Holds(B, R, Z)
          BY <2>6, <3>3, <4>1 DEF Held
        <5>2. Holds(B, A, Z)
          BY <2>6, <2>11, <3>3, <3>4, <4>1, <5>1, BisimAlike
        <5> QED
          BY <3>4, <5>1, <5>2 DEF Holds
      <4> QED
        BY <2>6, <4>1 DEF Held
    <3>7. S \subseteq Fin(F, Z) /\ S \subseteq A
      BY <3>3, <3>4
    <3>8. \E T : Parted(T)'
      BY <2>1, <2>4, <2>5, <3>2, <3>4, <3>5, <3>6, <3>7 DEF Parted
    <3> QED
      BY <2>3, <3>2, <3>8 DEF PartInv
  <2>9. CASE end_minimization
    <3>1. /\ mdfa' = minimize_DFA(new_partition, Finals, jumps)
          /\ stage = "refine" /\ stage' = "minimal"
          /\ old_partition = new_partition /\ new_partition' = new_partition
      BY <2>9 DEF end_minimization, Finals
    <3>2. PICK R : Parted(R)
      BY <3>1 DEF PartInv
    <3>3. \E k \in DOMAIN new_partition : 0 \in new_partition[k]
      <4>1. 0 \in Z
        BY <2>5, <3>1, StatesAre
      <4> QED
        BY <2>5, <3>2, <4>1 DEF Parted, Splits
    <3>4. /\ Stable(new_partition, js, F, Z)
          /\ Coarse(new_partition, js, F, N)
      <4>1. old_partition # <<>>
        BY <3>1, <3>3
      <4>2. /\ Splits(new_partition, Z, R) /\ R \subseteq Fin(F, Z)
            /\ R \subseteq AlikeIn(new_partition, js, Gen_chars, Z)
            /\ Held(R, js, F, N)
        BY <2>5, <3>1, <3>2, <4>1 DEF Parted
      <4>3. R \subseteq Fin(F, Z) \cap AlikeIn(new_partition, js, Gen_chars, Z)
        BY <4>2
      <4> QED
        BY <2>6, <4>2, <4>3 DEF Stable, Coarse
    <3> QED
      BY <2>1, <2>3, <2>4, <2>5, <3>1, <3>4 DEF PartInv
  <2>10. CASE group_jumps
    <3>1. /\ stage = "minimal" /\ stage' = "done"
          /\ gdfa' = fuse_DFA_jumps(mdfa)
          /\ mdfa' = mdfa /\ new_partition' = new_partition
      BY <2>10 DEF group_jumps
    <3>2. /\ Stable(new_partition, jumps, Finals, States)
          /\ Coarse(new_partition, jumps, Finals, Len(sets))
          /\ mdfa = minimize_DFA(new_partition, Finals, jumps)
      BY <3>1 DEF PartInv
    <3>3. gdfa' = fuse_DFA_jumps(mdfa')
      BY <3>1
    <3> QED
      BY <2>1, <2>3, <2>4, <3>1, <3>2, <3>3 DEF PartInv
  <2> QED
    BY <1>2, <2>7, <2>8, <2>9, <2>10 DEF DfaNext
<1> QED
  BY <1>1, <1>2

-----------------------------------------------------------------------------
AcceptInv == TypeInv /\ FollowInv /\ PartInv

LEMMA BuildAccepts ==
  ASSUME DfaInv, PartInv, stage = "text",
         \E b, opt : Complete(b) /\ b # <<>> /\ build_automaton(b, opt)
  PROVE  FollowInv' /\ PartInv'
<1>1. PICK b, opt : Complete(b) /\ b # <<>> /\ build_automaton(b, opt)
  OBVIOUS
<1>2. FollowInv'
  BY <1>1, FollowBuilt
<1>3. stage' = "subset" /\ old_partition' = old_partition
  BY <1>1 DEF build_automaton
<1> QED
  BY <1>2, <1>3 DEF PartInv

LEMMA StepAccepts ==
  ASSUME AcceptInv, Next
  PROVE  AcceptInv'
<1>1. TypeInv /\ TypeInv' /\ DfaInv /\ FollowInv /\ PartInv
  BY StepTyped DEF AcceptInv, TypeInv
<1>2. CASE Build
  <2>1. DfaNext
    BY <1>2 DEF Build
  <2> QED
    BY <1>1, <2>1, DfaAccepts DEF AcceptInv
<1>3. CASE generate_idents
  <2>1. stage = "text"
    BY <1>3 DEF generate_idents
  <2> QED
    BY <1>1, <1>3, <2>1, GenerateBuilds, BuildAccepts DEF AcceptInv
<1>4. CASE generate_expression
  <2>1. stage = "text"
    BY <1>4 DEF generate_expression
  <2> QED
    BY <1>1, <1>4, <2>1, ExpressionBuilds, BuildAccepts DEF AcceptInv
<1>5. CASE ~(Build \/ generate_idents \/ generate_expression)
  <2>1. /\ stage = "text" /\ stage' \in {"text", "rejected"}
        /\ old_partition' = old_partition
    BY <1>5 DEF Next, read_idents, reject, H_is_d, T_is_TbE, E_is_EF, binary,
                F_is_Gc, Reduce, G_is_Ha, dfaVars
  <2>2. FollowInv' /\ PartInv'
    BY <1>1, <2>1 DEF FollowInv, PartInv
  <2> QED
    BY <1>1, <2>2 DEF AcceptInv
<1> QED
  BY <1>2, <1>3, <1>4, <1>5

LEMMA AcceptKept ==
  ASSUME AcceptInv, TypeInv', UNCHANGED vars
  PROVE  AcceptInv'
<1>1. UNCHANGED <<stage, cmds, ndfa, sets, unmarked, jumps, old_partition,
                  new_partition, mdfa, gdfa>>
  BY DEF vars, dfaVars
<1>2. Built' = Built
  BY <1>1, BuiltKept
<1>3. FollowInv'
  BY <1>1, <1>2 DEF AcceptInv, FollowInv
<1>4. PartInv'
  BY <1>1, PartKept DEF AcceptInv
<1> QED
  BY <1>3, <1>4 DEF AcceptInv

(* What the commands spell, up to a length, is what the automaton accepts. *)
LEMMA SpelledIs ==
  ASSUME NEW b, Complete(b), b # <<>>, NEW a, Fitting(b, a), NEW n \in Nat, n >= 1
  PROVE  Spellings(Words(b, n)) = {w \in Accepts(a) : Len(w) <= n}
<1>1. PICK L : Meaning(b, L) /\ Accepts(a) = L[Len(b)]
  BY DEF Fitting
<1>2. PICK W, X : W = Words(b, n) /\ X = L[Len(b)]
  OBVIOUS
<1>3. Spells(Words(b, n), L[Len(b)], n)
  BY <1>1, WordsMean
<1>4. Spells(W, X, n)
  BY <1>2, <1>3
<1>5. Spellings(W) = {w \in X : Len(w) <= n}
  BY <1>4, SpellingsAre
<1> QED
  BY <1>1, <1>2, <1>5

(* The deterministic automaton, once it is built, accepts what the         *)
(* nondeterministic one does.                                              *)
LEMMA DfaAcceptsIt ==
  ASSUME DfaInv, FollowInv, stage \notin {"text", "rejected", "subset"}
  PROVE  /\ Complete(cmds) /\ cmds # <<>> /\ Fitting(cmds, ndfa)
         /\ Lang(jumps, Finals, 0) = Accepts(ndfa)
<1>1. /\ Spans(ndfa, 0) /\ Sound(Built, ndfa.final_state)
      /\ Following(Built, ndfa, 0, Gen_chars) /\ unmarked = <<>>
      /\ Complete(cmds) /\ cmds # <<>> /\ Fitting(cmds, ndfa)
  BY DEF DfaInv, FollowInv
<1>2. PICK a, acc, F, m, z :
        /\ a = ndfa /\ acc = Built /\ m = a.final_state
        /\ F = FinalStates(a, acc.sets) /\ z = 0
  OBVIOUS
<1>3. Lang(acc.jumps, F, z) = Accepts(a)
  <2>1. Spans(a, z) /\ Sound(acc, m) /\ Following(acc, a, 0, Gen_chars)
        /\ acc.unmarked = <<>>
    BY <1>1, <1>2 DEF Built
  <2>2. z \in Nat
    BY <1>2
  <2> QED
    BY <1>2, <2>1, <2>2, SubsetsAccept
<1>4. acc.jumps = jumps /\ F = Finals
  BY <1>2 DEF Built, Finals
<1> QED
  BY <1>1, <1>2, <1>3, <1>4

LEMMA AcceptsIt ==
  ASSUME AcceptInv
  PROVE  AcceptsExpression
<1>1. PICK z, n : z = 0 /\ n = MaxWord
  OBVIOUS
<1>2. z \in Nat /\ n \in Nat /\ n >= 1
  BY <1>1, AutomataAssumption
<1>3. DfaInv /\ FollowInv /\ PartInv
  BY DEF AcceptInv, TypeInv
<1>4. ASSUME stage \in {"refine", "minimal"}
      PROVE  /\ Spellings(Words(cmds, MaxWord))
                  = {w \in Lang(jumps, Finals, 0) : Len(w) <= MaxWord}
  <2>1. /\ Complete(cmds) /\ cmds # <<>> /\ Fitting(cmds, ndfa)
        /\ Lang(jumps, Finals, 0) = Accepts(ndfa)
    BY <1>3, <1>4, DfaAcceptsIt
  <2>2. PICK a, b : a = ndfa /\ b = cmds
    OBVIOUS
  <2>3. Spellings(Words(b, n)) = {w \in Accepts(a) : Len(w) <= n}
    BY <1>2, <2>1, <2>2, SpelledIs
  <2> QED
    BY <1>1, <2>1, <2>2, <2>3
<1>5. ASSUME stage = "refine"
      PROVE  Accepted(jumps, Finals)
               = {w \in Lang(jumps, Finals, 0) : Len(w) <= MaxWord}
  <2>1. PICK js, F : js = jumps /\ F = Finals
    OBVIOUS
  <2>2. /\ js \subseteq AllEdges /\ F \subseteq Nat
        /\ \A e \in js : e.gc \in Gen_chars
    <3>1. js \subseteq Jumps(Len(sets)) /\ F \subseteq States
      BY <1>3, <1>5, <2>1, FinalsAre
    <3>2. States \subseteq Nat
      BY DEF States
    <3>3. \A e \in js : e.gc \in Gen_chars
      BY <3>1 DEF Jumps
    <3> QED
      BY <3>1, <3>2, <3>3, JumpsAre
  <2>3. Counts(js, F, z, n)
    BY <1>2, <2>2, WordsFromAre
  <2> QED
    BY <1>1, <2>1, <2>3 DEF Accepted, Counts
<1>6. ASSUME stage = "minimal"
      PROVE  Accepted(mdfa.jumps, mdfa.final_states)
               = {w \in Lang(jumps, Finals, 0) : Len(w) <= MaxWord}
  <2>1. PICK js, F : js = mdfa.jumps /\ F = mdfa.final_states
    OBVIOUS
  <2>2. /\ js \subseteq Jumps(Len(new_partition)) /\ F \subseteq Nat
        /\ Lang(js, F, 0) = Lang(jumps, Finals, 0)
    <3>1. Minimized(mdfa, Len(new_partition))
      BY <1>3, <1>6, MinimalAccepts DEF PartInv
    <3> QED
      BY <2>1, <3>1 DEF Minimized
  <2>3. /\ js \subseteq AllEdges /\ \A e \in js : e.gc \in Gen_chars
    <3>1. \A e \in js : e.gc \in Gen_chars
      BY <2>2 DEF Jumps
    <3> QED
      BY <2>2, <3>1, JumpsAre
  <2>4. Counts(js, F, z, n)
    BY <1>2, <2>2, <2>3, WordsFromAre
  <2> QED
    BY <1>1, <2>1, <2>2, <2>4 DEF Accepted, Counts
<1>7. stage = "refine" => Accepted(jumps, FinalStates(ndfa, sets))
                            = Spellings(Words(cmds, MaxWord))
  BY <1>4, <1>5 DEF Finals
<1>8. stage = "minimal" => Accepted(mdfa.jumps, mdfa.final_states)
                             = Spellings(Words(cmds, MaxWord))
  BY <1>4, <1>6
<1> QED
  BY <1>7, <1>8 DEF AcceptsExpression

LEMMA InitAccepts ==
  ASSUME Init PROVE AcceptInv
<1>1. stage = "text" /\ old_partition = <<>>
  BY DEF Init, DfaInit
<1>2. TypeInv
  BY InitTyped
<1> QED
  BY <1>1, <1>2 DEF AcceptInv, FollowInv, PartInv

-----------------------------------------------------------------------------
(* The automata accept what the expressions say.                           *)

LEMMA AcceptNext ==
  ASSUME AcceptInv, [Next]_vars
  PROVE  AcceptInv'
<1>1. CASE Next
  BY <1>1, StepAccepts
<1>2. CASE UNCHANGED vars
  <2>1. TypeInv'
    BY <1>2, TypedStutter DEF AcceptInv
  <2> QED
    BY <1>2, <2>1, AcceptKept
<1> QED
  BY <1>1, <1>2

(* Whatever is written and whichever commands are fused, the NDFA that     *)
(* generate_NDFA builds, the DFA that convert_NDFA_to_DFA makes of it and  *)
(* the one that minimize_DFA leaves after splitting the partition and      *)
(* renumbering the states accept, of the words of at most MaxWord          *)
(* characters, exactly those of the expression.                            *)
THEOREM ExpressionAlwaysAccepted == Spec => []AcceptsExpression
<1> QED
  BY InitAccepts, AcceptsIt, AcceptNext, PTL DEF Spec

-----------------------------------------------------------------------------
(* At the end of the minimization its automaton tells every two states     *)
(* apart, and its jumps lead to all of them.                               *)
LEMMA MinimizedImage ==
  ASSUME DfaInv, FollowInv, stage \notin {"text", "rejected"},
         Stable(new_partition, jumps, Finals, States),
         NEW m, m = minimize_DFA(new_partition, Finals, jumps),
         NEW n, n = Len(new_partition),
         NEW N, N = Len(sets), NEW F, F = Finals, NEW P, P = new_partition
  PROVE  \E G : /\ Image(G, jumps, F, N, m.jumps, m.final_states, n)
                /\ G[0] = 0 /\ Merges(G, P, N)
<1>1. PICK Z, js, H, E :
        /\ Z = States /\ js = jumps
        /\ H = FinalGroups(P, F) /\ E = minimal_DFA_jumps(P, js)
  OBVIOUS
<1>2. /\ N \in Nat /\ Z = 0 .. N - 1 /\ js \subseteq Jumps(N) /\ OneJump(js)
      /\ F \subseteq Z /\ 0 \in Z
  BY <1>1, FinalsAre, StatesAre DEF States, OneJump
<1>3. Stable(P, js, F, Z)
  BY <1>1
<1>4. PICK R : Splits(P, Z, R)
  BY <1>3 DEF Stable
<1>5. n \in Nat /\ DOMAIN P = 1 .. n
  <2>1. P \in Seq(SUBSET Z)
    BY <1>4 DEF Splits
  <2> QED
    BY <2>1
<1>6. PICK G : G = [s \in 0 .. N |-> IF s = N THEN n ELSE GroupOf(P, s) - 1]
  OBVIOUS
<1>7. Image(G, js, F, N, E, H, n) /\ Merges(G, P, N)
  <2>1. n = Len(P) /\ H = FinalGroups(P, F) /\ E = minimal_DFA_jumps(P, js)
    BY <1>1
  <2> QED
    BY ONLY <1>2, <1>3, <1>6, <2>1, GroupsImage
<1>8. PICK b : b = G[0]
  OBVIOUS
<1>9. b = GroupOf(P, 0) - 1
  <2>1. 0 \in 0 .. N /\ 0 # N
    BY <1>2
  <2> QED
    BY <1>6, <1>8, <2>1
<1>10. m = Reordered(n, b, H, E)
  BY <1>1, <1>9, Zenon DEF minimize_DFA, FinalGroups
<1>11. H \subseteq 0 .. n - 1
  BY <1>1, <1>5 DEF FinalGroups
<1>12. E \subseteq Jumps(n)
  <2>1. n = Len(P) /\ E = minimal_DFA_jumps(P, js)
    BY <1>1
  <2> QED
    BY ONLY <1>2, <1>4, <2>1, GroupEdgesTyped
<1>13. \E D : /\ Image(D, js, F, N, m.jumps, m.final_states, n)
              /\ D[0] = 0 /\ Merges(D, P, N)
  <2>1. N \in Nat /\ n \in Nat /\ js \subseteq Jumps(N) /\ 0 \in 0 .. N - 1
    BY <1>2, <1>5
  <2> QED
    BY ONLY <1>7, <1>8, <1>10, <1>11, <1>12, <2>1, RenumberedImage
<1> QED
  BY <1>1, <1>13

Discerns(m, n) ==
  AllApart(n, m.jumps, m.final_states) /\ LeadFrom(m.jumps, n)

LEMMA MinimizedDiscerns ==
  ASSUME AcceptInv, stage = "minimal", NEW n, n = Len(new_partition)
  PROVE  Minimized(mdfa, n) /\ Discerns(mdfa, n)
<1>1. PICK N, js, F, P, m :
        /\ N = Len(sets) /\ js = jumps /\ F = Finals
        /\ P = new_partition /\ m = mdfa
  OBVIOUS
<1>2. /\ DfaInv /\ FollowInv /\ stage \notin {"text", "rejected"}
      /\ Stable(new_partition, jumps, Finals, States)
      /\ m = minimize_DFA(new_partition, Finals, jumps)
      /\ Coarse(P, js, F, N)
  BY <1>1 DEF AcceptInv, TypeInv, PartInv
<1>3. Minimized(m, n)
  BY <1>2, MinimalAccepts
<1>4. PICK E, H : E = m.jumps /\ H = m.final_states
  OBVIOUS
<1>5. /\ n \in Nat /\ E \subseteq Jumps(n) /\ H \subseteq 0 .. n - 1 /\ OneJump(E)
  BY <1>3, <1>4 DEF Minimized
<1>6. /\ N \in Nat /\ js \subseteq Jumps(N) /\ OneJump(js)
      /\ F \subseteq 0 .. N - 1 /\ 0 \in 0 .. N - 1
  BY <1>1, <1>2, FinalsAre, StatesAre DEF States, OneJump
<1>7. PICK G : Image(G, js, F, N, E, H, n) /\ G[0] = 0 /\ Merges(G, P, N)
  BY <1>1, <1>2, <1>4, MinimizedImage
<1>8. LeadFrom(js, N)
  <2>1. Following(Built, ndfa, 0, Gen_chars)
    BY <1>2 DEF FollowInv
  <2>2. Built.jumps = jumps /\ Built.sets = sets
    BY DEF Built
  <2> QED
    BY <1>1, <2>1, <2>2 DEF Following
<1>9. AllApart(n, E, H)
  <2>1. Coarse(P, js, F, N)
    BY <1>2
  <2> QED
    BY ONLY <1>5, <1>6, <1>7, <2>1, ToldApart
<1>10. LeadFrom(E, n)
  BY ONLY <1>5, <1>6, <1>7, <1>8, ImageReached
<1> QED
  BY <1>1, <1>3, <1>4, <1>9, <1>10 DEF Discerns

LEMMA MinimalIs ==
  ASSUME AcceptInv
  PROVE  Minimal
<1>1. SUFFICES ASSUME stage = "minimal" PROVE Minimal
  BY Zenon DEF Minimal
<1>2. PICK n : n = Len(new_partition)
  OBVIOUS
<1>3. Minimized(mdfa, n) /\ Discerns(mdfa, n)
  BY <1>1, <1>2, MinimizedDiscerns
<1>4. PICK js : js = mdfa.jumps
  OBVIOUS
<1>5. /\ n \in Nat /\ n > 0 /\ mdfa.n = n /\ js \subseteq Jumps(n) /\ LeadFrom(js, n)
      /\ AllApart(mdfa.n, mdfa.jumps, mdfa.final_states)
  BY <1>3, <1>4 DEF Minimized, Discerns
<1>6. PICK f : f = CHOOSE g : IsReach(n, js, g)
  OBVIOUS
<1>7. f[n] = 0 .. n - 1
  BY ONLY <1>5, <1>6, ReachIs
<1>8. (CHOOSE g : IsReach(mdfa.n, mdfa.jumps, g))[mdfa.n] = 0 .. mdfa.n - 1
  BY <1>4, <1>5, <1>6, <1>7, Zenon
<1>9. AllApart(mdfa.n, mdfa.jumps, mdfa.final_states)
  BY <1>5
<1> QED
  BY <1>8, <1>9, Zenon DEF Minimal, AllApart, IsReach, Gone

(* The automaton that minimize_DFA leaves has no state it could do         *)
(* without: some word tells any two states apart, whatever split_group has *)
(* made of the groups and in whichever order, and every state is reached   *)
(* from the first one, which reordered_DFA has made of the group of the    *)
(* first.                                                                  *)
THEOREM MinimalAlways == Spec => []Minimal
<1> QED
  BY InitAccepts, MinimalIs, AcceptNext, PTL DEF Spec

-----------------------------------------------------------------------------
(* What a sum of categories stands for.                                    *)

LEMMA CategoryIs ==
  ASSUME NEW c \in Categories
  PROVE  /\ IsSet(c) => /\ Denotes(c) = c.s /\ c.s \subseteq Chars
                        /\ c # All_chars
         /\ ~IsSet(c) /\ c # All_chars
              => c = Not_single_quote \/ c = Not_double_quote
<1>1. CASE c = All_chars
  BY <1>1 DEF All_chars, Category, IsSet
<1>2. CASE c = Not_single_quote
  BY <1>2 DEF Not_single_quote, Category, IsSet
<1>3. CASE c = Not_double_quote
  BY <1>3 DEF Not_double_quote, Category, IsSet
<1>4. CASE \E s \in SUBSET Chars : c = Set_of_cs(s)
  <2>1. PICK s \in SUBSET Chars : c = Set_of_cs(s)
    BY <1>4
  <2>2. c.kind = "Set_of_cs" /\ c.s = s
    BY <2>1 DEF Set_of_cs
  <2>3. IsSet(c) /\ Denotes(c) = c.s
    BY <2>2 DEF IsSet, Denotes
  <2>4. c # All_chars
    BY <2>2 DEF All_chars, Category
  <2> QED
    BY <2>2, <2>3, <2>4
<1> QED
  BY <1>1, <1>2, <1>3, <1>4 DEF Categories

LEMMA QuotelessAre ==
  /\ Denotes(All_chars) = AnyChar
  /\ Denotes(Not_single_quote) = AnyChar \ {SingleQuote}
  /\ Denotes(Not_double_quote) = AnyChar \ {DoubleQuote}
  /\ Quote(Not_single_quote) = SingleQuote
  /\ Quote(Not_double_quote) = DoubleQuote
  /\ ~IsSet(All_chars) /\ ~IsSet(Not_single_quote) /\ ~IsSet(Not_double_quote)
  /\ Not_single_quote # All_chars /\ Not_double_quote # All_chars
  /\ Not_single_quote # Not_double_quote
<1>1. /\ All_chars.kind = "All_chars"
      /\ Not_single_quote.kind = "Not_single_quote"
      /\ Not_double_quote.kind = "Not_double_quote"
  BY DEF All_chars, Not_single_quote, Not_double_quote, Category
<1> QED
  BY <1>1 DEF Denotes, Quote, IsSet

LEMMA CharsAreAny ==
  /\ Chars \subseteq AnyChar /\ Unmentioned \in AnyChar
  /\ Unmentioned \notin Chars
  /\ SingleQuote \in Chars /\ DoubleQuote \in Chars
  /\ SingleQuote # DoubleQuote
<1>1. Unmentioned \notin Chars
  <2>1. Unmentioned \in Int /\ G_ndq \in Int /\ Unmentioned > G_ndq
    BY SMT DEF Unmentioned, G_ndq
  <2>2. Unmentioned \notin 1 .. G_ndq - 1
    BY <2>1
  <2> QED
    BY <2>2, CategoriesAssumption
<1>2. SingleQuote # DoubleQuote
  BY SMT DEF SingleQuote, DoubleQuote
<1> QED
  BY <1>1, <1>2, CategoriesAssumption DEF AnyChar

(* Without a set, and with one of the two.                                 *)
LEMMA PlusQuoteless ==
  ASSUME NEW c \in Categories, NEW d \in Categories, ~IsSet(c), ~IsSet(d)
  PROVE  /\ Plus(c, d) \in Categories
         /\ Denotes(Plus(c, d)) = Denotes(c) \cup Denotes(d)
<1>1. All_chars \in Categories
  BY DEF Categories
<1>2. CASE c = All_chars \/ d = All_chars
  <2>1. Plus(c, d) = All_chars
    BY <1>2 DEF Plus
  <2>2. Denotes(c) \subseteq AnyChar /\ Denotes(d) \subseteq AnyChar
    BY QuotelessAre, CategoryIs
  <2>3. Denotes(c) = AnyChar \/ Denotes(d) = AnyChar
    BY <1>2, QuotelessAre
  <2> QED
    BY <1>1, <2>1, <2>2, <2>3, QuotelessAre
<1>3. CASE c # All_chars /\ d # All_chars /\ c = d
  <2>1. Plus(c, d) = c
    BY <1>3 DEF Plus
  <2> QED
    BY <1>3, <2>1
<1>4. CASE c # All_chars /\ d # All_chars /\ c # d
  <2>1. Plus(c, d) = All_chars
    BY <1>4 DEF Plus
  <2>2. \/ c = Not_single_quote /\ d = Not_double_quote
        \/ c = Not_double_quote /\ d = Not_single_quote
    BY <1>4, CategoryIs
  <2>3. (AnyChar \ {SingleQuote}) \cup (AnyChar \ {DoubleQuote}) = AnyChar
    BY CharsAreAny
  <2> QED
    BY <1>1, <2>1, <2>2, <2>3, QuotelessAre
<1> QED
  BY <1>2, <1>3, <1>4

LEMMA PlusMixed ==
  ASSUME NEW c \in Categories, NEW d \in Categories, ~IsSet(c), IsSet(d)
  PROVE  LET p == IF c = All_chars \/ Quote(c) \in d.s THEN All_chars ELSE c
         IN p \in Categories /\ Denotes(p) = Denotes(c) \cup Denotes(d)
<1>1. All_chars \in Categories
  BY DEF Categories
<1>2. Denotes(d) = d.s /\ d.s \subseteq AnyChar
  BY CategoryIs, CharsAreAny
<1>3. CASE c = All_chars
  BY <1>1, <1>2, <1>3, QuotelessAre
<1>4. CASE c # All_chars
  <2>1. Denotes(c) = AnyChar \ {Quote(c)} /\ Quote(c) \in AnyChar
    BY <1>4, CategoryIs, QuotelessAre, CharsAreAny
  <2>2. CASE Quote(c) \in d.s
    BY <1>1, <1>2, <2>1, <2>2, QuotelessAre
  <2>3. CASE Quote(c) \notin d.s
    BY <1>2, <1>4, <2>1, <2>3
  <2> QED
    BY <2>2, <2>3
<1> QED
  BY <1>3, <1>4

(* A sum stands for what either does.                                      *)
LEMMA PlusIs ==
  ASSUME NEW c \in Categories, NEW d \in Categories
  PROVE  /\ Plus(c, d) \in Categories
         /\ Denotes(Plus(c, d)) = Denotes(c) \cup Denotes(d)
<1>1. CASE IsSet(c) /\ IsSet(d)
  <2>1. c # All_chars /\ d # All_chars
    BY <1>1, CategoryIs
  <2>2. Plus(c, d) = Set_of_cs(c.s \cup d.s)
    BY <1>1, <2>1 DEF Plus
  <2>3. c.s \cup d.s \in SUBSET Chars
    BY <1>1, CategoryIs
  <2>4. Set_of_cs(c.s \cup d.s) \in Categories
    BY <2>3 DEF Categories
  <2>5. Denotes(Set_of_cs(c.s \cup d.s)) = c.s \cup d.s
    BY DEF Set_of_cs, Denotes, IsSet
  <2> QED
    BY <1>1, <2>2, <2>4, <2>5, CategoryIs
<1>2. CASE ~IsSet(c) /\ ~IsSet(d)
  BY <1>2, PlusQuoteless
<1>3. CASE ~IsSet(c) /\ IsSet(d)
  <2>1. d # All_chars
    BY <1>3, CategoryIs
  <2>2. Plus(c, d) = IF c = All_chars \/ Quote(c) \in d.s THEN All_chars ELSE c
    BY <1>3, <2>1 DEF Plus
  <2> QED
    BY <1>3, <2>2, PlusMixed
<1>4. CASE IsSet(c) /\ ~IsSet(d)
  <2>1. c # All_chars
    BY <1>4, CategoryIs
  <2>2. Plus(c, d) = IF d = All_chars \/ Quote(d) \in c.s THEN All_chars ELSE d
    BY <1>4, <2>1 DEF Plus
  <2> QED
    BY <1>4, <2>2, PlusMixed
<1> QED
  BY <1>1, <1>2, <1>3, <1>4

LEMMA QuotesApart == G_ndq # G_nsq
BY SMT DEF G_ndq, G_nsq

(* A generalized character covers some character.                          *)
LEMMA CoversIs ==
  ASSUME NEW gc \in Gen_chars
  PROVE  /\ gc2category(gc) \in Categories /\ Covers(gc) \subseteq AnyChar
         /\ Covers(gc) # {}
<1>1. CASE gc = G_ndq
  <2>1. gc2category(gc) = Not_double_quote
    BY <1>1, QuotesApart DEF gc2category
  <2> QED
    BY <2>1, QuotelessAre, CharsAreAny DEF Covers, Categories
<1>2. CASE gc = G_nsq
  <2>1. gc # G_ndq
    BY <1>2, QuotesApart
  <2>2. gc2category(gc) = Not_single_quote
    BY <1>2, <2>1 DEF gc2category
  <2> QED
    BY <2>2, QuotelessAre, CharsAreAny DEF Covers, Categories
<1>3. CASE gc # G_ndq /\ gc # G_nsq
  <2>1. gc \in Chars /\ gc2category(gc) = Set_of_cs({gc})
    BY <1>3 DEF gc2category, Gen_chars
  <2>2. Set_of_cs({gc}) \in Categories
    BY <2>1 DEF Categories
  <2>3. Denotes(Set_of_cs({gc})) = {gc}
    BY DEF Denotes, Set_of_cs, IsSet
  <2> QED
    BY <2>1, <2>2, <2>3, CharsAreAny DEF Covers
<1> QED
  BY <1>1, <1>2, <1>3

-----------------------------------------------------------------------------
IsSum(G, f) ==
  f = [k \in 0 .. Cardinality(G) |->
         IF k = 0 THEN Set_of_cs({})
         ELSE Plus(f[k - 1], gc2category(InOrder(G)[k]))]

(* What the first k of the characters s cover.                             *)
CoveredBy(s, k) == {ch \in AnyChar : \E i \in 1 .. k : ch \in Covers(s[i])}
SummedUp(s, k) == {c \in Categories : Denotes(c) = CoveredBy(s, k)}

LEMMA SumStep ==
  ASSUME NEW s, NEW k \in Nat, s[k + 1] \in Gen_chars, NEW c \in SummedUp(s, k)
  PROVE  Plus(c, gc2category(s[k + 1])) \in SummedUp(s, k + 1)
<1>1. PICK d, g : d = gc2category(g) /\ g = s[k + 1]
  OBVIOUS
<1>2. /\ g \in Gen_chars /\ d \in Categories /\ Denotes(d) = Covers(g)
      /\ Covers(g) \subseteq AnyChar
  BY <1>1, CoversIs DEF Covers
<1>3. c \in Categories /\ Denotes(c) = CoveredBy(s, k)
  BY DEF SummedUp
<1>4. Plus(c, d) \in Categories /\ Denotes(Plus(c, d)) = Denotes(c) \cup Denotes(d)
  BY <1>2, <1>3, PlusIs
<1>5. CoveredBy(s, k + 1) = CoveredBy(s, k) \cup Covers(g)
  <2>1. \A i : i \in 1 .. k + 1 <=> i \in 1 .. k \/ i = k + 1
    OBVIOUS
  <2> QED
    BY <1>1, <1>2, <2>1 DEF CoveredBy
<1> QED
  BY <1>1, <1>2, <1>3, <1>4, <1>5 DEF SummedUp

LEMMA SumIs ==
  ASSUME NEW G, G \subseteq Gen_chars
  PROVE  /\ SumOf(G) \in Categories
         /\ \A ch : ch \in Denotes(SumOf(G)) <=> \E g \in G : ch \in Covers(g)
<1>1. PICK n, z, s : n = Cardinality(G) /\ z = 0 /\ s = InOrder(G)
  OBVIOUS
<1>2. /\ s \in Seq(G) /\ Len(s) = n /\ n \in Nat
      /\ \A x \in G : \E i \in 1 .. n : s[i] = x
  <2>1. G \subseteq Nat /\ IsFiniteSet(G)
    <3>1. Gen_chars \subseteq Nat /\ IsFiniteSet(Gen_chars)
      BY CharsFinite
    <3> QED
      BY <3>1, FS_Subset
  <2> QED
    BY <1>1, <2>1, InOrderAll, InOrderIs
<1>3. z \in Nat /\ z \in z .. n /\ n \in z .. n
  BY <1>1, <1>2
<1>4. PICK X : X = [k \in z .. n |-> SummedUp(s, k)]
  OBVIOUS
<1>5. \A k \in z .. n : X[k] = SummedUp(s, k)
  BY <1>4
<1>6. Set_of_cs({}) \in X[z]
  <2>1. CoveredBy(s, z) = {}
    BY <1>1 DEF CoveredBy
  <2>2. Set_of_cs({}) \in Categories
    BY DEF Categories
  <2>3. Denotes(Set_of_cs({})) = {}
    BY DEF Denotes, Set_of_cs, IsSet
  <2> QED
    BY <1>3, <1>5, <2>1, <2>2, <2>3 DEF SummedUp
<1>7. ASSUME NEW k \in z + 1 .. n, NEW c \in X[k - 1]
      PROVE  Plus(c, gc2category(s[k])) \in X[k]
  <2>1. PICK j : j = k - 1
    OBVIOUS
  <2>2. j \in Nat /\ j + 1 = k /\ j \in z .. n /\ k \in z .. n /\ k \in 1 .. n
    BY <1>1, <1>2, <2>1
  <2>3. s[j + 1] \in Gen_chars
    BY <1>2, <2>2
  <2>4. c \in SummedUp(s, j)
    BY <1>5, <2>1, <2>2
  <2>5. Plus(c, gc2category(s[j + 1])) \in SummedUp(s, j + 1)
    BY <2>2, <2>3, <2>4, SumStep
  <2> QED
    BY <1>5, <2>2, <2>5
<1>8. \E f : IsSum(G, f)
  <2>1. PICK H : H = [k \in z .. n |-> [c \in X[k - 1] |->
                        Plus(c, gc2category(s[k]))]]
    OBVIOUS
  <2>2. \A k \in z + 1 .. n : \A c \in X[k - 1] :
          H[k][c] = Plus(c, gc2category(s[k]))
    <3>1. \A k \in z + 1 .. n : k \in z .. n
      BY <1>1
    <3> QED
      BY <2>1, <3>1
  <2>3. \A k \in z + 1 .. n : \A c \in X[k - 1] : H[k][c] \in X[k]
    BY <1>7, <2>2
  <2>4. PICK b : b = Set_of_cs({}) /\ b \in X[z]
    BY <1>6
  <2>5. PICK f : Steps(f, H, b, z, n) /\ \A k \in z .. n : f[k] \in X[k]
    <3>1. \E f : Steps(f, H, b, z, n) /\ \A k \in z .. n : f[k] \in X[k]
      <4>1. z \in Nat /\ n \in Nat /\ b \in X[z]
        BY <1>2, <1>3, <2>4
      <4> QED
        BY ONLY <2>3, <4>1, StepsExist
    <3> QED
      BY <3>1
  <2>6. ASSUME NEW k \in z .. n
        PROVE  f[k] = IF k = 0 THEN Set_of_cs({})
                      ELSE Plus(f[k - 1], gc2category(s[k]))
    <3>1. f[k] = IF k = z THEN b ELSE H[k][f[k - 1]]
      BY <2>5 DEF Steps
    <3>2. k # z => k \in z + 1 .. n /\ k - 1 \in z .. n
      BY <1>2, <1>3
    <3> QED
      BY <1>1, <2>2, <2>4, <2>5, <3>1, <3>2
  <2>7. f = [k \in z .. n |-> f[k]]
    BY <2>5 DEF Steps
  <2>8. f = [k \in z .. n |-> IF k = 0 THEN Set_of_cs({})
                              ELSE Plus(f[k - 1], gc2category(s[k]))]
    BY <2>6, <2>7, Zenon
  <2>9. IsSum(G, f)
    BY <1>1, <2>8, Zenon DEF IsSum
  <2> QED
    BY <2>9
<1>9. PICK f : f = CHOOSE h : IsSum(G, h)
  OBVIOUS
<1>10. IsSum(G, f) /\ SumOf(G) = f[n]
  <2>1. IsSum(G, f)
    BY <1>8, <1>9, Zenon
  <2> QED
    BY <1>1, <1>9, <2>1, Zenon DEF SumOf, IsSum
<1>11. f[n] \in SummedUp(s, n)
  <2>1. f = [k \in z .. n |-> IF k = 0 THEN Set_of_cs({})
                              ELSE Plus(f[k - 1], gc2category(s[k]))]
    BY <1>1, <1>10, Zenon DEF IsSum
  <2>2. ASSUME NEW k \in z .. n, \A j \in z .. k - 1 : f[j] \in X[j]
        PROVE  f[k] \in X[k]
    <3>1. f[k] = IF k = 0 THEN Set_of_cs({})
                 ELSE Plus(f[k - 1], gc2category(s[k]))
      BY <2>1
    <3>2. CASE k = z
      BY <1>1, <1>6, <3>1, <3>2
    <3>3. CASE k # z
      <4>1. k \in z + 1 .. n /\ k - 1 \in z .. k - 1 /\ k # 0
        BY <1>1, <3>3
      <4> QED
        BY <1>7, <2>2, <3>1, <4>1
    <3> QED
      BY <3>2, <3>3
  <2>3. \A k \in z .. n : f[k] \in X[k]
    BY <1>2, <1>3, <2>2, RecursionTyped
  <2> QED
    BY <1>3, <1>5, <2>3
<1>12. CoveredBy(s, n) = {ch \in AnyChar : \E g \in G : ch \in Covers(g)}
  <2>1. \A i \in 1 .. n : s[i] \in G
    BY <1>2
  <2> QED
    BY <1>2, <2>1 DEF CoveredBy
<1>13. \A g \in G : Covers(g) \subseteq AnyChar
  BY CoversIs
<1> QED
  BY <1>10, <1>11, <1>12, <1>13 DEF SummedUp

-----------------------------------------------------------------------------
(* The branches of a state: the jump the generated automaton makes.        *)
Target(e) == [st |-> e.to, act |-> e.act]
Onto(js, t) == {e.gc : e \in {f \in js : f.to = t.st /\ f.act = t.act}}
Branch(js, t) == SumOf(Onto(js, t))
Targets(js) == {Target(e) : e \in js}
Outranks(t, u) == t.st > u.st \/ (t.st = u.st /\ t.act >= u.act)

LEMMA BranchIs ==
  ASSUME NEW n, NEW js, js \subseteq Jumps(n), NEW e \in js
  PROVE  \A ch : ch \in Denotes(Branch(js, Target(e)))
                   <=> \E f \in js : Target(f) = Target(e) /\ ch \in Covers(f.gc)
<1>1. PICK t : t = Target(e)
  OBVIOUS
<1>2. \A f : Target(f) = t <=> f.to = t.st /\ f.act = t.act
  BY <1>1 DEF Target
<1>3. Onto(js, t) \subseteq Gen_chars
  BY DEF Onto, Jumps
<1>4. \A ch : ch \in Denotes(Branch(js, t))
                <=> \E g \in Onto(js, t) : ch \in Covers(g)
  BY <1>3, SumIs DEF Branch
<1> QED
  BY <1>1, <1>2, <1>4 DEF Onto

(* What the branch of a state takes is what one of its jumps covers, and   *)
(* leads where that jump does: no character is covered by two of them.     *)
Taken(js, g, ch) ==
  /\ \A c \in DOMAIN g : ch \in Denotes(c) =>
       \E e \in js : /\ ch \in Covers(e.gc)
                     /\ g[c] = Target(e) /\ c = Branch(js, Target(e))
  /\ \A e \in js : ch \in Covers(e.gc) =>
       \E c \in DOMAIN g : ch \in Denotes(c)

LEMMA BranchTaken ==
  ASSUME NEW n, NEW js, js \subseteq Jumps(n),
         \A e, f \in js : Covers(e.gc) \cap Covers(f.gc) # {} => e = f,
         NEW g, g = fuse_state_jumps(js), NEW ch
  PROVE  Taken(js, g, ch)
<1>1. /\ DOMAIN g = {Branch(js, t) : t \in Targets(js)}
      /\ \A c \in DOMAIN g :
           g[c] = CHOOSE t \in Targets(js) :
                    /\ Branch(js, t) = c
                    /\ \A u \in Targets(js) : Branch(js, u) = c => Outranks(t, u)
  <2>1. g = [c \in {Branch(js, t) : t \in Targets(js)} |->
               CHOOSE t \in Targets(js) :
                 /\ Branch(js, t) = c
                 /\ \A u \in Targets(js) : Branch(js, u) = c => Outranks(t, u)]
    BY Zenon DEF fuse_state_jumps, Branch, Onto, Targets, Target, Outranks
  <2> QED
    BY <2>1, Zenon
<1>2. \A t : t \in Targets(js) <=> \E e \in js : t = Target(e)
  BY DEF Targets
<1>3. ASSUME NEW t \in Targets(js), NEW e \in js, ch \in Covers(e.gc),
             ch \in Denotes(Branch(js, t))
      PROVE  t = Target(e)
  <2>1. PICK d \in js : t = Target(d)
    BY <1>2
  <2>2. PICK f \in js : Target(f) = t /\ ch \in Covers(f.gc)
    BY <1>3, <2>1, BranchIs
  <2>3. f = e
    BY <1>3, <2>2
  <2> QED
    BY <2>2, <2>3
<1>4. ASSUME NEW e \in js, ch \in Covers(e.gc)
      PROVE  \E c \in DOMAIN g : ch \in Denotes(c)
  <2>1. Target(e) \in Targets(js)
    BY <1>2
  <2>2. ch \in Denotes(Branch(js, Target(e)))
    BY <1>4, BranchIs
  <2> QED
    BY <1>1, <2>1, <2>2
<1>5. ASSUME NEW c \in DOMAIN g, ch \in Denotes(c)
      PROVE  \E e \in js : /\ ch \in Covers(e.gc)
                            /\ g[c] = Target(e) /\ c = Branch(js, Target(e))
  <2>1. PICK t \in Targets(js) : c = Branch(js, t)
    BY <1>1
  <2>2. PICK d \in js : t = Target(d)
    BY <1>2
  <2>3. PICK e \in js : Target(e) = t /\ ch \in Covers(e.gc)
    BY <1>5, <2>1, <2>2, BranchIs
  <2>4. \A u \in Targets(js) : Branch(js, u) = c => u = t
    BY <1>3, <1>5, <2>3
  <2>5. Outranks(t, t)
    <3>1. e.to \in Nat /\ e.act \in Nat
      BY DEF Jumps
    <3> QED
      BY <2>3, <3>1 DEF Outranks, Target
  <2>6. \E u \in Targets(js) :
          /\ Branch(js, u) = c
          /\ \A v \in Targets(js) : Branch(js, v) = c => Outranks(u, v)
    BY <2>1, <2>4, <2>5
  <2>7. g[c] \in Targets(js) /\ Branch(js, g[c]) = c
    BY <1>1, <2>6, Zenon
  <2> QED
    BY <2>1, <2>3, <2>4, <2>7
<1> QED
  BY <1>4, <1>5 DEF Taken

-----------------------------------------------------------------------------
LEMMA CaseIs ==
  ASSUME NEW n, NEW js, js \subseteq Jumps(n),
         mdfa.n = n, mdfa.jumps = js, gdfa = fuse_DFA_jumps(mdfa), Unambiguous,
         \A e, f \in js : e.from = f.from /\ e.gc = f.gc => e = f,
         NEW s \in 0 .. n - 1, NEW ch
  PROVE  \A t : t \in automata_repres_case(s, ch)
                  <=> \E e \in js : /\ e.from = s /\ ch \in Covers(e.gc)
                                    /\ t = Target(e)
<1>1. PICK J, g : J = {e \in js : e.from = s} /\ g = gdfa[s]
  OBVIOUS
<1>2. g = fuse_state_jumps(J)
  BY <1>1, Zenon DEF fuse_DFA_jumps
<1>3. J \subseteq Jumps(n)
  BY <1>1
<1>4. \A e, f \in J : Covers(e.gc) \cap Covers(f.gc) # {} => e = f
  BY <1>1 DEF Unambiguous
<1>5. PICK open : open = {c \in DOMAIN g : ch \in Denotes(c)}
  OBVIOUS
<1>6. automata_repres_case(s, ch)
        = IF open = {} THEN {}
          ELSE {g[CHOOSE c \in open : \A d \in open : Rank(c) <= Rank(d)]}
  <2>1. automata_repres_case(s, ch)
          = IF {c \in DOMAIN gdfa[s] : ch \in Denotes(c)} = {} THEN {}
            ELSE {gdfa[s][CHOOSE c \in {b \in DOMAIN gdfa[s] : ch \in Denotes(b)} :
                            \A d \in {b \in DOMAIN gdfa[s] : ch \in Denotes(b)} :
                              Rank(c) <= Rank(d)]}
    BY Zenon DEF automata_repres_case
  <2>2. open = {c \in DOMAIN gdfa[s] : ch \in Denotes(c)} /\ g = gdfa[s]
    BY <1>1, <1>5
  <2> QED
    BY ONLY <2>1, <2>2, Zenon
<1>7. Taken(J, g, ch)
  BY ONLY <1>2, <1>3, <1>4, BranchTaken
<1>8. CASE open = {}
  <2>1. \A e \in J : ch \notin Covers(e.gc)
    BY <1>5, <1>7, <1>8 DEF Taken
  <2> QED
    BY <1>1, <1>6, <1>8, <2>1
<1>9. CASE open # {}
  <2>1. PICK c \in open : TRUE
    BY <1>9
  <2>2. PICK e \in J : /\ ch \in Covers(e.gc)
                       /\ g[c] = Target(e) /\ c = Branch(J, Target(e))
    BY <1>5, <1>7, <2>1 DEF Taken
  <2>3. \A f \in J : ch \in Covers(f.gc) => f = e
    BY <1>4, <2>2
  <2>4. \A d \in open : d = c
    BY <1>5, <1>7, <2>2, <2>3 DEF Taken
  <2>5. Rank(c) <= Rank(c)
    BY DEF Rank
  <2>6. (CHOOSE b \in open : \A d \in open : Rank(b) <= Rank(d)) = c
    BY <2>1, <2>4, <2>5
  <2>7. automata_repres_case(s, ch) = {Target(e)}
    BY <1>6, <1>9, <2>2, <2>6
  <2> QED
    BY <1>1, <2>2, <2>3, <2>7
<1> QED
  BY <1>8, <1>9

(* The words accepted from a state, by their first letters.                *)
Continues(js, F, s, w) ==
  \E e \in js : \E v \in Lang(js, F, e.to) : e.from = s /\ w = <<e.gc>> \o v
Unfolds(js, F, s, w) == (w = <<>> /\ s \in F) \/ Continues(js, F, s, w)

LEMMA LangUnfolds ==
  ASSUME NEW js, js \subseteq AllEdges, \A e \in js : e.gc \in Gen_chars,
         NEW F, F \subseteq Nat, NEW s \in Nat
  PROVE  \A w : w \in Lang(js, F, s) <=> Unfolds(js, F, s, w)
<1>1. PICK M, N : M = [t \in Nat |-> Lang(js, F, t)] /\ N = Longer(js, F, M)
  OBVIOUS
<1>2. /\ \A t : Lang(js, F, t) \subseteq Strings
      /\ \A f \in F : <<>> \in Lang(js, F, f)
      /\ \A e \in js : \A v \in Lang(js, F, e.to) :
           Prefixed(e.gc, v) \in Lang(js, F, e.from)
  BY LangIs
<1>3. M \in Families
  BY <1>1, <1>2 DEF Families
<1>4. N \in Families
  BY <1>1, <1>3, LongerFamily
<1>5. \A e \in js : e.from \in Nat /\ e.to \in Nat /\ e.gc # Epsilon
  BY CharsFinite DEF AllEdges
<1>6. \A e \in js : M[e.to] = Lang(js, F, e.to)
  BY <1>1, <1>5
<1>7. ASSUME NEW t \in Nat
      PROVE  N[t] = {w \in {<<>>} : t \in F}
                    \cup UNION {{<<e.gc>> \o w : w \in M[e.to]} :
                                e \in {d \in js : d.from = t}}
  BY <1>1 DEF Longer
<1>8. ASSUME NEW t \in Nat, NEW w \in N[t] PROVE Unfolds(js, F, t, w)
  <2>1. CASE w \in {v \in {<<>>} : t \in F}
    BY <2>1 DEF Unfolds
  <2>2. CASE w \in UNION {{<<e.gc>> \o v : v \in M[e.to]} :
                          e \in {d \in js : d.from = t}}
    <3>1. PICK e \in js : e.from = t /\ w \in {<<e.gc>> \o v : v \in M[e.to]}
      BY <2>2, Zenon
    <3>2. PICK v \in M[e.to] : w = <<e.gc>> \o v
      BY <3>1, Zenon
    <3>3. v \in Lang(js, F, e.to)
      BY <1>6
    <3>4. Continues(js, F, t, w)
      BY <3>1, <3>2, <3>3, Zenon DEF Continues
    <3> QED
      BY <3>4 DEF Unfolds
  <2> QED
    BY <1>7, <1>8, <2>1, <2>2
<1>9. ASSUME NEW t, NEW w, Unfolds(js, F, t, w) PROVE w \in Lang(js, F, t)
  <2>1. CASE w = <<>> /\ t \in F
    BY <1>2, <2>1
  <2>2. CASE Continues(js, F, t, w)
    <3>1. PICK e \in js : \E v \in Lang(js, F, e.to) :
               e.from = t /\ w = <<e.gc>> \o v
      BY <2>2, Zenon DEF Continues
    <3>2. PICK v \in Lang(js, F, e.to) : e.from = t /\ w = <<e.gc>> \o v
      BY <3>1
    <3>3. Prefixed(e.gc, v) = w
      BY <1>5, <3>2 DEF Prefixed
    <3> QED
      BY <1>2, <3>2, <3>3
  <2> QED
    BY <1>9, <2>1, <2>2 DEF Unfolds
<1>10. Follows(js, F, N)
  <2>1. \A f \in F : <<>> \in N[f]
    BY <1>7
  <2>2. ASSUME NEW e \in js, NEW w \in N[e.to]
        PROVE  Prefixed(e.gc, w) \in N[e.from]
    <3>1. w \in M[e.to]
      BY <1>5, <1>6, <1>8, <1>9
    <3>2. PICK S : S = {<<e.gc>> \o v : v \in M[e.to]}
      OBVIOUS
    <3>3. <<e.gc>> \o w \in S
      BY <3>1, <3>2
    <3>4. S \in {{<<d.gc>> \o v : v \in M[d.to]} :
                 d \in {d \in js : d.from = e.from}}
      BY <3>2, Zenon
    <3>5. <<e.gc>> \o w \in N[e.from]
      BY <1>5, <1>7, <3>3, <3>4, Zenon
    <3>6. Prefixed(e.gc, w) = <<e.gc>> \o w
      BY <1>5 DEF Prefixed
    <3> QED
      BY <3>5, <3>6
  <2> QED
    BY <2>1, <2>2 DEF Follows
<1>11. \A w \in Lang(js, F, s) : w \in N[s]
  BY <1>4, <1>10, LangLeast
<1> QED
  BY <1>8, <1>9, <1>11

-----------------------------------------------------------------------------
(* The strings that the generated automaton takes.                         *)

InstanceOf(ch, x) ==
  Len(ch) = Len(x) /\ \A k \in DOMAIN x : ch[k] \in Covers(x[k])
Taking(js, F, s, k) ==
  {ch \in Seq(AnyChar) :
     Len(ch) = k /\ \E w \in Lang(js, F, s) : InstanceOf(ch, w)}

Grouped(n, js, F) ==
  /\ n \in Nat /\ js \subseteq Jumps(n) /\ F \subseteq 0 .. n - 1
  /\ \A e, f \in js : e.from = f.from /\ e.gc = f.gc => e = f
  /\ mdfa.n = n /\ mdfa.jumps = js /\ mdfa.final_states = F
  /\ gdfa = fuse_DFA_jumps(mdfa) /\ Unambiguous

LEMMA InstanceMore ==
  ASSUME NEW c \in AnyChar, NEW v \in Seq(AnyChar),
         NEW g \in Gen_chars, NEW x \in Strings
  PROVE  InstanceOf(<<c>> \o v, <<g>> \o x)
           <=> c \in Covers(g) /\ InstanceOf(v, x)
<1>1. PICK a, b : a = <<c>> \o v /\ b = <<g>> \o x
  OBVIOUS
<1>2. /\ Len(v) \in Nat /\ Len(x) \in Nat /\ DOMAIN x = 1 .. Len(x)
      /\ Len(a) = Len(v) + 1 /\ Len(b) = Len(x) + 1 /\ DOMAIN b = 1 .. Len(b)
      /\ a[1] = c /\ b[1] = g
      /\ \A k \in 1 .. Len(v) : a[k + 1] = v[k]
      /\ \A k \in 1 .. Len(x) : b[k + 1] = x[k]
  BY <1>1 DEF Strings
<1>3. ASSUME InstanceOf(a, b) PROVE c \in Covers(g) /\ InstanceOf(v, x)
  <2>1. Len(v) = Len(x) /\ \A k \in 1 .. Len(b) : a[k] \in Covers(b[k])
    BY <1>2, <1>3 DEF InstanceOf
  <2>2. 1 \in 1 .. Len(b) /\ \A k \in 1 .. Len(x) : k + 1 \in 1 .. Len(b)
    BY <1>2
  <2>3. \A k \in 1 .. Len(x) : v[k] \in Covers(x[k])
    BY <1>2, <2>1, <2>2
  <2> QED
    BY <1>2, <2>1, <2>2, <2>3 DEF InstanceOf
<1>4. ASSUME c \in Covers(g), InstanceOf(v, x) PROVE InstanceOf(a, b)
  <2>1. Len(v) = Len(x) /\ \A k \in 1 .. Len(x) : v[k] \in Covers(x[k])
    BY <1>2, <1>4 DEF InstanceOf
  <2>2. ASSUME NEW k \in 1 .. Len(b) PROVE a[k] \in Covers(b[k])
    <3>1. CASE k = 1
      BY <1>2, <1>4, <3>1
    <3>2. CASE k # 1
      <4>1. PICK j : j = k - 1
        OBVIOUS
      <4>2. j \in 1 .. Len(x) /\ k = j + 1
        BY <1>2, <3>2, <4>1
      <4> QED
        BY <1>2, <2>1, <4>2
    <3> QED
      BY <3>1, <3>2
  <2> QED
    BY <1>2, <2>1, <2>2 DEF InstanceOf
<1> QED
  BY <1>1, <1>3, <1>4

LEMMA FirstLetter ==
  ASSUME NEW S, NEW k \in Nat, NEW ch \in Seq(S), Len(ch) = k + 1
  PROVE  \E c \in S : \E v \in Seq(S) : ch = <<c>> \o v /\ Len(v) = k
<1>1. ch[1] \in S /\ Tail(ch) \in Seq(S) /\ Len(Tail(ch)) = k
  OBVIOUS
<1>2. ch = <<ch[1]>> \o Tail(ch)
  OBVIOUS
<1> QED
  BY <1>1, <1>2

(* A string one longer begins with what a jump covers.                     *)
LedBy(js, F, s, k, y) ==
  \E c \in AnyChar : \E t \in automata_repres_case(s, c) :
    \E v \in Taking(js, F, t.st, k) : y = <<c>> \o v

LEMMA TakingMore ==
  ASSUME NEW n, NEW js, NEW F, Grouped(n, js, F),
         NEW s \in 0 .. n - 1, NEW k \in Nat
  PROVE  \A y : y \in Taking(js, F, s, k + 1) <=> LedBy(js, F, s, k, y)
<1>1. /\ n \in Nat /\ js \subseteq Jumps(n) /\ F \subseteq Nat /\ s \in Nat
      /\ js \subseteq AllEdges /\ \A e \in js : e.gc \in Gen_chars
      /\ \A t : Lang(js, F, t) \subseteq Strings
  <2>1. js \subseteq Jumps(n) /\ n \in Nat /\ F \subseteq Nat /\ s \in Nat
    BY DEF Grouped
  <2>2. js \subseteq AllEdges
    BY <2>1, JumpsAre
  <2> QED
    BY <2>1, <2>2, LangIs DEF Jumps
<1>2. \A c : \A t : t \in automata_repres_case(s, c)
                      <=> \E e \in js : /\ e.from = s /\ c \in Covers(e.gc)
                                        /\ t = Target(e)
  BY CaseIs DEF Grouped
<1>3. \A w : w \in Lang(js, F, s) <=> Unfolds(js, F, s, w)
  BY <1>1, LangUnfolds
<1>4. ASSUME NEW y \in Taking(js, F, s, k + 1)
      PROVE  \E c \in AnyChar : \E t \in automata_repres_case(s, c) :
               \E v \in Taking(js, F, t.st, k) : y = <<c>> \o v
  <2>1. y \in Seq(AnyChar) /\ Len(y) = k + 1
    BY DEF Taking
  <2>2. PICK w \in Lang(js, F, s) : InstanceOf(y, w)
    BY DEF Taking
  <2>3. PICK c \in AnyChar : \E v \in Seq(AnyChar) : y = <<c>> \o v /\ Len(v) = k
    BY <2>1, FirstLetter
  <2>4. PICK v \in Seq(AnyChar) : y = <<c>> \o v /\ Len(v) = k
    BY <2>3
  <2>5. w # <<>>
    BY <2>1, <2>2 DEF InstanceOf
  <2>6. Continues(js, F, s, w)
    BY <1>3, <2>5 DEF Unfolds
  <2>7. PICK e \in js : \E x \in Lang(js, F, e.to) :
          e.from = s /\ w = <<e.gc>> \o x
    BY <2>6, Zenon DEF Continues
  <2>8. PICK x \in Lang(js, F, e.to) : e.from = s /\ w = <<e.gc>> \o x
    BY <2>7
  <2>9. x \in Strings /\ e.gc \in Gen_chars
    BY <1>1
  <2>10. InstanceOf(<<c>> \o v, <<e.gc>> \o x)
    BY <2>2, <2>4, <2>8
  <2>11. c \in Covers(e.gc) /\ InstanceOf(v, x)
    BY <2>9, <2>10, InstanceMore
  <2>12. v \in Taking(js, F, e.to, k)
    BY <2>4, <2>11 DEF Taking
  <2>13. Target(e) \in automata_repres_case(s, c) /\ Target(e).st = e.to
    BY <1>2, <2>8, <2>11 DEF Target
  <2> QED
    BY <2>4, <2>12, <2>13
<1>5. ASSUME NEW y, NEW c \in AnyChar, NEW t \in automata_repres_case(s, c),
             NEW v \in Taking(js, F, t.st, k), y = <<c>> \o v
      PROVE  y \in Taking(js, F, s, k + 1)
  <2>1. PICK e \in js : e.from = s /\ c \in Covers(e.gc) /\ t = Target(e)
    BY <1>2
  <2>2. t.st = e.to
    BY <2>1 DEF Target
  <2>3. v \in Seq(AnyChar) /\ Len(v) = k
    BY DEF Taking
  <2>4. PICK x \in Lang(js, F, e.to) : InstanceOf(v, x)
    BY <2>2 DEF Taking
  <2>5. x \in Strings /\ e.gc \in Gen_chars
    BY <1>1
  <2>6. InstanceOf(<<c>> \o v, <<e.gc>> \o x)
    BY <2>1, <2>3, <2>4, <2>5, InstanceMore
  <2>7. <<e.gc>> \o x \in Lang(js, F, s)
    <3>1. Continues(js, F, s, <<e.gc>> \o x)
      BY <2>1, Zenon DEF Continues
    <3> QED
      BY <1>3, <3>1 DEF Unfolds
  <2>8. y \in Seq(AnyChar) /\ Len(y) = k + 1
    BY <1>5, <2>3
  <2> QED
    BY <1>5, <2>6, <2>7, <2>8 DEF Taking
<1> QED
  BY <1>4, <1>5 DEF LedBy

LEMMA TakingNothing ==
  ASSUME NEW n, NEW js, NEW F, Grouped(n, js, F), NEW s \in 0 .. n - 1
  PROVE  Taking(js, F, s, 0) = {w \in {<<>>} : s \in F}
<1>1. /\ js \subseteq AllEdges /\ \A e \in js : e.gc \in Gen_chars
      /\ F \subseteq Nat /\ s \in Nat
  <2>1. js \subseteq Jumps(n) /\ n \in Nat /\ F \subseteq Nat /\ s \in Nat
    BY DEF Grouped
  <2>2. js \subseteq AllEdges
    BY <2>1, JumpsAre
  <2> QED
    BY <2>1, <2>2 DEF Jumps
<1>2. \A w : w \in Lang(js, F, s) <=> Unfolds(js, F, s, w)
  BY <1>1, LangUnfolds
<1>3. \A t : Lang(js, F, t) \subseteq Strings
  BY <1>1, LangIs
<1>4. ASSUME NEW y \in Taking(js, F, s, 0) PROVE y = <<>> /\ s \in F
  <2>1. y \in Seq(AnyChar) /\ Len(y) = 0
    BY DEF Taking
  <2>2. PICK w \in Lang(js, F, s) : InstanceOf(y, w)
    BY DEF Taking
  <2>3. w \in Seq(Gen_chars) /\ Len(w) = 0
    BY <1>3, <2>1, <2>2 DEF InstanceOf, Strings
  <2>4. ~Continues(js, F, s, w)
    <3>1. ASSUME NEW e \in js, NEW v \in Lang(js, F, e.to), w = <<e.gc>> \o v
          PROVE  FALSE
      <4>1. v \in Seq(Gen_chars) /\ e.gc \in Gen_chars
        BY <1>1, <1>3 DEF Strings
      <4> QED
        BY <2>3, <3>1, <4>1
    <3> QED
      BY <3>1 DEF Continues
  <2> QED
    BY <1>2, <2>1, <2>4 DEF Unfolds
<1>5. ASSUME s \in F PROVE <<>> \in Taking(js, F, s, 0)
  <2>1. <<>> \in Lang(js, F, s)
    BY <1>2, <1>5 DEF Unfolds
  <2>2. InstanceOf(<<>>, <<>>)
    BY DEF InstanceOf
  <2> QED
    BY <2>1, <2>2 DEF Taking
<1> QED
  BY <1>4, <1>5

-----------------------------------------------------------------------------
(* The table that Scanned fills, row by row.                               *)

ScanMore(h) ==
  [s \in DOMAIN gdfa |->
     UNION {{<<ch>> \o w :
               w \in UNION {h[t.st] : t \in automata_repres_case(s, ch)}} :
            ch \in AnyChar}]
ScanFirst == [s \in DOMAIN gdfa |-> {w \in {<<>>} : s \in mdfa.final_states}]
IsScan(m, f) ==
  f = [k \in 0 .. m |->
         [s \in DOMAIN gdfa |->
            IF k = 0 THEN {w \in {<<>>} : s \in mdfa.final_states}
            ELSE UNION {{<<ch>> \o w :
                           w \in UNION {f[k - 1][t.st] :
                                          t \in automata_repres_case(s, ch)}} :
                        ch \in AnyChar}]]
(* The row h has a string that ch and the jump by it continue to y.        *)
LedTo(h, s, y) ==
  \E c \in AnyChar : \E t \in automata_repres_case(s, c) :
    \E v \in h[t.st] : y = <<c>> \o v
TakingRow(n, js, F, k) == [s \in 0 .. n - 1 |-> Taking(js, F, s, k)]

LEMMA ScanMember ==
  ASSUME NEW h, NEW s \in DOMAIN gdfa
  PROVE  \A y : y \in ScanMore(h)[s] <=> LedTo(h, s, y)
<1>1. ScanMore(h)[s]
        = UNION {{<<ch>> \o w :
                    w \in UNION {h[t.st] : t \in automata_repres_case(s, ch)}} :
                 ch \in AnyChar}
  BY Zenon DEF ScanMore
<1>2. ASSUME NEW y \in ScanMore(h)[s]
      PROVE  \E c \in AnyChar : \E t \in automata_repres_case(s, c) :
               \E v \in h[t.st] : y = <<c>> \o v
  <2>1. PICK c \in AnyChar :
          y \in {<<c>> \o w :
                   w \in UNION {h[t.st] : t \in automata_repres_case(s, c)}}
    BY <1>1, <1>2, Zenon
  <2>2. PICK w \in UNION {h[t.st] : t \in automata_repres_case(s, c)} :
          y = <<c>> \o w
    BY <2>1, Zenon
  <2>3. PICK t \in automata_repres_case(s, c) : w \in h[t.st]
    BY <2>2, Zenon
  <2> QED
    BY <2>2, <2>3, Zenon
<1>3. ASSUME NEW y, NEW c \in AnyChar, NEW t \in automata_repres_case(s, c),
             NEW v \in h[t.st], y = <<c>> \o v
      PROVE  y \in ScanMore(h)[s]
  <2>1. PICK V : V = UNION {h[u.st] : u \in automata_repres_case(s, c)}
    OBVIOUS
  <2>2. v \in V
    BY <2>1, Zenon
  <2>3. PICK S : S = {<<c>> \o w : w \in V}
    OBVIOUS
  <2>4. y \in S
    BY <1>3, <2>2, <2>3, Zenon
  <2>5. S = {<<c>> \o w :
               w \in UNION {h[u.st] : u \in automata_repres_case(s, c)}}
    BY <2>1, <2>3, Zenon
  <2>6. S \in {{<<ch>> \o w :
                  w \in UNION {h[u.st] : u \in automata_repres_case(s, ch)}} :
               ch \in AnyChar}
    BY <2>5, Zenon
  <2> QED
    BY <1>1, <2>4, <2>6, Zenon
<1> QED
  BY <1>2, <1>3 DEF LedTo

LEMMA ScanRowFirst ==
  ASSUME NEW n, NEW js, NEW F, Grouped(n, js, F)
  PROVE  DOMAIN gdfa = 0 .. n - 1 /\ ScanFirst = TakingRow(n, js, F, 0)
<1>1. DOMAIN gdfa = 0 .. n - 1
  BY Zenon DEF Grouped, fuse_DFA_jumps
<1>2. \A s \in 0 .. n - 1 : {w \in {<<>>} : s \in F} = Taking(js, F, s, 0)
  BY TakingNothing
<1>3. mdfa.final_states = F
  BY DEF Grouped
<1> QED
  BY <1>1, <1>2, <1>3, Zenon DEF ScanFirst, TakingRow

LEMMA ScanRowMore ==
  ASSUME NEW n, NEW js, NEW F, Grouped(n, js, F), NEW k \in Nat
  PROVE  ScanMore(TakingRow(n, js, F, k)) = TakingRow(n, js, F, k + 1)
<1>1. DOMAIN gdfa = 0 .. n - 1
  BY ScanRowFirst
<1>2. PICK h : h = TakingRow(n, js, F, k)
  OBVIOUS
<1>3. /\ n \in Nat /\ js \subseteq Jumps(n)
      /\ \A e \in js : e.to \in 0 .. n - 1
  BY DEF Grouped, Jumps
<1>4. ASSUME NEW s \in 0 .. n - 1
      PROVE  ScanMore(h)[s] = Taking(js, F, s, k + 1)
  <2>1. \A y : y \in ScanMore(h)[s] <=> LedTo(h, s, y)
    <3>1. s \in DOMAIN gdfa
      BY <1>1
    <3> QED
      BY <3>1, ScanMember
  <2>2. \A c : \A t \in automata_repres_case(s, c) : h[t.st] = Taking(js, F, t.st, k)
    <3>1. ASSUME NEW c, NEW t \in automata_repres_case(s, c)
          PROVE  h[t.st] = Taking(js, F, t.st, k)
      <4>1. PICK e \in js : t = Target(e)
        BY CaseIs DEF Grouped
      <4>2. t.st \in 0 .. n - 1
        BY <1>3, <4>1 DEF Target
      <4> QED
        BY <1>2, <4>2 DEF TakingRow
    <3> QED
      BY <3>1
  <2>3. \A y : y \in Taking(js, F, s, k + 1) <=> LedTo(h, s, y)
    <3>2. ASSUME NEW y \in Taking(js, F, s, k + 1) PROVE LedTo(h, s, y)
      <4>3. LedBy(js, F, s, k, y)
        BY <3>2, TakingMore
      <4>1. PICK c \in AnyChar : \E t \in automata_repres_case(s, c) :
              \E v \in Taking(js, F, t.st, k) : y = <<c>> \o v
        BY ONLY <4>3 DEF LedBy
      <4>2. PICK t \in automata_repres_case(s, c) :
              \E v \in Taking(js, F, t.st, k) : y = <<c>> \o v
        BY <4>1
      <4> QED
        BY <2>2, <4>2 DEF LedTo
    <3>3. ASSUME NEW y, LedTo(h, s, y) PROVE y \in Taking(js, F, s, k + 1)
      <4>1. PICK c \in AnyChar : \E t \in automata_repres_case(s, c) :
              \E v \in h[t.st] : y = <<c>> \o v
        BY <3>3 DEF LedTo
      <4>2. PICK t \in automata_repres_case(s, c) :
              \E v \in h[t.st] : y = <<c>> \o v
        BY <4>1
      <4>3. \E v \in Taking(js, F, t.st, k) : y = <<c>> \o v
        BY <2>2, <4>2
      <4> QED
        BY <4>3, TakingMore DEF LedBy
    <3> QED
      BY <3>2, <3>3
  <2> QED
    BY <2>1, <2>3
<1>5. ScanMore(h) = [s \in 0 .. n - 1 |-> ScanMore(h)[s]]
  BY <1>1, Zenon DEF ScanMore
<1> QED
  BY <1>2, <1>4, <1>5 DEF TakingRow

LEMMA IsScanRows ==
  ASSUME NEW m \in Nat, NEW f
  PROVE  IsScan(m, f)
           <=> f = [k \in 0 .. m |-> IF k = 0 THEN ScanFirst
                                     ELSE ScanMore(f[k - 1])]
<1>1. \A k \in 0 .. m :
        [s \in DOMAIN gdfa |->
            IF k = 0 THEN {w \in {<<>>} : s \in mdfa.final_states}
            ELSE UNION {{<<ch>> \o w :
                           w \in UNION {f[k - 1][t.st] :
                                          t \in automata_repres_case(s, ch)}} :
                        ch \in AnyChar}]
        = IF k = 0 THEN ScanFirst ELSE ScanMore(f[k - 1])
  <2>1. ASSUME NEW k \in 0 .. m, k = 0
        PROVE  [s \in DOMAIN gdfa |->
            IF k = 0 THEN {w \in {<<>>} : s \in mdfa.final_states}
            ELSE UNION {{<<ch>> \o w :
                           w \in UNION {f[k - 1][t.st] :
                                          t \in automata_repres_case(s, ch)}} :
                        ch \in AnyChar}] = ScanFirst
    BY ONLY <2>1, Zenon DEF ScanFirst
  <2>2. ASSUME NEW k \in 0 .. m, k # 0
        PROVE  [s \in DOMAIN gdfa |->
            IF k = 0 THEN {w \in {<<>>} : s \in mdfa.final_states}
            ELSE UNION {{<<ch>> \o w :
                           w \in UNION {f[k - 1][t.st] :
                                          t \in automata_repres_case(s, ch)}} :
                        ch \in AnyChar}] = ScanMore(f[k - 1])
    BY ONLY <2>2, Zenon DEF ScanMore
  <2> QED
    BY <2>1, <2>2, Zenon
<1> QED
  BY <1>1, Zenon DEF IsScan

(* The generated automaton takes the strings that its words stand for.     *)
LEMMA ScannedIs ==
  ASSUME NEW n, NEW js, NEW F, Grouped(n, js, F), n > 0, NEW m \in Nat
  PROVE  Scanned(m) = Taking(js, F, 0, m)
<1>1. PICK R : R = [k \in Nat |-> TakingRow(n, js, F, k)]
  OBVIOUS
<1>2. R[0] = ScanFirst
  BY <1>1, ScanRowFirst
<1>3. \A k \in Nat : R[k + 1] = ScanMore(R[k])
  BY <1>1, ScanRowMore
<1>4. \E f : IsScan(m, f)
  <2>1. PICK f : f = [k \in 0 .. m |-> R[k]]
    OBVIOUS
  <2>2. ASSUME NEW k \in 0 .. m
        PROVE  R[k] = IF k = 0 THEN ScanFirst ELSE ScanMore(f[k - 1])
    <3>1. CASE k = 0
      BY <1>2, <3>1
    <3>2. CASE k # 0
      <4>1. k - 1 \in Nat /\ k - 1 \in 0 .. m /\ (k - 1) + 1 = k
        BY <3>2
      <4>2. f[k - 1] = R[k - 1]
        BY <2>1, <4>1
      <4>3. R[(k - 1) + 1] = ScanMore(R[k - 1])
        BY <1>3, <4>1
      <4> QED
        BY <3>2, <4>1, <4>2, <4>3
    <3> QED
      BY <3>1, <3>2
  <2>3. f = [k \in 0 .. m |-> IF k = 0 THEN ScanFirst ELSE ScanMore(f[k - 1])]
    BY <2>1, <2>2
  <2> QED
    BY <2>3, IsScanRows
<1>5. PICK f : f = CHOOSE g : IsScan(m, g)
  OBVIOUS
<1>6. IsScan(m, f)
  BY <1>4, <1>5
<1>7. f = [k \in 0 .. m |-> IF k = 0 THEN ScanFirst ELSE ScanMore(f[k - 1])]
  BY <1>6, IsScanRows
<1>8. Scanned(m) = f[m][0]
  BY <1>5, Zenon DEF Scanned, IsScan
<1>9. PICK z : z = 0
  OBVIOUS
<1>10. PICK X : X = [k \in z .. m |-> {R[k]}]
  OBVIOUS
<1>11. ASSUME NEW k \in z .. m, \A j \in z .. k - 1 : f[j] \in X[j]
       PROVE  f[k] \in X[k]
  <2>1. k \in 0 .. m /\ X[k] = {R[k]}
    BY <1>9, <1>10
  <2>2. CASE k = 0
    <3>1. f[k] = ScanFirst
      BY <1>7, <2>1, <2>2
    <3> QED
      BY <1>2, <2>1, <2>2, <3>1
  <2>3. CASE k # 0
    <3>1. k - 1 \in z .. k - 1 /\ k - 1 \in z .. m /\ k - 1 \in Nat
          /\ (k - 1) + 1 = k
      BY <1>9, <2>1, <2>3
    <3>2. f[k - 1] = R[k - 1]
      BY <1>10, <1>11, <3>1
    <3>3. f[k] = ScanMore(f[k - 1])
      BY <1>7, <2>1, <2>3
    <3>4. R[(k - 1) + 1] = ScanMore(R[k - 1])
      BY <1>3, <3>1
    <3> QED
      BY <2>1, <3>1, <3>2, <3>3, <3>4
  <2> QED
    BY <2>2, <2>3
<1>12. z \in Nat
  BY <1>9
<1>13. \A k \in z .. m : f[k] \in X[k]
  BY ONLY <1>11, <1>12, m \in Nat, RecursionTyped
<1>14. f[m] = R[m]
  BY <1>9, <1>10, <1>13
<1>15. R[m][0] = Taking(js, F, 0, m)
  <2>1. R[m] = TakingRow(n, js, F, m)
    BY <1>1
  <2>2. 0 \in 0 .. n - 1
    BY DEF Grouped
  <2> QED
    BY <2>1, <2>2 DEF TakingRow
<1> QED
  BY <1>8, <1>14, <1>15

-----------------------------------------------------------------------------
LEMMA ScannerAcceptsIt ==
  ASSUME AcceptInv, NEW m \in Nat, m >= 1
  PROVE  ScannerAcceptsUpTo(m)
<1>1. SUFFICES ASSUME stage = "done", Unambiguous, NEW n \in 0 .. m
               PROVE  Scanned(n) = {ch \in [1 .. n -> AnyChar] :
                                      \E w \in Words(cmds, m) : Instance(ch, w)}
  BY DEF ScannerAcceptsUpTo
<1>2. DfaInv /\ FollowInv /\ PartInv
  BY DEF AcceptInv, TypeInv
<1>3. PICK N, js, F : /\ N = Len(new_partition) /\ js = mdfa.jumps
                      /\ F = mdfa.final_states
  OBVIOUS
<1>4. Minimized(mdfa, N) /\ gdfa = fuse_DFA_jumps(mdfa)
  <2>1. /\ Stable(new_partition, jumps, Finals, States)
        /\ mdfa = minimize_DFA(new_partition, Finals, jumps)
        /\ gdfa = fuse_DFA_jumps(mdfa)
    BY <1>1, <1>2 DEF PartInv
  <2> QED
    BY <1>1, <1>2, <1>3, <2>1, MinimalAccepts
<1>5. Grouped(N, js, F) /\ N > 0
  BY <1>1, <1>3, <1>4 DEF Minimized, Grouped, OneJump
<1>6. Scanned(n) = Taking(js, F, 0, n)
  BY <1>5, ScannedIs
<1>7. PICK b, L : /\ b = cmds /\ Complete(b) /\ b # <<>> /\ Meaning(b, L)
                  /\ Lang(js, F, 0) = L[Len(b)]
  <2>1. /\ Complete(cmds) /\ cmds # <<>> /\ Fitting(cmds, ndfa)
        /\ Lang(jumps, Finals, 0) = Accepts(ndfa)
    BY <1>1, <1>2, DfaAcceptsIt
  <2>2. Lang(js, F, 0) = Lang(jumps, Finals, 0)
    BY <1>3, <1>4 DEF Minimized
  <2> QED
    BY <2>1, <2>2 DEF Fitting
<1>8. PICK W, X : W = Words(b, m) /\ X = L[Len(b)] /\ Spells(W, X, m)
  <2>1. Spells(Words(b, m), L[Len(b)], m)
    BY <1>7, WordsMean
  <2> QED
    BY <2>1
<1>9. ASSUME NEW w \in W
      PROVE  /\ Len(w) \in Nat /\ DOMAIN w = 1 .. Len(w)
             /\ Len(Spelling(w)) = Len(w) /\ DOMAIN Spelling(w) = 1 .. Len(w)
             /\ \A k \in 1 .. Len(w) : Spelling(w)[k] = w[k].gc
             /\ Spelling(w) \in X /\ Len(w) <= m
  <2>1. w \in Seq(Acted) /\ Len(w) <= m /\ Spelling(w) \in X
    BY <1>8 DEF Spells, WordsOver
  <2>2. Spelling(w) = [k \in 1 .. Len(w) |-> w[k].gc] /\ Len(w) \in Nat
    BY <2>1 DEF Spelling
  <2>3. Len(Spelling(w)) = Len(w)
    BY <2>2
  <2> QED
    BY <2>1, <2>2, <2>3
<1>10. \A ch : \A w \in W : Instance(ch, w) <=> InstanceOf(ch, Spelling(w))
  BY <1>9 DEF Instance, InstanceOf
<1>11. \A x \in X : Len(x) <= m => \E w \in W : Spelling(w) = x
  BY <1>8 DEF Spells
<1>12. ASSUME NEW ch \in Taking(js, F, 0, n)
       PROVE  ch \in [1 .. n -> AnyChar] /\ \E w \in W : Instance(ch, w)
  <2>1. ch \in Seq(AnyChar) /\ Len(ch) = n
    BY DEF Taking
  <2>2. PICK x \in X : InstanceOf(ch, x)
    BY <1>7, <1>8 DEF Taking
  <2>3. Len(x) <= m
    BY <1>1, <2>1, <2>2 DEF InstanceOf
  <2> QED
    BY <1>10, <1>11, <2>1, <2>2, <2>3
<1>13. ASSUME NEW ch \in [1 .. n -> AnyChar], NEW w \in W, Instance(ch, w)
       PROVE  ch \in Taking(js, F, 0, n)
  <2>1. n \in Nat
    BY <1>1
  <2>2. ch \in Seq(AnyChar) /\ Len(ch) = n
    BY <1>13, <2>1
  <2>3. Spelling(w) \in Lang(js, F, 0) /\ InstanceOf(ch, Spelling(w))
    BY <1>7, <1>8, <1>9, <1>10, <1>13
  <2> QED
    BY <2>2, <2>3 DEF Taking
<1> QED
  BY <1>6, <1>7, <1>8, <1>12, <1>13

(* The generated automaton, which tries the branches of a state in their   *)
(* order, takes exactly the strings the expression stands for, of at most  *)
(* two characters as the runs check, provided that no character is covered *)
(* by two jumps of a state (fuse_DFA_jumps, automata_repres_case).         *)
THEOREM ScannerAlwaysAccepts == Spec => []ScannerAccepts
<1>1. AcceptInv => ScannerAccepts
  <2>1. \A m \in Nat : m >= 1 /\ AcceptInv => ScannerAcceptsUpTo(m)
    BY ScannerAcceptsIt
  <2> QED
    BY <2>1 DEF ScannerAccepts
<1> QED
  BY <1>1, InitAccepts, AcceptNext, PTL DEF Spec

(* The same for strings of any length: of at most m characters, for any m. *)
THEOREM ScannerAcceptsAll ==
  ASSUME NEW CONSTANT m \in Nat \ {0}
  PROVE  Spec => []ScannerAcceptsUpTo(m)
<1>1. AcceptInv => ScannerAcceptsUpTo(m)
  BY ScannerAcceptsIt
<1> QED
  BY <1>1, InitAccepts, AcceptNext, PTL DEF Spec

-----------------------------------------------------------------------------
(* What is made of buffers means what is made of their meanings.           *)

(* The commands of b behind those of a: their own meaning, moved.          *)
MovedWords(M, n, l) == [i \in 1 .. l |-> M[n + i]]

HeldFrom(b, t, c, n) == \A j \in 1 .. Len(b) : c[n + j] = t[j]

LEMMA MovedTold ==
  ASSUME NEW b, Complete(b), NEW n \in Nat, NEW t, MovedBehind(b, n, t),
         NEW c, HeldFrom(b, t, c, n),
         NEW M, NEW N, N = MovedWords(M, n, Len(b)), NEW j \in 1 .. Len(b)
  PROVE  Told(c, t[j], M) = Told(b, b[j], N)
<1>1. PICK com, new : com = b[j] /\ new = t[j]
  OBVIOUS
<1>2. /\ b \in Seq(UnwrappedCommands) /\ Len(b) \in Nat /\ j \in Nat
      /\ com \in UnwrappedCommands /\ com.first \in Nat /\ com.second \in Nat
      /\ Placed(b, com, j)
  <2>1. b \in Seq(UnwrappedCommands)
    BY DEF Complete
  <2> QED
    BY <1>1, <2>1, OperandsNat DEF Complete, InPlace
<1>3. /\ new.kind = com.kind /\ new.s = com.s
      /\ com.kind \in Binary \cup {"multiconcat"}
           => new.first = com.first + n /\ new.second = com.second + n
      /\ com.kind \in Unary => new.first = com.first + n
      /\ \A i \in 1 .. Len(b) : t[i].kind = b[i].kind /\ t[i].s = b[i].s
  BY <1>1 DEF MovedBehind
<1>4. \A i \in 1 .. Len(b) : N[i] = M[i + n]
  BY DEF MovedWords
<1>5. CASE com.kind \in Binary
  <2>1. com.first \in 1 .. Len(b) /\ com.second \in 1 .. Len(b)
    BY <1>2, <1>5 DEF Placed
  <2>2. N[com.first] = M[new.first] /\ N[com.second] = M[new.second]
    BY <1>3, <1>4, <1>5, <2>1
  <2> QED
    BY <1>1, <1>3, <1>5, <2>2, ToldBinary
<1>6. CASE com.kind \in Unary
  <2>1. com.first \in 1 .. Len(b)
    BY <1>2, <1>6 DEF Placed
  <2>2. N[com.first] = M[new.first]
    BY <1>3, <1>4, <1>6, <2>1
  <2> QED
    BY <1>1, <1>3, <1>6, <2>2, ToldUnary
<1>7. \A i \in 1 .. Len(b) : Letters(t[i]) = Letters(b[i])
  BY <1>3, Zenon DEF Letters
<1>8. CASE com.kind = "multiconcat"
  <2>1. PICK x, y, l, p, q :
          /\ x = com.first /\ y = com.second /\ l = y - x + 1
          /\ p = new.first /\ q = new.second
    OBVIOUS
  <2>2. x \in 1 .. j - 1 /\ y \in x .. j - 1 /\ x \in Nat /\ y \in Nat
    BY <1>2, <1>8, <2>1 DEF Placed
  <2>3. p = x + n /\ q = y + n
    BY <1>3, <1>8, <2>1
  <2>4. l \in Nat /\ q - p + 1 = l /\ y - x + 1 = l
    BY <2>1, <2>2, <2>3
  <2>5. ASSUME NEW k \in 1 .. l PROVE Letters(c[p + k - 1]) = Letters(b[x + k - 1])
    <3>1. PICK i, o : i = x + k - 1 /\ o = p + k - 1
      OBVIOUS
    <3>2. i \in 1 .. Len(b) /\ o = n + i
      <4>1. /\ x \in Nat /\ x >= 1 /\ y \in Nat /\ y <= Len(b) /\ Len(b) \in Nat
            /\ k \in Nat /\ k >= 1 /\ k <= l /\ n \in Nat
        <5>1. j \in 1 .. Len(b)
          OBVIOUS
        <5>2. Len(b) \in Nat /\ k \in 1 .. l /\ n \in Nat
          BY <1>2
        <5> QED
          BY ONLY <2>2, <2>4, <5>1, <5>2
      <4>2. l = y - x + 1 /\ p = x + n
        BY <2>1, <2>3
      <4> QED
        BY ONLY <3>1, <4>1, <4>2
    <3>3. c[n + i] = t[i] /\ Letters(t[i]) = Letters(b[i])
      BY <1>7, <3>2 DEF HeldFrom
    <3>4. Letters(c[o]) = Letters(b[i])
      BY ONLY <3>2, <3>3, Zenon
    <3> QED
      BY ONLY <3>1, <3>4
  <2>6. Row(c, p, q) = Row(b, x, y)
    BY <2>4, <2>5, RowSame
  <2>7. Told(c, new, M) = Row(c, p, q) /\ Told(b, com, N) = Row(b, x, y)
    BY <1>3, <1>8, <2>1, Zenon DEF Told
  <2> QED
    BY <1>1, <2>6, <2>7
<1>9. CASE com.kind \in Simple
  <2>1. new.kind \in Simple /\ Letters(new) = Letters(com)
    BY <1>1, <1>3, <1>7, <1>9
  <2>2. /\ Told(c, new, M) = LettersWords(Letters(new))
        /\ Told(b, com, N) = LettersWords(Letters(com))
    BY <1>9, <2>1, ToldSimple
  <2> QED
    BY <1>1, <2>1, <2>2
<1>10. com.kind \in Binary \cup Unary \cup Simple \cup {"multiconcat"}
  BY <1>2, Zenon DEF UnwrappedCommands, Simple
<1> QED
  BY <1>5, <1>6, <1>8, <1>9, <1>10

BothOf(a, b) == a \o Shifted(b, Len(a))

(* Both buffers mean in the whole what they mean alone.                    *)
LEMMA BothMean ==
  ASSUME NEW a, Complete(a), NEW X, Means(a, X),
         NEW b, Complete(b), b # <<>>, NEW Y, Means(b, Y),
         NEW c, Len(c) \in Nat, Kept(BothOf(a, b), c), NEW M, Meaning(c, M)
  PROVE  M[Len(a)] = X /\ M[Len(a) + Len(b)] = Y
<1>0. PICK n, t : n = Len(a) /\ t = a \o Shifted(b, Len(a)) /\ Kept(t, c)
  BY DEF BothOf
<1>1. /\ Complete(t) /\ Len(t) = n + Len(b)
      /\ a \in Seq(UnwrappedCommands) /\ b \in Seq(UnwrappedCommands)
      /\ n \in Nat /\ Len(b) \in Nat /\ Len(b) >= 1
  <2>1. Complete(t) /\ Len(t) = Len(a) + Len(b)
    BY <1>0, ShiftedComplete
  <2>2. a \in Seq(UnwrappedCommands) /\ b \in Seq(UnwrappedCommands)
    BY DEF Complete
  <2> QED
    BY <1>0, <2>1, <2>2
<1>2. Meaning(t, M)
  BY <1>0, <1>1, MeaningKept
<1>3. PICK s : s = Shifted(b, n)
  OBVIOUS
<1>4. MovedBehind(b, n, s)
  BY <1>1, <1>3, ShiftedAre
<1>5. /\ \A k \in 1 .. n : t[k] = a[k]
      /\ \A j \in 1 .. Len(b) : t[n + j] = s[j]
  <2>1. PICK l : l = Len(b)
    OBVIOUS
  <2>2. /\ a \in Seq(UnwrappedCommands) /\ s \in Seq(UnwrappedCommands)
        /\ n = Len(a) /\ n \in Nat /\ l = Len(s) /\ l \in Nat /\ t = a \o s
    BY <1>0, <1>1, <1>3, <1>4, <2>1 DEF MovedBehind
  <2>3. /\ \A k \in 1 .. n : t[k] = a[k]
        /\ \A k \in 1 .. l : t[n + k] = s[k]
    BY ONLY <2>2, TogetherAre
  <2> QED
    BY <2>1, <2>3
<1>6. Kept(a, t)
  BY <1>0, <1>1, <1>5 DEF Kept
<1>7. Meaning(a, M)
  BY <1>0, <1>1, <1>2, <1>6, MeaningKept
<1>8. PICK N : N = MovedWords(M, n, Len(b))
  OBVIOUS
<1>9. \A j \in 1 .. Len(b) : N[j] = M[n + j]
  BY <1>8 DEF MovedWords
<1>10. ASSUME NEW j \in 1 .. Len(b)
       PROVE  N[j] \subseteq Strings /\ N[j] = Told(b, b[j], N)
  <2>1. n + j \in 1 .. Len(t)
    BY <1>1
  <2>2. M[n + j] \subseteq Strings /\ M[n + j] = Told(t, t[n + j], M)
    BY <1>2, <2>1 DEF Meaning
  <2>3. Told(t, s[j], M) = Told(b, b[j], N)
    <3>1. Complete(b) /\ n \in Nat /\ MovedBehind(b, n, s)
          /\ N = MovedWords(M, n, Len(b)) /\ j \in 1 .. Len(b)
      BY <1>1, <1>4, <1>8
    <3>2. HeldFrom(b, s, t, n)
      BY <1>5 DEF HeldFrom
    <3> QED
      BY ONLY <3>1, <3>2, MovedTold
  <2> QED
    BY <1>5, <1>9, <2>2, <2>3
<1>11. Meaning(b, N)
  BY <1>10 DEF Meaning
<1>12. N[Len(b)] = Y /\ Len(b) \in 1 .. Len(b)
  BY <1>1, <1>11 DEF Means
<1>13. M[n] = X
  BY <1>0, <1>7 DEF Means
<1> QED
  BY <1>0, <1>1, <1>9, <1>12, <1>13

(* An alternative: one or the other.                                       *)
LEMMA OrMeans ==
  ASSUME NEW a, Complete(a), a # <<>>, NEW X, Means(a, X),
         NEW b, Complete(b), b # <<>>, NEW Y, Means(b, Y)
  PROVE  Means(regexp1_or_regexp2(a, b), X \cup Y)
<1>1. PICK t, n, l, com :
        /\ t = a \o Shifted(b, Len(a)) /\ n = Len(a) /\ l = n + Len(b)
        /\ com = [Unwrapped("or") EXCEPT !.first = n, !.second = l]
  OBVIOUS
<1>2. /\ Complete(t) /\ Len(t) = l /\ n \in 1 .. l /\ l \in 1 .. l
      /\ n \in Nat /\ l \in Nat /\ t \in Seq(UnwrappedCommands)
  <2>1. Complete(t) /\ Len(t) = l
    BY <1>1, ShiftedComplete
  <2>2. a \in Seq(UnwrappedCommands) /\ b \in Seq(UnwrappedCommands)
    BY DEF Complete
  <2>3. Len(a) \in Nat /\ Len(a) >= 1 /\ Len(b) \in Nat /\ Len(b) >= 1
    BY <2>2
  <2> QED
    BY <1>1, <2>1, <2>3 DEF Complete
<1>3. com \in UnwrappedCommands /\ com.kind = "or" /\ com.first = n /\ com.second = l
  <2>1. PICK new : new = Unwrapped("or")
    OBVIOUS
  <2>2. new \in UnwrappedCommands /\ new.kind = "or"
    BY <2>1, FreshCommand DEF Kinds, Binary
  <2>3. com = [new EXCEPT !.first = n, !.second = l]
    BY <1>1, <2>1
  <2>4. n \in Nat /\ l \in Nat
    BY <1>2
  <2>5. /\ com \in UnwrappedCommands /\ com.kind = new.kind
        /\ com.first = n /\ com.second = l
    BY ONLY <2>2, <2>3, <2>4, UnwrappedAre
  <2> QED
    BY <2>2, <2>5
<1>4. PICK u : u = Append(t, com)
  OBVIOUS
<1>5. regexp1_or_regexp2(a, b) = u
  <2>1. com = [Unwrapped("or") EXCEPT !.first = Len(a), !.second = Len(a) + Len(b)]
    BY <1>1
  <2>2. regexp1_or_regexp2(a, b) = t \o <<com>>
    BY <1>1, <2>1, Zenon DEF regexp1_or_regexp2
  <2>3. t \o <<com>> = Append(t, com)
    BY <1>2, <1>3
  <2> QED
    BY <1>4, <2>2, <2>3
<1>6. Kept(t, u) /\ Len(u) \in Nat
  <2>1. u \in Seq(UnwrappedCommands) /\ Kept(t, u)
    BY <1>2, <1>3, <1>4, KeptAppended
  <2> QED
    BY <2>1
<1>7. ASSUME NEW M, Meaning(u, M) PROVE Told(u, com, M) = X \cup Y
  <2>1. M[Len(a)] = X /\ M[Len(a) + Len(b)] = Y
    <3>1. Kept(BothOf(a, b), u)
      BY <1>1, <1>6 DEF BothOf
    <3> QED
      BY <3>1, <1>6, <1>7, BothMean
  <2>2. Told(u, com, M) = M[com.first] \cup M[com.second]
    BY <1>3, Zenon DEF Told
  <2> QED
    BY <1>1, <1>3, <2>1, <2>2
<1>8. Means(u, X \cup Y)
  BY <1>2, <1>3, <1>4, <1>7, WrittenMeans
<1> QED
  BY <1>5, <1>8

(* A beginning, then the other repeated.                                   *)
LEMMA AstMeans ==
  ASSUME NEW a, Complete(a), a # <<>>, NEW X, Means(a, X),
         NEW b, Complete(b), b # <<>>, NEW Y, Means(b, Y)
  PROVE  Means(regexp1_with_regexp2ast(a, b), Cat(X, Star(Y)))
<1>1. PICK t, n, m, x, y :
        /\ t = a \o Shifted(b, Len(a)) /\ n = Len(a) + Len(b) /\ m = n + 1
        /\ x = [Unwrapped("Kleene") EXCEPT !.first = n]
        /\ y = [Unwrapped("concat") EXCEPT !.first = Len(a), !.second = m]
  OBVIOUS
<1>2. PICK l : l = Len(a)
  OBVIOUS
<1>3. /\ Complete(t) /\ Len(t) = n /\ t \in Seq(UnwrappedCommands)
      /\ l \in Nat /\ l \in 1 .. n /\ n \in Nat /\ n \in 1 .. n /\ m \in Nat
  <2>1. Complete(t) /\ Len(t) = n
    BY <1>1, ShiftedComplete
  <2>2. a \in Seq(UnwrappedCommands) /\ b \in Seq(UnwrappedCommands)
    BY DEF Complete
  <2>3. Len(a) \in Nat /\ Len(a) >= 1 /\ Len(b) \in Nat /\ Len(b) >= 1
    BY <2>2
  <2> QED
    BY <1>1, <1>2, <2>1, <2>3 DEF Complete
<1>4. x \in UnwrappedCommands /\ x.kind = "Kleene" /\ x.first = n
  <2>1. PICK new : new = Unwrapped("Kleene")
    OBVIOUS
  <2>2. new \in UnwrappedCommands /\ new.kind = "Kleene"
    BY <2>1, FreshCommand DEF Kinds, Unary
  <2>3. x = [new EXCEPT !.first = n]
    BY <1>1, <2>1
  <2>4. n \in Nat
    BY <1>3
  <2>5. x \in UnwrappedCommands /\ x.kind = new.kind /\ x.first = n
    BY ONLY <2>2, <2>3, <2>4, UnwrappedAre
  <2> QED
    BY <2>2, <2>5
<1>5. y \in UnwrappedCommands /\ y.kind = "concat" /\ y.first = l /\ y.second = m
  <2>1. PICK new : new = Unwrapped("concat")
    OBVIOUS
  <2>2. new \in UnwrappedCommands /\ new.kind = "concat"
    BY <2>1, FreshCommand DEF Kinds, Binary
  <2>3. y = [new EXCEPT !.first = l, !.second = m]
    BY <1>1, <1>2, <2>1
  <2>4. l \in Nat /\ m \in Nat
    BY <1>3
  <2>5. /\ y \in UnwrappedCommands /\ y.kind = new.kind
        /\ y.first = l /\ y.second = m
    BY ONLY <2>2, <2>3, <2>4, UnwrappedAre
  <2> QED
    BY <2>2, <2>5
<1>6. PICK u : u = Append(t, x)
  OBVIOUS
<1>7. PICK v : v = Append(u, y)
  OBVIOUS
<1>8. /\ u \in Seq(UnwrappedCommands) /\ Len(u) = m /\ u[Len(u)] = x /\ Kept(t, u)
  <2>1. /\ u \in Seq(UnwrappedCommands) /\ Len(u) = Len(t) + 1
        /\ u[Len(u)] = x /\ Kept(t, u)
    BY <1>3, <1>4, <1>6, KeptAppended
  <2> QED
    BY <1>1, <1>3, <2>1
<1>9. /\ v \in Seq(UnwrappedCommands) /\ Len(v) \in Nat /\ Kept(u, v)
      /\ v[m] = x /\ m \in 1 .. Len(v)
  <2>1. v \in Seq(UnwrappedCommands) /\ Len(v) = Len(u) + 1 /\ Kept(u, v)
    BY <1>5, <1>7, <1>8, KeptAppended
  <2>2. m \in 1 .. Len(u)
    BY <1>1, <1>3, <1>8
  <2> QED
    BY <1>3, <1>8, <2>1, <2>2 DEF Kept
<1>10. Kept(BothOf(a, b), v)
  <2>1. Kept(t, v)
    <3>1. Len(t) \in Nat /\ Len(u) \in Nat /\ Len(v) \in Nat
      BY <1>3, <1>8, <1>9
    <3> QED
      BY ONLY <3>1, <1>8, <1>9, KeptOn
  <2> QED
    BY <1>1, <2>1 DEF BothOf
<1>11. regexp1_with_regexp2ast(a, b) = v
  <2>1. PICK z, w : /\ z = n + 1
                    /\ w = [Unwrapped("concat") EXCEPT !.first = Len(a), !.second = z]
    OBVIOUS
  <2>2. w = y
    BY <1>1, <2>1
  <2>3. regexp1_with_regexp2ast(a, b) = t \o <<x, w>>
    BY <1>1, <2>1, Zenon DEF regexp1_with_regexp2ast
  <2>4. t \o <<x, y>> = Append(Append(t, x), y)
    BY <1>3, <1>4, <1>5, TwoAppended
  <2> QED
    BY <1>6, <1>7, <2>2, <2>3, <2>4
<1>12. ASSUME NEW M, Meaning(v, M) PROVE Told(v, y, M) = Cat(X, Star(Y))
  <2>1. M[Len(a)] = X /\ M[Len(a) + Len(b)] = Y
    BY <1>9, <1>10, <1>12, BothMean
  <2>2. M[m] = Told(v, x, M)
    BY <1>9, <1>12 DEF Meaning
  <2>3. Told(v, x, M) = Star(M[x.first])
    BY <1>4, Zenon DEF Told
  <2>4. Told(v, y, M) = Cat(M[y.first], M[y.second])
    BY <1>5, Zenon DEF Told
  <2>5. x.first = Len(a) + Len(b) /\ y.first = Len(a) /\ y.second = m
    BY <1>1, <1>2, <1>4, <1>5
  <2> QED
    BY <2>1, <2>2, <2>3, <2>4, <2>5
<1>13. Means(v, Cat(X, Star(Y)))
  BY <1>5, <1>7, <1>8, <1>12, WrittenMeans
<1> QED
  BY <1>11, <1>13

(* An action set on the commands changes nothing of what they mean.        *)
LEMMA ActionMeans ==
  ASSUME NEW b, Complete(b), b # <<>>, NEW X, Means(b, X), NEW act \in Nat
  PROVE  Means(WithAction(b, act), X)
<1>1. PICK c, z : c = WithAction(b, act) /\ z = 0
  OBVIOUS
<1>2. b \in Seq(UnwrappedCommands) /\ Len(b) \in Nat /\ z \in Nat
  BY <1>1 DEF Complete
<1>3. ButAction(b, c)
  BY <1>1, <1>2, ActionsAre
<1>4. MovedBehind(b, z, c)
  <2>1. \A j \in 1 .. Len(b) : b[j].first \in Nat /\ b[j].second \in Nat
    BY <1>2, OperandsNat
  <2> QED
    BY <1>1, <1>3, <2>1 DEF ButAction, MovedBehind
<1>5. ASSUME NEW M, Meaning(c, M) PROVE M[Len(c)] = X
  <2>1. Len(c) = Len(b)
    BY <1>3 DEF ButAction
  <2>2. PICK N : N = MovedWords(M, z, Len(b))
    OBVIOUS
  <2>3. \A j \in 1 .. Len(b) : N[j] = M[j] /\ c[z + j] = c[j]
    BY <1>1, <1>2, <2>2 DEF MovedWords
  <2>4. ASSUME NEW j \in 1 .. Len(b)
        PROVE  N[j] \subseteq Strings /\ N[j] = Told(b, b[j], N)
    <3>1. M[j] \subseteq Strings /\ M[j] = Told(c, c[j], M)
      BY <1>5, <2>1 DEF Meaning
    <3>2. HeldFrom(b, c, c, z)
      BY <2>3 DEF HeldFrom
    <3>3. Told(c, c[j], M) = Told(b, b[j], N)
      <4>1. Complete(b) /\ j \in 1 .. Len(b)
        OBVIOUS
      <4> QED
        BY ONLY <1>2, <1>4, <2>2, <3>2, <4>1, MovedTold
    <3> QED
      BY <2>3, <3>1, <3>3
  <2>5. Meaning(b, N)
    BY <2>4 DEF Meaning
  <2>6. Len(b) \in 1 .. Len(b)
    BY <1>2
  <2> QED
    BY <2>1, <2>3, <2>5, <2>6 DEF Means
<1> QED
  BY <1>1, <1>5 DEF Means

-----------------------------------------------------------------------------
(* A string, and a list of them.                                           *)

LEMMA CharStrings ==
  /\ Seq(Chars) \subseteq Strings /\ \A c \in Chars : <<c>> \in Strings
  /\ \A c \in Chars : c \in Gen_chars
<1>1. Chars \subseteq Gen_chars
  BY Zenon DEF Gen_chars
<1>2. Seq(Chars) \subseteq Strings
  <2>1. PICK C, G : C = Chars /\ G = Gen_chars
    OBVIOUS
  <2>2. C \subseteq G
    BY <1>1, <2>1
  <2>3. Seq(C) \subseteq Seq(G)
    BY <2>2
  <2> QED
    BY <2>1, <2>3 DEF Strings
<1>3. \A c \in Chars : <<c>> \in Seq(Chars)
  OBVIOUS
<1> QED
  BY <1>1, <1>2, <1>3

LEMMA CharOfIs ==
  ASSUME NEW c \in Chars, NEW com, com = Char_of(c)
  PROVE  /\ com \in UnwrappedCommands /\ com.kind = "char_def"
         /\ LettersWords(Letters(com)) = {<<c>>}
         /\ \A b, M : Told(b, com, M) = {<<c>>}
<1>1. PICK new : new = Unwrapped("char_def")
  OBVIOUS
<1>2. com \in UnwrappedCommands /\ com.kind = "char_def" /\ com.s = {c}
  <2>1. new \in UnwrappedCommands /\ new.kind = "char_def"
    BY <1>1, FreshCommand DEF Kinds
  <2>2. com = [new EXCEPT !.s = {c}]
    BY <1>1 DEF Char_of
  <2> QED
    BY <2>1, <2>2, UnwrappedAre
<1>3. Letters(com) = {c}
  BY <1>2, Zenon DEF Letters
<1>4. LettersWords(Letters(com)) = {<<c>>}
  BY <1>3, Zenon DEF LettersWords
<1>5. com.kind \in Simple
  BY <1>2 DEF Simple
<1>6. \A b, M : Told(b, com, M) = {<<c>>}
  BY <1>4, <1>5, ToldSimple
<1> QED
  BY <1>2, <1>4, <1>6

(* Commands that mean one string.                                          *)
MeansOnly(r, w) == r \in Buffers /\ w \in Strings /\ Means(r, {w})

LEMMA CharMeans ==
  ASSUME NEW c \in Chars
  PROVE  MeansOnly(<<Char_of(c)>>, <<c>>)
<1>1. PICK com, e, u : com = Char_of(c) /\ e = <<>> /\ u = Append(e, com)
  OBVIOUS
<1>2. com \in UnwrappedCommands /\ \A b, M : Told(b, com, M) = {<<c>>}
  BY <1>1, CharOfIs
<1>3. e \in Seq(UnwrappedCommands)
  BY <1>1
<1>4. Means(u, {<<c>>})
  <2>1. \A M : Meaning(u, M) => Told(u, com, M) = {<<c>>}
    BY <1>2
  <2>2. com \in UnwrappedCommands /\ u = Append(e, com)
    BY <1>1, <1>2
  <2> QED
    BY ONLY <1>3, <2>1, <2>2, WrittenMeans
<1>5. u = <<Char_of(c)>>
  BY <1>1
<1> QED
  BY <1>4, <1>5, CharBuffer, CharStrings DEF MeansOnly

LEMMA CatOnly ==
  ASSUME NEW u \in Strings, NEW v \in Strings
  PROVE  Cat({u}, {v}) = {u \o v}
<1>1. u \o v \in Strings
  BY Strung
<1> QED
  BY <1>1 DEF Cat

LEMMA SpellMeans ==
  ASSUME NEW c \in Chars, NEW r, NEW w, MeansOnly(r, w)
  PROVE  MeansOnly(Spell_on(r, c), w \o <<c>>)
<1>1. PICK x, n, m : x = Char_of(c) /\ n = Len(r) /\ m = n + 1
  OBVIOUS
<1>2. PICK y : y = [Unwrapped("concat") EXCEPT !.first = n, !.second = m]
  OBVIOUS
<1>3. /\ Complete(r) /\ r # <<>> /\ r \in Seq(UnwrappedCommands) /\ n \in Nat
      /\ n >= 1 /\ m \in Nat /\ w \in Strings /\ Means(r, {w})
      /\ <<c>> \in Strings
  BY <1>1, CharStrings DEF MeansOnly, Buffers
<1>4. x \in UnwrappedCommands /\ \A b, M : Told(b, x, M) = {<<c>>}
  BY <1>1, CharOfIs
<1>5. y \in UnwrappedCommands /\ y.kind = "concat" /\ y.first = n /\ y.second = m
  <2>1. PICK new : new = Unwrapped("concat")
    OBVIOUS
  <2>2. new \in UnwrappedCommands /\ new.kind = "concat"
    BY <2>1, FreshCommand DEF Kinds, Binary
  <2>3. y = [new EXCEPT !.first = n, !.second = m]
    BY <1>2, <2>1
  <2>4. n \in Nat /\ m \in Nat
    BY <1>3
  <2>5. /\ y \in UnwrappedCommands /\ y.kind = new.kind
        /\ y.first = n /\ y.second = m
    BY ONLY <2>2, <2>3, <2>4, UnwrappedAre
  <2> QED
    BY <2>2, <2>5
<1>6. PICK u, v : u = Append(r, x) /\ v = Append(u, y)
  OBVIOUS
<1>7. /\ u \in Seq(UnwrappedCommands) /\ Len(u) = m /\ u[m] = x /\ Kept(r, u)
  <2>1. /\ u \in Seq(UnwrappedCommands) /\ Len(u) = Len(r) + 1
        /\ u[Len(u)] = x /\ Kept(r, u)
    BY <1>3, <1>4, <1>6, KeptAppended
  <2> QED
    BY <1>1, <2>1
<1>8. /\ v \in Seq(UnwrappedCommands) /\ Len(v) \in Nat /\ Kept(u, v)
      /\ v[m] = x /\ m \in 1 .. Len(v)
  <2>1. v \in Seq(UnwrappedCommands) /\ Len(v) = Len(u) + 1 /\ Kept(u, v)
    BY <1>5, <1>6, <1>7, KeptAppended
  <2> QED
    BY <1>1, <1>3, <1>7, <2>1 DEF Kept
<1>9. Kept(r, v)
  <2>1. Len(r) \in Nat /\ Len(u) \in Nat /\ Len(v) \in Nat
    BY <1>3, <1>7, <1>8
  <2> QED
    BY ONLY <2>1, <1>7, <1>8, KeptOn
<1>10. Spell_on(r, c) = v
  <2>1. y = [Unwrapped("concat") EXCEPT !.first = Len(r), !.second = Len(r) + 1]
    BY <1>1, <1>2
  <2>2. Spell_on(r, c) = r \o <<x, y>>
    BY <1>1, <2>1, Zenon DEF Spell_on
  <2>3. r \o <<x, y>> = Append(Append(r, x), y)
    BY <1>3, <1>4, <1>5, TwoAppended
  <2> QED
    BY <1>6, <2>2, <2>3
<1>11. ASSUME NEW M, Meaning(v, M) PROVE Told(v, y, M) = {w \o <<c>>}
  <2>1. Meaning(r, M)
    BY <1>3, <1>8, <1>9, <1>11, MeaningKept
  <2>2. M[n] = {w}
    BY <1>1, <1>3, <2>1 DEF Means
  <2>3. M[m] = {<<c>>}
    BY <1>4, <1>8, <1>11 DEF Meaning
  <2>4. Told(v, y, M) = Cat(M[n], M[m])
    BY <1>5, Zenon DEF Told
  <2>5. Cat({w}, {<<c>>}) = {w \o <<c>>}
    BY <1>3, CatOnly
  <2> QED
    BY <2>2, <2>3, <2>4, <2>5
<1>12. Means(v, {w \o <<c>>})
  BY <1>5, <1>6, <1>7, <1>11, WrittenMeans
<1>13. w \o <<c>> \in Strings /\ v \in Buffers
  BY <1>3, <1>10, Strung, SpellBuffer DEF MeansOnly
<1> QED
  BY <1>10, <1>12, <1>13 DEF MeansOnly

LEMMA StringMeans ==
  ASSUME NEW str \in Seq(Chars), str # <<>>
  PROVE  MeansOnly(u32string_to_commands(str), str)
<1>1. PICK n, T : /\ n = Len(str)
                  /\ T = [k \in 1 .. n |-> {r \in Buffers : MeansOnly(r, SubSeq(str, 1, k))}]
  OBVIOUS
<1>2. /\ n \in Nat /\ 1 \in 1 .. n /\ n \in 1 .. n
      /\ \A k \in 1 .. n : str[k] \in Chars
  BY <1>1
<1>3. PICK f : f = CHOOSE g : IsSpelt(str, g)
  OBVIOUS
<1>4. IsSpelt(str, f)
  BY <1>3, SpeltExists, Zenon
<1>5. u32string_to_commands(str) = f[Len(str)]
  BY <1>3, Zenon DEF u32string_to_commands, IsSpelt, Spell_on, Char_of
<1>6. ASSUME NEW k \in 1 .. n, \A j \in 1 .. k - 1 : f[j] \in T[j]
      PROVE  f[k] \in T[k]
  <2>1. f[k] = IF k = 1 THEN <<Char_of(str[1])>> ELSE Spell_on(f[k - 1], str[k])
    BY <1>1, <1>4 DEF IsSpelt
  <2>2. CASE k = 1
    <3>1. SubSeq(str, 1, 1) = <<str[1]>>
      <4>1. PICK s : s = SubSeq(str, 1, 1)
        OBVIOUS
      <4>2. s \in Seq(Chars) /\ Len(s) = 1 /\ s[1] = str[1]
        BY <1>1, <1>2, <4>1
      <4>3. s = <<s[1]>>
        BY <4>2
      <4> QED
        BY <4>1, <4>2, <4>3
    <3>2. MeansOnly(f[k], SubSeq(str, 1, k))
      BY <1>2, <2>1, <2>2, <3>1, CharMeans
    <3> QED
      BY <1>1, <3>2 DEF MeansOnly
  <2>3. CASE k # 1
    <3>1. k - 1 \in 1 .. k - 1 /\ k - 1 \in 1 .. n
      BY <1>2, <2>3
    <3>2. MeansOnly(f[k - 1], SubSeq(str, 1, k - 1))
      BY <1>1, <1>6, <3>1
    <3>3. MeansOnly(f[k], SubSeq(str, 1, k - 1) \o <<str[k]>>)
      BY <1>2, <2>1, <2>3, <3>2, SpellMeans
    <3>4. SubSeq(str, 1, k - 1) \o <<str[k]>> = SubSeq(str, 1, k)
      BY <1>1, <1>2, <3>1
    <3> QED
      BY <1>1, <3>3, <3>4 DEF MeansOnly
  <2> QED
    BY <2>2, <2>3
<1>7. \A k \in 1 .. n : f[k] \in T[k]
  BY <1>2, <1>6, RecursionTyped
<1>8. MeansOnly(f[n], SubSeq(str, 1, n))
  BY <1>1, <1>2, <1>7
<1>9. SubSeq(str, 1, n) = str
  BY <1>1
<1> QED
  BY <1>1, <1>5, <1>8, <1>9

(* Commands that mean the first k strings.                                 *)
FirstOnes(strs, k) == {strs[j] : j \in 1 .. k}
MeansFirst(strs, k, r) ==
  /\ Complete(r)
  /\ k = 0 => r = <<>>
  /\ k # 0 => r # <<>> /\ Means(r, FirstOnes(strs, k))

LEMMA OneStringMore ==
  ASSUME NEW n \in Nat, NEW strs, \A j \in 1 .. n : strs[j] \in Seq(Chars) /\ strs[j] # <<>>,
         NEW k \in 1 .. n, NEW r, MeansFirst(strs, k - 1, r)
  PROVE  MeansFirst(strs, k, regexp1_or_regexp2(r, u32string_to_commands(strs[k])))
<1>1. PICK b : b = u32string_to_commands(strs[k])
  OBVIOUS
<1>2. MeansOnly(b, strs[k])
  BY <1>1, StringMeans
<1>3. Complete(b) /\ b # <<>> /\ Means(b, {strs[k]}) /\ Complete(r)
  BY <1>2 DEF MeansOnly, Buffers, MeansFirst
<1>4. Complete(regexp1_or_regexp2(r, b)) /\ regexp1_or_regexp2(r, b) # <<>>
  BY <1>3, OrComplete
<1>5. CASE k = 1
  <2>1. r = <<>>
    BY <1>5 DEF MeansFirst
  <2>2. regexp1_or_regexp2(r, b) = b
    BY <2>1 DEF regexp1_or_regexp2
  <2>3. FirstOnes(strs, k) = {strs[k]}
    <3>1. 1 .. k = {k}
      BY <1>5
    <3> QED
      BY <3>1 DEF FirstOnes
  <2>4. k # 0 /\ Means(b, FirstOnes(strs, k))
    BY <1>3, <2>3
  <2>5. MeansFirst(strs, k, b)
    BY <1>3, <2>4 DEF MeansFirst
  <2> QED
    BY <1>1, <2>2, <2>5
<1>6. CASE k # 1
  <2>1. r # <<>> /\ Means(r, FirstOnes(strs, k - 1))
    BY <1>6 DEF MeansFirst
  <2>2. Means(regexp1_or_regexp2(r, b), FirstOnes(strs, k - 1) \cup {strs[k]})
    BY <1>3, <2>1, OrMeans
  <2>3. FirstOnes(strs, k) = FirstOnes(strs, k - 1) \cup {strs[k]}
    <3>1. 1 .. k = (1 .. k - 1) \cup {k}
      OBVIOUS
    <3> QED
      BY <3>1, Zenon DEF FirstOnes
  <2> QED
    BY <1>1, <1>4, <1>6, <2>2, <2>3 DEF MeansFirst
<1> QED
  BY <1>5, <1>6

LEMMA StringsMean ==
  ASSUME NEW strs \in Seq(Seq(Chars) \ {<<>>})
  PROVE  MeansFirst(strs, Len(strs), u32strings_to_commands(strs))
<1>1. PICK n, T : /\ n = Len(strs)
                  /\ T = [k \in 0 .. n |-> {r \in Completes : MeansFirst(strs, k, r)}]
  OBVIOUS
<1>2. n \in Nat /\ n \in 0 .. n
  BY <1>1
<1>3. \A j \in 1 .. n : strs[j] \in Seq(Chars) /\ strs[j] # <<>>
  <2>1. \A j \in 1 .. n : strs[j] \in Seq(Chars) \ {<<>>}
    BY <1>1
  <2> QED
    BY <2>1
<1>4. PICK f : f = CHOOSE g : IsJoined(strs, g)
  OBVIOUS
<1>5. IsJoined(strs, f)
  BY <1>4, StringsJoined, Zenon
<1>6. u32strings_to_commands(strs) = f[Len(strs)]
  BY <1>4, Zenon DEF u32strings_to_commands, IsJoined
<1>7. \A k \in 0 .. n : \A r : r \in T[k] <=> MeansFirst(strs, k, r)
  <2>1. \A k, r : MeansFirst(strs, k, r) => r \in Completes
    BY DEF MeansFirst, Completes, Complete
  <2> QED
    BY <1>1, <2>1
<1>8. ASSUME NEW k \in 0 .. n, \A j \in 0 .. k - 1 : f[j] \in T[j]
      PROVE  f[k] \in T[k]
  <2>1. f[k] = IF k = 0 THEN <<>>
               ELSE regexp1_or_regexp2(f[k - 1], u32string_to_commands(strs[k]))
    BY <1>1, <1>5 DEF IsJoined
  <2>2. CASE k = 0
    <3>1. MeansFirst(strs, k, <<>>)
      BY <2>2, EmptyComplete DEF MeansFirst
    <3> QED
      BY <1>7, <2>1, <2>2, <3>1
  <2>3. CASE k # 0
    <3>1. k \in 1 .. n /\ k - 1 \in 0 .. k - 1 /\ k - 1 \in 0 .. n
      BY <1>2, <2>3
    <3>2. MeansFirst(strs, k - 1, f[k - 1])
      BY <1>7, <1>8, <3>1
    <3>3. MeansFirst(strs, k, f[k])
      BY <1>2, <1>3, <2>1, <2>3, <3>1, <3>2, OneStringMore
    <3> QED
      BY <1>7, <3>3
  <2> QED
    BY <2>2, <2>3
<1>9. \A k \in 0 .. n : f[k] \in T[k]
  BY <1>2, <1>8, RecursionTyped
<1> QED
  BY <1>1, <1>2, <1>6, <1>7, <1>9

(* The keywords, and that no keyword means nothing.                        *)
LEMMA KeywordsMean ==
  ASSUME NEW a, Complete(a), a # <<>>, NEW X, Means(a, X),
         NEW strs \in Seq(Seq(Chars) \ {<<>>})
  PROVE  Means(regexp1_or_regexp2(a, u32strings_to_commands(strs)), X \cup Range(strs))
<1>1. PICK n, b : n = Len(strs) /\ b = u32strings_to_commands(strs)
  OBVIOUS
<1>2. MeansFirst(strs, n, b) /\ n \in Nat /\ DOMAIN strs = 1 .. n
  BY <1>1, StringsMean
<1>3. Range(strs) = FirstOnes(strs, n)
  BY <1>2 DEF Range, FirstOnes
<1>4. CASE n = 0
  <2>1. b = <<>>
    BY <1>2, <1>4 DEF MeansFirst
  <2>2. FirstOnes(strs, n) = {}
    <3>1. 1 .. n = {}
      BY <1>4
    <3> QED
      BY <3>1 DEF FirstOnes
  <2>3. regexp1_or_regexp2(a, b) = a
    BY <2>1 DEF regexp1_or_regexp2
  <2>4. X \cup Range(strs) = X
    BY <1>3, <2>2
  <2> QED
    BY <1>1, <2>3, <2>4
<1>5. CASE n # 0
  <2>1. Complete(b) /\ b # <<>> /\ Means(b, FirstOnes(strs, n))
    BY <1>2, <1>5 DEF MeansFirst
  <2> QED
    BY <1>1, <1>3, <2>1, OrMeans
<1> QED
  BY <1>4, <1>5

-----------------------------------------------------------------------------
(* Strings repeated, up to a length.                                       *)

LEMMA JoinPlain ==
  ASSUME NEW V, V \subseteq Strings, NEW W, W \subseteq Strings, NEW n \in Nat
  PROVE  /\ Join(V, W, n) \subseteq Strings
         /\ \A v \in V : \A w \in W :
              Len(v) + Len(w) <= n => v \o w \in Join(V, W, n)
         /\ \A x \in Join(V, W, n) : \E v \in V : \E w \in W :
              x = v \o w /\ Len(x) <= n
<1>1. \A v \in V : \A w \in W :
        v \o w \in Strings /\ Len(v \o w) = Len(v) + Len(w)
  BY DEF Strings
<1> DEFINE P == {x \o y : x \in V, y \in W}
<1>2. Join(V, W, n) = {w \in P : Len(w) <= n}
  BY DEF Join
<1>3. \A v \in V : \A w \in W : v \o w \in P
  OBVIOUS
<1>4. \A x \in P : \E v \in V : \E w \in W : x = v \o w
  OBVIOUS
<1> HIDE DEF P
<1>5. P \subseteq Strings
  BY <1>1, <1>4
<1>6. \A v \in V : \A w \in W :
        Len(v) + Len(w) <= n => v \o w \in Join(V, W, n)
  BY <1>1, <1>2, <1>3
<1> QED
  BY <1>2, <1>4, <1>5, <1>6

LEMMA PlainExists ==
  ASSUME NEW X, X \subseteq Strings, NEW Z, Z \subseteq Strings, NEW n \in Nat
  PROVE  \E f : IsRepeated(X, Z, n, f) /\ \A k \in 0 .. n : f[k] \subseteq Strings
<1>1. PICK T : T = [k \in 0 .. n |-> SUBSET Strings]
  OBVIOUS
<1>2. PICK G : G = [k \in 0 .. n |-> [W \in SUBSET Strings |-> W \cup Join(W, X, n)]]
  OBVIOUS
<1>3. \A k \in 0 .. n : \A W \in SUBSET Strings : G[k][W] = W \cup Join(W, X, n)
  BY <1>2
<1>4. \A W \in SUBSET Strings : W \cup Join(W, X, n) \in SUBSET Strings
  BY JoinPlain
<1>5. \A k \in 0 .. n : T[k] = SUBSET Strings
  BY <1>1
<1>6. \A k \in 0 + 1 .. n : \A W \in T[k - 1] : G[k][W] \in T[k]
  <2>1. \A k \in 0 + 1 .. n : k \in 0 .. n /\ k - 1 \in 0 .. n
    OBVIOUS
  <2> QED
    BY <2>1, <1>3, <1>4, <1>5
<1>7. Z \in T[0]
  BY <1>5
<1>8. PICK f : Steps(f, G, Z, 0, n) /\ \A k \in 0 .. n : f[k] \in T[k]
  BY <1>6, <1>7, StepsExist
<1>9. \A k \in 0 .. n : f[k] \in SUBSET Strings
  BY <1>5, <1>8
<1>10. ASSUME NEW k \in 0 .. n
       PROVE  f[k] = IF k = 0 THEN Z ELSE f[k - 1] \cup Join(f[k - 1], X, n)
  <2>1. f[k] = IF k = 0 THEN Z ELSE G[k][f[k - 1]]
    BY <1>8 DEF Steps
  <2>2. k # 0 => k - 1 \in 0 .. n
    OBVIOUS
  <2>3. k # 0 => G[k][f[k - 1]] = f[k - 1] \cup Join(f[k - 1], X, n)
    BY <1>3, <1>9, <2>2
  <2> QED
    BY <2>1, <2>3
<1>11. f = [k \in 0 .. n |-> f[k]]
  BY <1>8 DEF Steps
<1>12. IsRepeated(X, Z, n, f)
  BY <1>10, <1>11 DEF IsRepeated
<1> QED
  BY <1>9, <1>12

LEMMA RepeatedIs ==
  ASSUME NEW n \in Nat, NEW X, X \subseteq Strings, NEW Y, Y \subseteq Strings,
         NEW Z, Z = {y \in Y : Len(y) <= n}
  PROVE  Repeated(X, Z, n) = {w \in Cat(Y, Star(X)) : Len(w) <= n}
<1>1. Z \subseteq Strings
  OBVIOUS
<1>2. PICK f : f = CHOOSE g : IsRepeated(X, Z, n, g)
  OBVIOUS
<1>3. IsRepeated(X, Z, n, f)
  BY <1>1, <1>2, PlainExists, Zenon
<1>4. Repeated(X, Z, n) = f[n]
  BY <1>2, Zenon DEF Repeated, IsRepeated
<1>5. /\ f[0] = Z
      /\ \A k \in 1 .. n : f[k] = f[k - 1] \cup Join(f[k - 1], X, n)
  <2>1. 0 \in 0 .. n /\ \A k \in 1 .. n : k \in 0 .. n /\ k # 0
    OBVIOUS
  <2> QED
    BY <1>3, <2>1 DEF IsRepeated
<1>6. Star(X) \subseteq Strings /\ <<>> \in Star(X)
  BY StarIs
<1>7. PICK C : C = Cat(Y, Star(X))
  OBVIOUS
<1>8. /\ C \subseteq Strings /\ \A y \in Y : y \in C
      /\ \A c \in C : \A x \in X : c \o x \in C
  <2>1. C \subseteq Strings
    BY <1>6, <1>7, CatIs
  <2>2. ASSUME NEW y \in Y PROVE y \in C
    <3>1. y \o <<>> \in C /\ y \in Strings
      BY <1>6, <1>7, CatIs
    <3>2. y \o <<>> = y
      BY <3>1, Strung
    <3> QED
      BY <3>1, <3>2
  <2>3. ASSUME NEW c \in C, NEW x \in X PROVE c \o x \in C
    <3>1. PICK y \in Y, k \in Star(X) : c = y \o k
      BY <1>7 DEF Cat
    <3>2. k \o x \in Star(X)
      BY StarRight
    <3>3. y \o (k \o x) \in C
      BY <1>6, <1>7, <3>2, CatIs
    <3>4. y \in Strings /\ k \in Strings /\ x \in Strings
      BY <1>6
    <3>5. (y \o k) \o x = y \o (k \o x)
      BY <3>4, Strung
    <3> QED
      BY <3>1, <3>3, <3>5
  <2> QED
    BY <2>1, <2>2, <2>3
<1>9. PICK T : T = [k \in 0 .. n |->
                      {W \in SUBSET Strings :
                         /\ \A w \in W : Len(w) <= n /\ w \in C
                         /\ \A j \in 0 .. k - 1 : f[j] \subseteq W}]
  OBVIOUS
<1>10. ASSUME NEW k \in 0 .. n, \A j \in 0 .. k - 1 : f[j] \in T[j]
       PROVE  f[k] \in T[k]
  <2>1. CASE k = 0
    <3>1. \A w \in Z : Len(w) <= n /\ w \in C
      BY <1>8
    <3>2. \A j \in 0 .. k - 1 : f[j] \subseteq Z
      BY <2>1
    <3> QED
      BY <2>1, <3>1, <3>2, <1>1, <1>5, <1>9
  <2>2. CASE k # 0
    <3>1. PICK W : W = f[k - 1]
      OBVIOUS
    <3>2. k - 1 \in 0 .. k - 1 /\ k - 1 \in 0 .. n /\ k \in 1 .. n
      BY <2>2
    <3>3. /\ W \in SUBSET Strings /\ \A w \in W : Len(w) <= n /\ w \in C
          /\ \A j \in 0 .. (k - 1) - 1 : f[j] \subseteq W
      BY <3>2, <3>1, <1>9, <1>10
    <3>4. f[k] = W \cup Join(W, X, n)
      BY <3>1, <3>2, <1>5
    <3>5. Join(W, X, n) \in SUBSET Strings
      BY <3>3, JoinPlain
    <3>6. ASSUME NEW x \in Join(W, X, n) PROVE Len(x) <= n /\ x \in C
      <4>1. PICK w \in W, v \in X : x = w \o v /\ Len(x) <= n
        BY <3>3, JoinPlain
      <4> QED
        BY <4>1, <3>3, <1>8
    <3>7. ASSUME NEW j \in 0 .. k - 1 PROVE f[j] \subseteq f[k]
      <4>1. j = k - 1 \/ j \in 0 .. (k - 1) - 1
        OBVIOUS
      <4>2. f[j] \subseteq W
        BY <4>1, <3>1, <3>3
      <4> QED
        BY <4>2, <3>4
    <3> QED
      BY <1>9, <3>3, <3>4, <3>5, <3>6, <3>7
  <2> QED
    BY <2>1, <2>2
<1>11. \A k \in 0 .. n : f[k] \in T[k]
  BY <1>10, RecursionTyped
<1>12. \A k \in 0 .. n :
         /\ f[k] \subseteq Strings /\ \A w \in f[k] : Len(w) <= n /\ w \in C
         /\ \A j \in 0 .. k : f[j] \subseteq f[k]
  <2>1. \A k \in 0 .. n :
          /\ f[k] \subseteq Strings /\ \A w \in f[k] : Len(w) <= n /\ w \in C
          /\ \A j \in 0 .. k - 1 : f[j] \subseteq f[k]
    BY <1>9, <1>11
  <2>2. \A k \in 0 .. n : \A j \in 0 .. k : j = k \/ j \in 0 .. k - 1
    OBVIOUS
  <2> QED
    BY <2>1, <2>2
<1>14. PICK K : K = {u \in Strings : \A y \in Y : Len(y \o u) <= n =>
                       y \o u \in f[Len(u)]}
  OBVIOUS
<1>15. K \in SUBSET Strings
  BY <1>14
<1>16. <<>> \in K
  <2>1. <<>> \in Strings /\ Len(<<>>) = 0
    BY Strung
  <2>2. ASSUME NEW y \in Y, Len(y \o <<>>) <= n
        PROVE  y \o <<>> \in f[Len(<<>>)]
    <3>1. y \o <<>> = y
      BY Strung
    <3> QED
      BY <1>5, <2>1, <2>2, <3>1
  <2> QED
    BY <1>14, <2>1, <2>2
<1>17. ASSUME NEW k \in K, NEW x \in X
       PROVE  k \o x \in K
  <2>1. k \in Strings /\ x \in Strings /\ k \o x \in Strings
    BY <1>14, Strung
  <2>2. CASE x = <<>>
    BY <2>1, <2>2, Strung
  <2>3. CASE x # <<>>
    <3>1. ASSUME NEW y \in Y, Len(y \o (k \o x)) <= n
          PROVE  y \o (k \o x) \in f[Len(k \o x)]
      <4>1. y \in Strings
        OBVIOUS
      <4>2. PICK l, m, p : l = Len(k) /\ m = Len(x) /\ p = Len(y)
        OBVIOUS
      <4>3. /\ l \in Nat /\ m \in Nat /\ p \in Nat /\ m > 0
            /\ Len(k \o x) = l + m /\ Len(y \o k) = p + l
            /\ Len(y \o (k \o x)) = p + (l + m)
        BY <2>1, <2>3, <4>1, <4>2 DEF Strings
      <4>4. p + l <= n /\ l + m <= n /\ l + 1 <= l + m /\ l + 1 \in 1 .. n
            /\ l + 1 \in 0 .. l + m /\ l + m \in 0 .. n
            /\ (l + 1) - 1 = l /\ l \in 0 .. n
        BY <3>1, <4>3
      <4>5. y \o k \in f[l]
        BY <1>14, <4>2, <4>3, <4>4
      <4>6. Len(y \o k) + Len(x) <= n /\ f[l] \subseteq Strings
        BY <1>12, <3>1, <4>2, <4>3, <4>4
      <4>7. (y \o k) \o x \in Join(f[l], X, n)
        BY <4>5, <4>6, JoinPlain
      <4>8. (y \o k) \o x \in f[l + 1]
        BY <1>5, <4>4, <4>7
      <4>9. (y \o k) \o x \in f[l + m]
        BY <1>12, <4>4, <4>8
      <4>10. (y \o k) \o x = y \o (k \o x)
        BY <2>1, <4>1, Strung
      <4> QED
        BY <4>3, <4>9, <4>10
    <3> QED
      BY <1>14, <2>1, <3>1
  <2> QED
    BY <2>2, <2>3
<1>18. Star(X) \subseteq K
  BY <1>15, <1>16, <1>17, StarLeastRight
<1>19. ASSUME NEW c \in C, Len(c) <= n
       PROVE  c \in f[n]
  <2>1. PICK y \in Y, u \in Star(X) : c = y \o u
    BY <1>7 DEF Cat
  <2>2. u \in K /\ u \in Strings /\ y \in Strings
    BY <1>6, <1>18
  <2>3. c \in f[Len(u)]
    BY <1>14, <1>19, <2>1, <2>2
  <2>4. Len(u) \in 0 .. n /\ n \in 0 .. n
    <3>1. Len(u) \in Nat /\ Len(y) \in Nat /\ Len(y \o u) = Len(y) + Len(u)
      BY <2>2 DEF Strings
    <3> QED
      BY <3>1, <2>1, <1>19
  <2> QED
    BY <1>12, <2>3, <2>4
<1>20. \A w \in f[n] : Len(w) <= n /\ w \in C
  BY <1>12
<1> QED
  BY <1>4, <1>7, <1>19, <1>20

-----------------------------------------------------------------------------
(* What a text describes, as it grows by a lexeme.                         *)

StringsOf(s) ==
  {u \in [DOMAIN s -> Chars] :
     \A k \in DOMAIN s : u[k] \in Letters(unwrap(s[k].com))}

AllOf(P) == UNION {StringsOf(s) : s \in P}

LEMMA AllOfIs ==
  ASSUME NEW P, NEW y
  PROVE  y \in AllOf(P) <=> \E s \in P : y \in StringsOf(s)
BY Zenon DEF AllOf

LEMMA AllOfMore ==
  ASSUME NEW P, NEW s
  PROVE  AllOf(P \cup {s}) = AllOf(P) \cup StringsOf(s)
<1>1. PICK A, B, C : A = AllOf(P \cup {s}) /\ B = AllOf(P) /\ C = StringsOf(s)
  OBVIOUS
<1>2. ASSUME NEW y PROVE y \in A <=> y \in B \cup C
  <2>1. y \in A <=> \E x \in P \cup {s} : y \in StringsOf(x)
    BY <1>1, AllOfIs
  <2>2. y \in B <=> \E x \in P : y \in StringsOf(x)
    BY <1>1, AllOfIs
  <2> QED
    BY ONLY <1>1, <2>1, <2>2
<1> QED
  BY <1>1, <1>2

LEMMA DescribedIs ==
  ASSUME NEW t
  PROVE  Described(t) = AllOf(Pieces(t))
BY Zenon DEF Described, StringsOf, AllOf

LastMark(t, o) == IsMark(t, o) /\ \A k \in DOMAIN t : IsMark(t, k) => k <= o

(* What follows the lexeme o.                                              *)
Since(t, o) == SubSeq(t, o + 1, Len(t))

LEMMA BeginningSame ==
  ASSUME NEW S, NEW t \in Seq(S), NEW x \in S, NEW u, u = Append(t, x),
         NEW i \in Nat, i >= 1, NEW j \in Nat, j <= Len(t)
  PROVE  SubSeq(u, i, j) = SubSeq(t, i, j)
<1>1. PICK a, b : a = SubSeq(u, i, j) /\ b = SubSeq(t, i, j)
  OBVIOUS
<1>2. u \in Seq(S) /\ Len(u) = Len(t) + 1 /\ Len(t) \in Nat
      /\ \A k \in 1 .. Len(t) : u[k] = t[k]
  OBVIOUS
<1>3. CASE i > j
  BY <1>1, <1>2, <1>3
<1>4. CASE i <= j
  <2>1. PICK l : l = j - i + 1
    OBVIOUS
  <2>2. l \in Nat /\ j <= Len(u)
    BY <1>2, <1>4, <2>1
  <2>3. a \in Seq(S) /\ Len(a) = l /\ \A k \in 1 .. l : a[k] = u[i + k - 1]
    BY <1>1, <1>2, <1>4, <2>1, <2>2, PieceIs
  <2>4. b \in Seq(S) /\ Len(b) = l /\ \A k \in 1 .. l : b[k] = t[i + k - 1]
    BY <1>1, <1>2, <1>4, <2>1, <2>2, PieceIs
  <2>5. \A k \in 1 .. l : a[k] = b[k]
    BY <1>2, <1>4, <2>1, <2>3, <2>4
  <2> QED
    BY <1>1, <2>3, <2>4, <2>5, SameStrings
<1> QED
  BY <1>3, <1>4

LEMMA MarksAppended ==
  ASSUME NEW t \in Seq(Lexems), NEW l \in Lexems, NEW u, u = Append(t, l)
  PROVE  /\ Len(t) \in Nat /\ DOMAIN t = 1 .. Len(t) /\ DOMAIN u = 1 .. Len(t) + 1
         /\ u \in Seq(Lexems)
         /\ \A k \in 1 .. Len(t) : u[k] = t[k] /\ (IsMark(u, k) <=> IsMark(t, k))
         /\ IsMark(u, Len(t) + 1) <=> l \in Marks
         /\ u[Len(t) + 1] = l
<1>1. /\ Len(t) \in Nat /\ DOMAIN t = 1 .. Len(t) /\ DOMAIN u = 1 .. Len(t) + 1
      /\ u \in Seq(Lexems) /\ \A k \in 1 .. Len(t) : u[k] = t[k]
      /\ u[Len(t) + 1] = l
  OBVIOUS
<1> QED
  BY <1>1 DEF IsMark

(* A letter more: the pieces stay.                                         *)
LEMMA PiecesSame ==
  ASSUME NEW t \in Seq(Lexems), NEW l \in Lexems, l \notin Marks, NEW u,
         u = Append(t, l)
  PROVE  Pieces(u) = Pieces(t)
<1>1. /\ Len(t) \in Nat /\ DOMAIN t = 1 .. Len(t) /\ DOMAIN u = 1 .. Len(t) + 1
      /\ \A k \in 1 .. Len(t) : IsMark(u, k) <=> IsMark(t, k)
      /\ ~IsMark(u, Len(t) + 1)
  BY MarksAppended
<1>2. \A k : IsMark(u, k) <=> IsMark(t, k)
  <2>1. \A k \in DOMAIN u : k \in DOMAIN t \/ k = Len(t) + 1
    BY <1>1
  <2>2. DOMAIN t \subseteq DOMAIN u
    BY <1>1
  <2> QED
    BY <1>1, <2>1, <2>2 DEF IsMark
<1>3. \A i, j : Adjoin(u, i, j) <=> Adjoin(t, i, j)
  <2>1. \A k : IsMark(t, k) => k \in DOMAIN t /\ k \in DOMAIN u
    BY <1>1, <1>2 DEF IsMark
  <2> QED
    BY <1>2, <2>1 DEF Adjoin
<1>4. ASSUME NEW i, NEW j, Adjoin(t, i, j)
      PROVE  SubSeq(u, i + 1, j - 1) = SubSeq(t, i + 1, j - 1)
  <2>1. i \in 1 .. Len(t) /\ j \in 1 .. Len(t)
    BY <1>1, <1>4 DEF Adjoin, IsMark
  <2>2. PICK p, q : p = i + 1 /\ q = j - 1
    OBVIOUS
  <2>3. p \in Nat /\ p >= 1 /\ q \in Nat /\ q <= Len(t)
    BY <1>1, <2>1, <2>2
  <2>4. SubSeq(u, p, q) = SubSeq(t, p, q)
    BY <2>3, BeginningSame
  <2> QED
    BY <2>2, <2>4
<1>5. ASSUME NEW s \in Pieces(u) PROVE s \in Pieces(t)
  <2>0. s \in Pieces(u)
    BY ONLY <1>5
  <2>1. PICK i, j : Adjoin(u, i, j) /\ s = SubSeq(u, i + 1, j - 1)
    BY ONLY <2>0, PiecesAre
  <2>2. Adjoin(t, i, j) /\ s = SubSeq(t, i + 1, j - 1)
    BY <1>3, <1>4, <2>1
  <2> QED
    BY ONLY <2>2, PiecesAre
<1>6. ASSUME NEW s \in Pieces(t) PROVE s \in Pieces(u)
  <2>1. PICK i, j : Adjoin(t, i, j) /\ s = SubSeq(t, i + 1, j - 1)
    BY PiecesAre
  <2>2. SubSeq(u, i + 1, j - 1) \in Pieces(u)
    BY <1>3, <2>1, PiecesAre
  <2> QED
    BY <1>4, <2>1, <2>2
<1> QED
  BY <1>5, <1>6

(* A mark more: one piece more, from the last mark on.                     *)
LEMMA PiecesMore ==
  ASSUME NEW t \in Seq(Lexems), NEW l \in Lexems, l \in Marks, NEW u,
         u = Append(t, l), NEW o, LastMark(t, o)
  PROVE  Pieces(u) = Pieces(t) \cup {SubSeq(t, o + 1, Len(t))}
<1>1. /\ Len(t) \in Nat /\ DOMAIN t = 1 .. Len(t) /\ DOMAIN u = 1 .. Len(t) + 1
      /\ \A k \in 1 .. Len(t) : IsMark(u, k) <=> IsMark(t, k)
      /\ IsMark(u, Len(t) + 1)
  BY MarksAppended
<1>2. PICK n, e : n = Len(t) /\ e = n + 1
  OBVIOUS
<1>3. /\ n \in Nat /\ o \in 1 .. n /\ e \notin 1 .. n
      /\ \A k : IsMark(t, k) => k \in 1 .. n
      /\ \A k : IsMark(u, k) <=> IsMark(t, k) \/ k = e
  <2>1. o \in 1 .. n /\ \A k : IsMark(t, k) => k \in 1 .. n
    BY <1>1, <1>2 DEF LastMark, IsMark
  <2>2. \A k : IsMark(u, k) => k \in 1 .. n \/ k = e
    BY <1>1, <1>2 DEF IsMark
  <2> QED
    BY <1>1, <1>2, <2>1, <2>2
<1>4. ASSUME NEW i, NEW j
      PROVE  Adjoin(u, i, j) <=> Adjoin(t, i, j) \/ (i = o /\ j = e)
  <2>1. ASSUME Adjoin(t, i, j) PROVE Adjoin(u, i, j)
    <3>1. IsMark(u, i) /\ IsMark(u, j) /\ i < j
      BY <1>3, <2>1 DEF Adjoin
    <3>2. ASSUME NEW k \in DOMAIN u, IsMark(u, k) PROVE k <= i \/ k >= j
      <4>1. CASE k = e
        <5>1. j \in 1 .. n
          BY <1>3, <2>1 DEF Adjoin
        <5> QED
          BY <1>2, <1>3, <4>1, <5>1
      <4>2. CASE k # e
        <5>1. IsMark(t, k) /\ k \in DOMAIN t
          BY <1>3, <3>2, <4>2 DEF IsMark
        <5> QED
          BY <2>1, <5>1 DEF Adjoin
      <4> QED
        BY <4>1, <4>2
    <3> QED
      BY <3>1, <3>2 DEF Adjoin
  <2>2. ASSUME i = o, j = e PROVE Adjoin(u, i, j)
    <3>1. IsMark(u, i) /\ IsMark(u, j)
      BY <1>3, <2>2 DEF LastMark
    <3>2. i < j
      BY <1>2, <1>3, <2>2
    <3>3. ASSUME NEW k \in DOMAIN u, IsMark(u, k) PROVE k <= i \/ k >= j
      <4>1. IsMark(t, k) \/ k = e
        BY <1>3, <3>3
      <4>2. k = e => k >= j
        BY <1>2, <1>3, <2>2
      <4>3. IsMark(t, k) => k <= o
        <5>1. IsMark(t, k) => k \in DOMAIN t
          BY DEF IsMark
        <5> QED
          BY <5>1 DEF LastMark
      <4> QED
        BY <2>2, <4>1, <4>2, <4>3
    <3> QED
      BY <3>1, <3>2, <3>3 DEF Adjoin
  <2>3. ASSUME Adjoin(u, i, j), j = e PROVE i = o
    <3>1. IsMark(t, i) /\ i \in 1 .. n
      <4>1. IsMark(u, i) /\ i < j
        BY <2>3 DEF Adjoin
      <4>2. i # e
        BY <1>2, <1>3, <2>3, <4>1
      <4> QED
        BY <1>3, <4>1, <4>2
    <3>2. i <= o
      BY <3>1 DEF LastMark, IsMark
    <3>3. IsMark(u, o) /\ o \in DOMAIN u
      BY <1>3 DEF LastMark, IsMark
    <3>4. o <= i \/ o >= e
      BY <2>3, <3>3 DEF Adjoin
    <3> QED
      BY <1>2, <1>3, <3>1, <3>2, <3>4
  <2>4. ASSUME Adjoin(u, i, j), j # e PROVE Adjoin(t, i, j)
    <3>1. IsMark(u, i) /\ IsMark(u, j) /\ i < j
      BY <2>4 DEF Adjoin
    <3>2. IsMark(t, j) /\ j \in 1 .. n
      BY <1>3, <2>4, <3>1
    <3>3. IsMark(t, i)
      <4>1. i # e
        BY <1>2, <1>3, <3>1, <3>2
      <4> QED
        BY <1>3, <3>1, <4>1
    <3>4. ASSUME NEW k \in DOMAIN t, IsMark(t, k) PROVE k <= i \/ k >= j
      <4>1. IsMark(u, k) /\ k \in DOMAIN u
        BY <1>3, <3>4 DEF IsMark
      <4> QED
        BY <2>4, <4>1 DEF Adjoin
    <3> QED
      BY <3>1, <3>2, <3>3, <3>4 DEF Adjoin
  <2> QED
    BY <2>1, <2>2, <2>3, <2>4
<1>5. ASSUME NEW i, NEW j, Adjoin(u, i, j)
      PROVE  SubSeq(u, i + 1, j - 1) = SubSeq(t, i + 1, j - 1)
  <2>1. i \in Nat /\ j \in Nat /\ i < j /\ j <= e
    <3>1. i \in DOMAIN u /\ j \in DOMAIN u /\ i < j
      BY <1>5 DEF Adjoin, IsMark
    <3> QED
      BY <1>1, <1>2, <3>1
  <2>2. PICK p, q : p = i + 1 /\ q = j - 1
    OBVIOUS
  <2>3. p \in Nat /\ p >= 1 /\ q \in Nat /\ q <= Len(t)
    BY <1>2, <1>3, <2>1, <2>2
  <2>4. SubSeq(u, p, q) = SubSeq(t, p, q)
    BY <2>3, BeginningSame
  <2> QED
    BY <2>2, <2>4
<1>6. SubSeq(t, o + 1, e - 1) = SubSeq(t, o + 1, Len(t))
  <2>1. e - 1 = Len(t)
    BY <1>2, <1>3
  <2> QED
    BY <2>1
<1>7. ASSUME NEW s \in Pieces(u) PROVE s \in Pieces(t) \cup {SubSeq(t, o + 1, Len(t))}
  <2>0. s \in Pieces(u)
    BY ONLY <1>7
  <2>1. PICK i, j : Adjoin(u, i, j) /\ s = SubSeq(u, i + 1, j - 1)
    BY ONLY <2>0, PiecesAre
  <2>2. s = SubSeq(t, i + 1, j - 1)
    BY <1>5, <2>1
  <2>3. CASE Adjoin(t, i, j)
    BY <2>2, <2>3, PiecesAre
  <2>4. CASE i = o /\ j = e
    BY <1>6, <2>2, <2>4
  <2> QED
    BY <1>4, <2>1, <2>3, <2>4
<1>8. ASSUME NEW s \in Pieces(t) PROVE s \in Pieces(u)
  <2>1. PICK i, j : Adjoin(t, i, j) /\ s = SubSeq(t, i + 1, j - 1)
    BY PiecesAre
  <2>2. Adjoin(u, i, j)
    BY <1>4, <2>1
  <2>3. SubSeq(u, i + 1, j - 1) \in Pieces(u)
    BY <2>2, PiecesAre
  <2> QED
    BY <1>5, <2>1, <2>2, <2>3
<1>9. SubSeq(t, o + 1, Len(t)) \in Pieces(u)
  <2>1. Adjoin(u, o, e)
    BY <1>4
  <2>2. SubSeq(u, o + 1, e - 1) \in Pieces(u)
    BY <2>1, PiecesAre
  <2> QED
    BY <1>5, <1>6, <2>1, <2>2
<1> QED
  BY <1>7, <1>8, <1>9

LEMMA PiecesFirst ==
  ASSUME NEW l \in Lexems PROVE Pieces(<<l>>) = {}
<1>1. PICK t : t = <<l>>
  OBVIOUS
<1>2. DOMAIN t = 1 .. 1
  BY <1>1
<1>3. ASSUME NEW i, NEW j, Adjoin(t, i, j) PROVE FALSE
  <2>1. i \in 1 .. 1 /\ j \in 1 .. 1 /\ i < j
    BY <1>2, <1>3 DEF Adjoin, IsMark
  <2> QED
    BY <2>1
<1>4. \A s \in Pieces(t) : FALSE
  BY <1>3, PiecesAre
<1> QED
  BY <1>1, <1>4

(* What it describes.                                                      *)
LEMMA DescribedMore ==
  ASSUME NEW t \in Seq(Lexems), NEW l \in Lexems, NEW u, u = Append(t, l)
  PROVE  /\ l \notin Marks => Described(u) = Described(t)
         /\ t = <<>> => Described(u) = {}
         /\ \A o : l \in Marks /\ LastMark(t, o) =>
              Described(u) = Described(t) \cup StringsOf(Since(t, o))
<1>1. l \notin Marks => Described(u) = Described(t)
  BY PiecesSame, DescribedIs, Zenon
<1>2. t = <<>> => Described(u) = {}
  <2>0. AllOf({}) = {}
    BY AllOfIs
  <2>1. t = <<>> => Pieces(u) = {}
    <3>1. t = <<>> => u = <<l>>
      OBVIOUS
    <3> QED
      BY <3>1, PiecesFirst
  <2> QED
    BY <2>0, <2>1, DescribedIs
<1>3. ASSUME NEW o, l \in Marks, LastMark(t, o)
      PROVE  Described(u) = Described(t) \cup StringsOf(Since(t, o))
  <2>1. PICK s, P : s = Since(t, o) /\ P = Pieces(t)
    OBVIOUS
  <2>2. Pieces(u) = P \cup {s}
    BY <1>3, <2>1, PiecesMore DEF Since
  <2>3. Described(u) = AllOf(P \cup {s}) /\ Described(t) = AllOf(P)
    BY <2>1, <2>2, DescribedIs
  <2>5. Described(u) = Described(t) \cup StringsOf(s)
    BY ONLY <2>3, AllOfMore
  <2> QED
    BY <2>1, <2>5
<1> QED
  BY <1>1, <1>2, <1>3

-----------------------------------------------------------------------------
(* What the commands of a text mean.                                       *)

LEMMA GoodLetters ==
  ASSUME NEW com, GoodCom(com)
  PROVE  /\ com \in RawCommands /\ com.name \in Leaves
         /\ \A b, i : RawPlaced(b, com, i)
         /\ unwrap(com).kind \in Simple /\ Letters(unwrap(com)) \subseteq Chars
<1>1. com \in {Char_def(c) : c \in Chars} \cup {Char_class_def(cls) : cls \in Classes}
      /\ com.cls \notin QuoteClasses
  BY SrpAssumption DEF GoodCom
<1>2. /\ com \in RawCommands /\ com.name \in Leaves
      /\ \A b, i : RawPlaced(b, com, i)
  BY <1>1, LeafRaw
<1>3. PICK u : u = unwrap(com)
  OBVIOUS
<1>4. u.kind \in {"char_def", "multior"}
  <2>1. CASE com.name = "char_def"
    <3>1. com.name # "char_class_def"
      BY <2>1
    <3> QED
      BY <1>3, <2>1, <3>1, Zenon DEF unwrap
  <2>2. CASE com.name = "char_class_def"
    <3>1. u.kind = "multior"
      BY <1>1, <1>3, <2>2, Zenon DEF unwrap
    <3> QED
      BY <3>1
  <2> QED
    BY <1>2, <2>1, <2>2 DEF Leaves
<1>5. u \in UnwrappedCommands
  <2>1. RawPlaced(<<>>, com, 1)
    BY <1>2
  <2>2. /\ com.name = "char_def" => com.c \in Chars
        /\ com.name = "char_class_def" => com.cls \in Classes
    BY <2>1 DEF RawPlaced
  <2> QED
    BY <1>2, <1>3, <2>2, UnwrapIs
<1>6. Letters(u) = u.s
  <2>1. u.kind # "ndq" /\ u.kind # "nsq"
    BY <1>4
  <2> QED
    BY <2>1, Zenon DEF Letters
<1>7. u.s \subseteq Chars
  BY <1>5, UnwrappedAre
<1> QED
  BY <1>2, <1>3, <1>4, <1>6, <1>7 DEF Simple

(* A row of characters and classes means what the lexemes stand for.       *)
RowTold(u, f, s, n) ==
  \A j \in 1 .. n : /\ Letters(u[f + j - 1]) = Letters(unwrap(s[j].com))
                    /\ Letters(unwrap(s[j].com)) \subseteq Chars

LEMMA RowOf ==
  ASSUME NEW u, NEW f \in Nat, NEW s \in Seq(Lexems), NEW n, n = Len(s), n >= 1,
         RowTold(u, f, s, n), NEW l, l = f + n - 1
  PROVE  Row(u, f, l) = StringsOf(s)
<1>1. n \in Nat /\ DOMAIN s = 1 .. n /\ l - f + 1 = n
  OBVIOUS
<1>2. PICK C, L : /\ C = Chars
                  /\ L = [j \in 1 .. n |-> Letters(unwrap(s[j].com))]
  OBVIOUS
<1>3. \A j \in 1 .. n : L[j] = Letters(unwrap(s[j].com)) /\ L[j] \subseteq C
                        /\ L[j] = Letters(u[f + j - 1])
  BY <1>2 DEF RowTold
<1>4. StringsOf(s) = {v \in [1 .. n -> C] : \A k \in 1 .. n : v[k] \in L[k]}
  BY <1>1, <1>2, <1>3 DEF StringsOf
<1>5. Row(u, f, l) = {w \in Strings : Len(w) = n /\ \A j \in 1 .. n : w[j] \in L[j]}
  BY <1>1, <1>3 DEF Row
<1>6. ASSUME NEW w \in Row(u, f, l) PROVE w \in StringsOf(s)
  <2>1. w \in Strings /\ Len(w) = n /\ \A j \in 1 .. n : w[j] \in L[j]
    BY <1>5
  <2>2. w = [j \in 1 .. n |-> w[j]]
    BY <2>1 DEF Strings
  <2>3. w \in [1 .. n -> C]
    BY <1>3, <2>1, <2>2
  <2> QED
    BY <1>4, <2>1, <2>3
<1>7. ASSUME NEW w \in StringsOf(s) PROVE w \in Row(u, f, l)
  <2>1. w \in [1 .. n -> C] /\ \A j \in 1 .. n : w[j] \in L[j]
    BY <1>4
  <2>2. w \in Seq(C) /\ Len(w) = n
    BY <1>1, <2>1
  <2>3. w \in Strings
    BY <1>2, <2>2, CharStrings
  <2> QED
    BY <1>5, <2>1, <2>2, <2>3
<1> QED
  BY <1>6, <1>7

(* What the command k of b means.                                          *)
MeansAt(b, k, X) == \A M : Meaning(unwrap_commands(b), M) => M[k] = X

LEMMA UnwrappedLike ==
  ASSUME NEW b, Raw(b), NEW v, v = unwrap_commands(b)
  PROVE  /\ Complete(v) /\ Len(v) = Len(b) /\ Len(b) \in Nat
         /\ \A k \in 1 .. Len(b) : v[k] = unwrap(b[k])
<1>1. b \in Seq(RawCommands) /\ Len(b) \in Nat /\ DOMAIN b = 1 .. Len(b)
  BY DEF Raw
<1>2. v = [i \in 1 .. Len(b) |-> unwrap(b[i])]
  BY <1>1, Zenon DEF unwrap_commands
<1>3. Complete(v)
  BY UnwrapComplete
<1>4. DOMAIN v = 1 .. Len(v) /\ Len(v) \in Nat
  BY <1>3 DEF Complete
<1>5. Len(v) = Len(b)
  BY <1>1, <1>2, <1>4
<1> QED
  BY <1>1, <1>2, <1>3, <1>5

LEMMA MeansAtAll ==
  ASSUME NEW b, Raw(b), NEW X, MeansAt(b, Len(b), X)
  PROVE  Means(unwrap_commands(b), X)
<1>1. PICK v : v = unwrap_commands(b)
  OBVIOUS
<1>2. Len(v) = Len(b)
  BY <1>1, UnwrappedLike
<1> QED
  BY <1>1, <1>2 DEF MeansAt, Means

LEMMA MeansAtKept ==
  ASSUME NEW b, Raw(b), NEW com \in RawCommands, RawPlaced(b, com, Len(b) + 1),
         NEW c, c = Append(b, com)
  PROVE  /\ \A k \in 1 .. Len(b) : \A X : MeansAt(b, k, X) => MeansAt(c, k, X)
         /\ \A X : (\A M : Meaning(unwrap_commands(c), M)
                             => Told(unwrap_commands(c), unwrap(com), M) = X)
                     => MeansAt(c, Len(c), X)
         /\ Raw(c) /\ Len(c) = Len(b) + 1 /\ Len(b) \in Nat
<1>1. /\ Raw(c) /\ Len(c) = Len(b) + 1 /\ Len(b) \in Nat
      /\ c[Len(c)] = com /\ \A k \in 1 .. Len(b) : c[k] = b[k]
  BY AddRaw
<1>2. PICK v, u : v = unwrap_commands(b) /\ u = unwrap_commands(c)
  OBVIOUS
<1>3. /\ Complete(v) /\ Len(v) = Len(b)
      /\ \A k \in 1 .. Len(b) : v[k] = unwrap(b[k])
  BY <1>2, UnwrappedLike
<1>4. /\ Complete(u) /\ Len(u) = Len(b) + 1
      /\ \A k \in 1 .. Len(c) : u[k] = unwrap(c[k])
  BY <1>1, <1>2, UnwrappedLike
<1>5. Kept(v, u) /\ u[Len(u)] = unwrap(com) /\ Len(u) \in 1 .. Len(u)
  <2>1. \A k \in 1 .. Len(b) : u[k] = v[k]
    BY <1>1, <1>3, <1>4
  <2> QED
    BY <1>1, <1>3, <1>4, <2>1 DEF Kept
<1>6. \A M : Meaning(u, M) => Meaning(v, M)
  BY <1>1, <1>3, <1>4, <1>5, MeaningKept
<1>7. \A k \in 1 .. Len(b) : \A X : MeansAt(b, k, X) => MeansAt(c, k, X)
  BY <1>2, <1>6 DEF MeansAt
<1>8. \A M : Meaning(u, M) => M[Len(u)] = Told(u, unwrap(com), M)
  BY <1>5 DEF Meaning
<1>9. ASSUME NEW X, \A M : Meaning(u, M) => Told(u, unwrap(com), M) = X
      PROVE  MeansAt(c, Len(c), X)
  BY <1>1, <1>2, <1>4, <1>8, <1>9 DEF MeansAt
<1> QED
  BY <1>1, <1>2, <1>7, <1>9

-----------------------------------------------------------------------------
(* The lexemes from the last mark on are the last commands of b.           *)
Spread(s, b) ==
  /\ s \in Seq(Lexems) /\ Len(s) >= 1
  /\ sp.first_concatenated \in 1 .. Len(b)
  /\ sp.number_of_concatenated = Len(s)
  /\ sp.first_concatenated + Len(s) - 1 = Len(b)
  /\ \A j \in 1 .. Len(s) : /\ GoodCom(s[j].com)
                            /\ b[sp.first_concatenated + j - 1] = s[j].com

(* The alternatives that are over.                                         *)
SoFar(b, X) ==
  /\ sp.number_of_ors = 0 => X = {}
  /\ sp.number_of_ors # 0 => sp.arg1 \in 1 .. Len(b) /\ MeansAt(b, sp.arg1, X)

LEMMA ConcatenatedMeans ==
  ASSUME NEW b, Raw(b), NEW s, Spread(s, b), NEW d, d = write_concatenated(b)
  PROVE  /\ Raw(d) /\ Len(d) \in Nat /\ Len(b) \in Nat /\ Len(d) >= Len(b)
         /\ MeansAt(d, Len(d), StringsOf(s))
         /\ \A k \in 1 .. Len(b) : \A X : MeansAt(b, k, X) => MeansAt(d, k, X)
<1>1. PICK f, n, l : f = sp.first_concatenated /\ n = Len(s) /\ l = Len(b)
  OBVIOUS
<1>2. /\ s \in Seq(Lexems) /\ n \in Nat /\ n >= 1 /\ f \in Nat /\ f >= 1
      /\ f \in 1 .. l /\ l = f + n - 1 /\ l \in Nat /\ n = sp.number_of_concatenated
      /\ \A j \in 1 .. n : GoodCom(s[j].com) /\ b[f + j - 1] = s[j].com
  BY <1>1 DEF Spread, Raw
<1>3. \A j \in 1 .. n : f + j - 1 \in 1 .. l /\ f + j - 1 \in f .. l
  BY <1>2
<1>4. \A j \in f .. l : j - f + 1 \in 1 .. n /\ f + (j - f + 1) - 1 = j
  BY <1>2
<1>5. \A j \in 1 .. n : /\ s[j].com \in RawCommands /\ s[j].com.name \in Leaves
                        /\ unwrap(s[j].com).kind \in Simple
                        /\ Letters(unwrap(s[j].com)) \subseteq Chars
  BY <1>2, GoodLetters
<1>6. \A j \in f .. l : b[j].name \in Leaves
  BY <1>2, <1>4, <1>5
<1>7. ASSUME NEW u, \A k \in 1 .. l : u[k] = unwrap(b[k])
      PROVE  Row(u, f, l) = StringsOf(s)
  <2>1. RowTold(u, f, s, n)
    BY <1>2, <1>3, <1>5, <1>7 DEF RowTold
  <2>2. /\ f \in Nat /\ s \in Seq(Lexems) /\ n = Len(s) /\ n >= 1
        /\ l = f + n - 1
    BY <1>1, <1>2
  <2> QED
    BY ONLY <2>1, <2>2, RowOf
<1>8. CASE n > 1
  <2>1. PICK com : com = [Command("multiconcat") EXCEPT !.first = f, !.second = l]
    OBVIOUS
  <2>2. d = Append(b, com)
    BY <1>1, <1>2, <1>8, <2>1, Zenon DEF write_concatenated
  <2>3. com \in RawCommands /\ RawPlaced(b, com, Len(b) + 1)
    <3>1. l \in 1 .. Len(b) /\ f \in 1 .. Len(b) /\ f <= l
      BY <1>1, <1>2
    <3> QED
      BY <1>6, <2>1, <3>1, OperatorRaw
  <2>4. unwrap(com).kind = "multiconcat" /\ unwrap(com).first = f
        /\ unwrap(com).second = l
    <3>1. PICK new : new = Command("multiconcat")
      OBVIOUS
    <3>2. new \in RawCommands /\ new.name = "multiconcat"
      BY <3>1, RawAre DEF Command, RawNames
    <3>3. com.name = "multiconcat" /\ com.first = f /\ com.second = l
      BY <1>2, <2>1, <3>1, <3>2, RawAre
    <3>4. com.name \notin Leaves /\ com.name # "char_def" /\ com.name # "char_class_def"
      BY <3>3 DEF Leaves
    <3> QED
      BY <2>3, <3>3, <3>4, UnwrapIs
  <2>5. PICK u : u = unwrap_commands(d)
    OBVIOUS
  <2>6. /\ Raw(d) /\ Len(d) = l + 1
        /\ \A k \in 1 .. Len(b) : \A X : MeansAt(b, k, X) => MeansAt(d, k, X)
    BY <1>1, <2>2, <2>3, MeansAtKept
  <2>7. \A k \in 1 .. l : u[k] = unwrap(b[k])
    <3>1. \A k \in 1 .. Len(d) : u[k] = unwrap(d[k])
      BY <2>5, <2>6, UnwrappedLike
    <3>2. \A k \in 1 .. Len(b) : d[k] = b[k]
      BY <2>2, <2>3, AddRaw
    <3>3. /\ l = Len(b) /\ l \in Nat /\ Len(d) = l + 1
      BY <1>1, <1>2, <2>6
    <3> QED
      BY ONLY <3>1, <3>2, <3>3
  <2>8. Row(u, f, l) = StringsOf(s)
    BY <1>7, <2>7
  <2>9. \A M : Told(u, unwrap(com), M) = Row(u, f, l)
    BY <2>4, Zenon DEF Told
  <2>10. \A M : Meaning(u, M) => Told(u, unwrap(com), M) = StringsOf(s)
    BY <2>8, <2>9
  <2>11. MeansAt(d, Len(d), StringsOf(s))
    <3>1. \A M : Meaning(unwrap_commands(d), M)
                   => Told(unwrap_commands(d), unwrap(com), M) = StringsOf(s)
      BY <2>5, <2>10
    <3> QED
      BY ONLY Raw(b), <2>2, <2>3, <3>1, MeansAtKept
  <2>12. Len(d) \in Nat /\ Len(b) \in Nat /\ Len(d) >= Len(b)
    <3>1. l = Len(b) /\ l \in Nat
      BY <1>1, <1>2
    <3> QED
      BY ONLY <2>6, <3>1
  <2> QED
    BY ONLY <2>6, <2>11, <2>12, Zenon
<1>9. CASE n = 1
  <2>1. d = b /\ l = f
    BY <1>2, <1>9 DEF write_concatenated
  <2>2. PICK u, com : u = unwrap_commands(b) /\ com = s[1].com
    OBVIOUS
  <2>3. \A k \in 1 .. l : u[k] = unwrap(b[k])
    BY <1>1, <2>2, UnwrappedLike
  <2>4. b[l] = com /\ l \in 1 .. l /\ Len(u) = l
    <3>1. 1 \in 1 .. n /\ f + 1 - 1 = l
      BY <1>2, <1>9
    <3>2. Len(u) = l
      BY <1>1, <2>2, UnwrappedLike
    <3> QED
      BY <1>2, <2>1, <2>2, <3>1, <3>2
  <2>5. u[l] = unwrap(com) /\ unwrap(com).kind \in Simple
        /\ Letters(unwrap(com)) \subseteq Chars
    <3>1. 1 \in 1 .. n
      BY <1>9
    <3> QED
      BY <1>5, <2>2, <2>3, <2>4, <3>1
  <2>6. Row(u, l, l) = LettersWords(Letters(u[l]))
    <3>1. Letters(u[l]) \subseteq Gen_chars
      BY <2>5, CharStrings
    <3> QED
      BY <1>2, <3>1, RowOne
  <2>7. StringsOf(s) = LettersWords(Letters(u[l]))
    BY <1>7, <2>1, <2>3, <2>6
  <2>8. \A M : Meaning(u, M) => M[l] = StringsOf(s)
    <3>1. \A M : Told(u, u[l], M) = LettersWords(Letters(u[l]))
      BY <2>5, ToldSimple
    <3>2. \A M : Meaning(u, M) => M[l] = Told(u, u[l], M)
      BY <2>4 DEF Meaning
    <3> QED
      BY <2>7, <3>1, <3>2
  <2>9. MeansAt(d, Len(d), StringsOf(s))
    BY <1>1, <2>1, <2>2, <2>8 DEF MeansAt
  <2>10. Len(d) \in Nat /\ Len(b) \in Nat /\ Len(d) >= Len(b) /\ Raw(d)
    <3>1. l = Len(b) /\ l \in Nat
      BY <1>1, <1>2
    <3> QED
      BY ONLY <2>1, <3>1, Raw(b)
  <2> QED
    BY <2>1, <2>9, <2>10, Zenon
<1> QED
  BY <1>2, <1>8, <1>9

LEMMA AlternativeMeans ==
  ASSUME NEW b, Raw(b), NEW s, Spread(s, b), NEW X, SoFar(b, X),
         NEW c, c = write_or_command(write_concatenated(b))
  PROVE  Raw(c) /\ Len(c) \in Nat /\ Len(c) >= 1
         /\ MeansAt(c, Len(c), X \cup StringsOf(s))
<1>1. PICK d, m, q, Y : /\ d = write_concatenated(b) /\ m = sp.number_of_ors
                        /\ q = sp.arg1 /\ Y = StringsOf(s)
  OBVIOUS
<1>2. /\ Raw(d) /\ Len(d) \in Nat /\ Len(b) \in Nat /\ Len(d) >= Len(b)
      /\ MeansAt(d, Len(d), Y)
      /\ \A k \in 1 .. Len(b) : \A Z : MeansAt(b, k, Z) => MeansAt(d, k, Z)
  BY <1>1, ConcatenatedMeans
<1>3. Len(b) >= 1
  BY <1>2 DEF Spread
<1>4. CASE m = 0
  <2>1. c = d /\ X = {}
    BY <1>1, <1>4 DEF write_or_command, SoFar
  <2>2. X \cup Y = Y
    BY <2>1
  <2> QED
    BY <1>1, <1>2, <1>3, <2>1, <2>2
<1>5. CASE m # 0
  <2>1. q \in 1 .. Len(b) /\ MeansAt(b, q, X)
    BY <1>1, <1>5 DEF SoFar
  <2>2. q \in 1 .. Len(d) /\ MeansAt(d, q, X) /\ q \in Nat
    BY <1>2, <2>1
  <2>3. PICK n, com : n = Len(d)
                      /\ com = [Command("or") EXCEPT !.first = q, !.second = n]
    OBVIOUS
  <2>4. c = Append(d, com)
    BY <1>1, <1>5, <2>3, Zenon DEF write_or_command
  <2>5. n \in 1 .. Len(d) /\ n \in Nat
    BY <1>2, <1>3, <2>3
  <2>6. com \in RawCommands /\ RawPlaced(d, com, Len(d) + 1)
    <3>1. "or" \in Binary \cup {"multiconcat"} /\ "or" # "multiconcat"
      BY DEF Binary
    <3> QED
      BY <1>2, <2>2, <2>3, <2>5, <3>1, OperatorRaw
  <2>7. unwrap(com).kind = "or" /\ unwrap(com).first = q /\ unwrap(com).second = n
    <3>1. PICK new : new = Command("or")
      OBVIOUS
    <3>2. new \in RawCommands /\ new.name = "or"
      BY <3>1, RawAre DEF Command, RawNames, Binary
    <3>3. com.name = "or" /\ com.first = q /\ com.second = n
      BY <2>2, <2>3, <2>5, <3>1, <3>2, RawAre
    <3>4. com.name \notin Leaves /\ com.name # "char_def" /\ com.name # "char_class_def"
      BY <3>3 DEF Leaves
    <3> QED
      BY <2>6, <3>3, <3>4, UnwrapIs
  <2>8. PICK u : u = unwrap_commands(c)
    OBVIOUS
  <2>9. /\ Raw(c) /\ Len(c) = Len(d) + 1 /\ MeansAt(c, q, X) /\ MeansAt(c, n, Y)
    BY <1>2, <2>2, <2>3, <2>4, <2>5, <2>6, MeansAtKept
  <2>10. \A M : Told(u, unwrap(com), M) = M[q] \cup M[n]
    BY <2>7, Zenon DEF Told
  <2>11. \A M : Meaning(u, M) => Told(u, unwrap(com), M) = X \cup Y
    BY <2>8, <2>9, <2>10 DEF MeansAt
  <2>12. MeansAt(c, Len(c), X \cup Y)
    <3>1. /\ Raw(d)
          /\ \A M : Meaning(unwrap_commands(c), M)
                   => Told(unwrap_commands(c), unwrap(com), M) = X \cup Y
      BY <1>2, <2>8, <2>11
    <3> QED
      BY ONLY <2>4, <2>6, <3>1, MeansAtKept
  <2> QED
    BY <1>1, <1>2, <2>9, <2>12
<1> QED
  BY <1>4, <1>5

-----------------------------------------------------------------------------
(* The texts and their commands, lexeme by lexeme.                         *)

LEMMA LastMarkAppended ==
  ASSUME NEW t \in Seq(Lexems), NEW l \in Lexems, NEW u, u = Append(t, l)
  PROVE  /\ l \in Marks => LastMark(u, Len(u))
         /\ \A o : l \notin Marks /\ LastMark(t, o) => LastMark(u, o)
<1>1. /\ Len(t) \in Nat /\ DOMAIN t = 1 .. Len(t) /\ DOMAIN u = 1 .. Len(t) + 1
      /\ \A k \in 1 .. Len(t) : IsMark(u, k) <=> IsMark(t, k)
      /\ IsMark(u, Len(t) + 1) <=> l \in Marks
  BY MarksAppended
<1>2. Len(u) = Len(t) + 1
  OBVIOUS
<1>3. ASSUME l \in Marks PROVE LastMark(u, Len(u))
  <2>1. \A k \in DOMAIN u : k <= Len(u)
    BY <1>1, <1>2
  <2> QED
    BY <1>1, <1>2, <1>3, <2>1 DEF LastMark
<1>4. ASSUME NEW o, l \notin Marks, LastMark(t, o) PROVE LastMark(u, o)
  <2>1. IsMark(t, o) /\ o \in 1 .. Len(t)
    BY <1>1, <1>4 DEF LastMark, IsMark
  <2>2. ASSUME NEW k \in DOMAIN u, IsMark(u, k) PROVE k <= o
    <3>1. k # Len(t) + 1
      BY <1>1, <1>4, <2>2
    <3>2. k \in 1 .. Len(t) /\ IsMark(t, k)
      BY <1>1, <2>2, <3>1
    <3> QED
      BY <1>1, <1>4, <3>2 DEF LastMark
  <2> QED
    BY <1>1, <2>1, <2>2 DEF LastMark
<1> QED
  BY <1>3, <1>4

(* What follows the last mark, with a lexeme more.                         *)
LEMMA PieceAppended ==
  ASSUME NEW t \in Seq(Lexems), NEW l \in Lexems, NEW u, u = Append(t, l),
         NEW o \in 1 .. Len(t)
  PROVE  /\ Since(u, o) = Append(Since(t, o), l)
         /\ o = Len(t) => Since(u, o) = <<l>>
<1>a. PICK s, r : s = Since(t, o) /\ r = Since(u, o)
  OBVIOUS
<1>0. s = SubSeq(t, o + 1, Len(t)) /\ r = SubSeq(u, o + 1, Len(u))
  BY <1>a, Zenon DEF Since
<1>1. PICK n, m, p, S : n = Len(t) /\ m = n - o /\ p = o + 1 /\ S = Lexems
  OBVIOUS
<1>2. /\ n \in Nat /\ m \in Nat /\ o \in Nat /\ p \in Nat /\ p >= 1 /\ o <= n
      /\ t \in Seq(S) /\ u \in Seq(S) /\ Len(u) = n + 1 /\ l \in S
      /\ \A k \in 1 .. n : u[k] = t[k]
      /\ u[n + 1] = l
  BY <1>1
<1>3. s \in Seq(S) /\ Len(s) = m /\ \A k \in 1 .. m : s[k] = t[p + k - 1]
  <2>1. CASE m = 0
    <3>1. s = <<>>
      BY <1>0, <1>1, <1>2, <2>1
    <3> QED
      BY <2>1, <3>1
  <2>2. CASE m # 0
    <3>1. p <= n /\ n <= Len(t) /\ m = n - p + 1 /\ s = SubSeq(t, p, n)
      BY <1>0, <1>1, <1>2, <2>2
    <3> QED
      BY ONLY <1>2, <3>1, PieceIs
  <2> QED
    BY <2>1, <2>2
<1>4. r \in Seq(S) /\ Len(r) = m + 1 /\ \A k \in 1 .. m + 1 : r[k] = u[p + k - 1]
  <2>1. PICK q : q = n + 1
    OBVIOUS
  <2>2. p <= q /\ q <= Len(u) /\ m + 1 = q - p + 1 /\ r = SubSeq(u, p, q)
        /\ q \in Nat /\ m + 1 \in Nat
    BY <1>0, <1>1, <1>2, <2>1
  <2> QED
    BY ONLY <1>2, <2>2, PieceIs
<1>5. PICK v : v = Append(s, l)
  OBVIOUS
<1>6. /\ v \in Seq(S) /\ Len(v) = m + 1 /\ v[m + 1] = l
      /\ \A k \in 1 .. m : v[k] = s[k]
  BY <1>2, <1>3, <1>5
<1>7. ASSUME NEW k \in 1 .. m + 1 PROVE r[k] = v[k]
  <2>1. CASE k = m + 1
    <3>1. p + k - 1 = n + 1 /\ m + 1 \in 1 .. m + 1
      BY <1>1, <1>2, <2>1
    <3> QED
      BY ONLY <1>2, <1>4, <1>6, <1>7, <2>1, <3>1
  <2>2. CASE k # m + 1
    <3>0. /\ n \in Nat /\ o \in Nat /\ m \in Nat /\ m = n - o /\ p = o + 1
          /\ k \in 1 .. m + 1 /\ k # m + 1 /\ o >= 0
      BY <1>1, <1>2, <2>2
    <3>1. k \in 1 .. m /\ p + k - 1 \in 1 .. n
      BY ONLY <3>0
    <3> QED
      BY ONLY <1>2, <1>3, <1>4, <1>6, <3>1
  <2> QED
    BY <2>1, <2>2
<1>8. r = v
  BY ONLY <1>2, <1>4, <1>6, <1>7, SameStrings
<1>9. o = n => r = <<l>>
  <2>1. o = n => m = 0
    BY <1>1, <1>2
  <2>2. ASSUME m = 0 PROVE s = <<>>
    BY <1>0, <1>1, <1>2, <2>2
  <2>3. s = <<>> => v = <<l>>
    BY ONLY <1>5
  <2> QED
    BY <1>8, <2>1, <2>2, <2>3
<1> QED
  BY <1>a, <1>1, <1>5, <1>8, <1>9

SpeltHere(t, b) ==
  /\ sp.state = "State_begin_expr" => t = <<>> /\ sp.number_of_ors = 0
  /\ sp.state = "State_begin_concat"
       => LastMark(t, Len(t)) /\ SoFar(b, Described(t))
  /\ sp.state = "State_concat"
       => /\ SoFar(b, Described(t))
          /\ \E o : LastMark(t, o) /\ Spread(Since(t, o), b)

Spelt(b, t) == b # <<>> /\ Means(unwrap_commands(b), Described(t))

SpeltInv ==
  ~failed
    => /\ \A p \in Parts : Finished(p) => Spelt(bufs[p], texts[p])
       /\ part \in Parts => SpeltHere(texts[part], bufs[part])

(* This expression has the text t and the commands b.                      *)
Became(t, b) ==
  /\ Written(t) /\ bufs'[part] = b
  /\ \A p \in Parts \ {part} : bufs'[p] = bufs[p]

LEMMA OthersSpelt ==
  ASSUME SrpInv, SpeltInv, ~failed, part \in Parts, NEW t, NEW b, Became(t, b),
         NEW p \in Parts, Finished(p)
  PROVE  p # part /\ Spelt(bufs'[p], texts'[p])
<1>1. p # part
  BY DEF Finished, Parts
<1>2. bufs'[p] = bufs[p] /\ texts'[p] = texts[p]
  BY <1>1 DEF Became, Written
<1> QED
  BY <1>1, <1>2 DEF SpeltInv

LEMMA SpeltOn ==
  ASSUME SrpInv, SpeltInv, ~failed, part \in Parts, NEW t, NEW b, Became(t, b),
         UNCHANGED part, SpeltHere(t, b)'
  PROVE  SpeltInv'
<1>1. \A p \in Parts : Finished(p)' => Finished(p)
  BY DEF Finished
<1>2. \A p \in Parts : Finished(p)' => Spelt(bufs'[p], texts'[p])
  BY <1>1, OthersSpelt
<1>3. texts'[part'] = t /\ bufs'[part'] = b
  BY DEF Became, Written
<1> QED
  BY <1>2, <1>3 DEF SpeltInv, Spelt

LEMMA SpeltOver ==
  ASSUME SrpInv, SpeltInv, ~failed, part \in Parts, NEW t, NEW b, Became(t, b),
         Return, Spelt(b, t)
  PROVE  SpeltInv'
<1>1. \A p \in Parts : Finished(p)' => Finished(p) \/ p = part
  BY DEF Finished, Return, Parts
<1>2. \A p \in Parts : Finished(p)' => Spelt(bufs'[p], texts'[p])
  <2>1. texts'[part] = t /\ bufs'[part] = b
    BY DEF Became, Written
  <2> QED
    BY <1>1, <2>1, OthersSpelt
<1>3. part' \in Parts => SpeltHere(texts[part], bufs[part])'
  <2>1. part' \in Parts => part' = "id_body" /\ part = "id_begin"
    BY DEF Return, Parts
  <2>2. part = "id_begin" => texts'["id_body"] = <<>>
    BY DEF SrpInv, Became, Written, Parts
  <2>3. sp'.state = "State_begin_expr" /\ sp'.number_of_ors = 0
    BY DEF Return, Start
  <2> QED
    BY <2>1, <2>2, <2>3 DEF SpeltHere
<1> QED
  BY <1>2, <1>3 DEF SpeltInv, Spelt

LEMMA SoFarKept ==
  ASSUME NEW b, Raw(b), NEW com \in RawCommands, RawPlaced(b, com, Len(b) + 1),
         NEW c, c = Append(b, com), NEW X, SoFar(b, X),
         sp'.number_of_ors = sp.number_of_ors, sp'.arg1 = sp.arg1
  PROVE  SoFar(c, X)'
<1>1. /\ \A k \in 1 .. Len(b) : \A Z : MeansAt(b, k, Z) => MeansAt(c, k, Z)
      /\ Len(c) = Len(b) + 1 /\ Len(b) \in Nat
  BY MeansAtKept
<1>2. PICK m, q : m = sp.number_of_ors /\ q = sp.arg1
  OBVIOUS
<1>3. m = 0 => X = {}
  BY <1>2 DEF SoFar
<1>4. m # 0 => q \in 1 .. Len(c) /\ MeansAt(c, q, X)
  <2>1. m # 0 => q \in 1 .. Len(b) /\ MeansAt(b, q, X)
    BY <1>2 DEF SoFar
  <2>2. 1 .. Len(b) \subseteq 1 .. Len(c)
    BY ONLY <1>1
  <2> QED
    BY <1>1, <2>1, <2>2
<1> QED
  BY <1>2, <1>3, <1>4 DEF SoFar

LEMMA LetterSpread ==
  ASSUME NEW s, NEW l \in Lexems, NEW b, Raw(b), Spread(s, b), GoodCom(l.com),
         NEW c, c = Append(b, l.com), NEW r, r = Append(s, l),
         sp'.first_concatenated = sp.first_concatenated,
         sp'.number_of_concatenated = sp.number_of_concatenated + 1
  PROVE  Spread(r, c)'
<1>1. PICK f, n, m : f = sp.first_concatenated /\ n = Len(s) /\ m = Len(b)
  OBVIOUS
<1>2. /\ s \in Seq(Lexems) /\ n \in Nat /\ n >= 1 /\ f \in 1 .. m /\ m \in Nat
      /\ f + n - 1 = m /\ sp.number_of_concatenated = n
      /\ \A j \in 1 .. n : GoodCom(s[j].com) /\ b[f + j - 1] = s[j].com
  BY <1>1 DEF Spread, Raw
<1>3. /\ r \in Seq(Lexems) /\ Len(r) = n + 1 /\ r[n + 1] = l
      /\ \A j \in 1 .. n : r[j] = s[j]
  BY <1>1, <1>2
<1>4. /\ Len(c) = m + 1 /\ c[m + 1] = l.com /\ \A k \in 1 .. m : c[k] = b[k]
  <2>1. l.com \in RawCommands /\ RawPlaced(b, l.com, Len(b) + 1)
    BY GoodLetters
  <2> QED
    BY <1>1, <2>1, AddRaw
<1>5. ASSUME NEW j \in 1 .. n + 1
      PROVE  GoodCom(r[j].com) /\ c[f + j - 1] = r[j].com
  <2>1. CASE j = n + 1
    <3>1. f + j - 1 = m + 1
      BY <1>2, <2>1
    <3>2. r[j] = l
      BY ONLY <1>3, <2>1
    <3> QED
      BY <1>4, <3>1, <3>2
  <2>2. CASE j # n + 1
    <3>1. j \in 1 .. n /\ f + j - 1 \in 1 .. m
      BY <1>2, <2>2
    <3> QED
      BY <1>2, <1>3, <1>4, <3>1
  <2> QED
    BY <2>1, <2>2
<1>6. /\ f \in 1 .. Len(c) /\ f + Len(r) - 1 = Len(c) /\ Len(r) >= 1
  BY ONLY <1>2, <1>3, <1>4
<1>7. sp'.first_concatenated = f /\ sp'.number_of_concatenated = n + 1
  BY <1>1, <1>2
<1> QED
  BY ONLY <1>3, <1>5, <1>6, <1>7 DEF Spread, GoodCom

LEMMA FirstSpread ==
  ASSUME NEW l \in Lexems, NEW b, Raw(b), GoodCom(l.com),
         NEW c, c = Append(b, l.com), NEW r, r = <<l>>,
         sp'.first_concatenated = Len(c), sp'.number_of_concatenated = 1
  PROVE  Spread(r, c)'
<1>1. Len(c) = Len(b) + 1 /\ c[Len(b) + 1] = l.com /\ Len(b) \in Nat
  <2>1. l.com \in RawCommands /\ RawPlaced(b, l.com, Len(b) + 1)
    BY GoodLetters
  <2> QED
    BY <2>1, AddRaw
<1>2. r \in Seq(Lexems) /\ Len(r) = 1 /\ r[1] = l
  OBVIOUS
<1>3. PICK f : f = Len(c)
  OBVIOUS
<1>4. /\ f \in 1 .. Len(c) /\ f \in Nat /\ f + 1 - 1 = f /\ c[f] = l.com
      /\ sp'.first_concatenated = f
  BY ONLY <1>1, <1>3, sp'.first_concatenated = Len(c)
<1>5. \A j \in 1 .. 1 : j = 1
  OBVIOUS
<1> QED
  BY ONLY <1>2, <1>3, <1>4, <1>5, GoodCom(l.com), sp'.number_of_concatenated = 1
     DEF Spread, GoodCom

LEMMA LetterGood ==
  ASSUME NEW l \in Lexems, IsLetter(l), Allowed(l)
  PROVE  GoodCom(l.com) /\ l \notin Marks
<1>1. \A com \in IdLetters : Letter(com).com = com
  BY DEF Letter
<1>2. l \notin {Begin, End, Bar, Another} /\ l \notin Marks
  BY LexemsApart DEF Marks
<1>3. l.com \in IdLetters
  BY <1>1, <1>2 DEF Lexems
<1> QED
  BY <1>2, <1>3 DEF GoodCom, Allowed

LEMMA BufferBecame ==
  ASSUME RawInv, ~failed, part \in Parts, NEW t, Written(t), NEW b,
         bufs' = [bufs EXCEPT ![part] = b]
  PROVE  Became(t, b)
<1>1. DOMAIN bufs = Parts
  BY DEF RawInv
<1> QED
  BY <1>1 DEF Became, Parts

LEMMA SpeltBeginExpr ==
  ASSUME SrpInv, BufInv, RawInv, SpeltInv, state_begin_expr_proc
  PROVE  SpeltInv'
<1> SUFFICES ASSUME ~failed' PROVE SpeltInv'
  BY DEF SpeltInv
<1>0. part \in Parts /\ sp.state = "State_begin_expr" /\ bufs' = bufs
  BY DEF state_begin_expr_proc, Reading
<1>1. PICK l \in Upcoming \ {Eof} :
        /\ current_lexem(l)
        /\ failed' = (failed \/ l # Begin)
        /\ IF l = End THEN Return
           ELSE /\ sp' = [sp EXCEPT !.state = "State_begin_concat"]
                /\ UNCHANGED part
  BY DEF state_begin_expr_proc
<1>2. ~failed /\ l = Begin /\ l # End
  BY <1>1, LexemsApart
<1>3. UNCHANGED part /\ sp' = [sp EXCEPT !.state = "State_begin_concat"]
  BY <1>1, <1>2
<1>4. PICK t, u, b : t = texts[part] /\ u = Append(t, l) /\ b = bufs[part]
  OBVIOUS
<1>5. Written(u) /\ l \in Lexems /\ t \in Seq(Lexems)
  BY <1>0, <1>1, <1>2, <1>4, LexemTaken
<1>6. Became(u, b)
  BY <1>0, <1>4, <1>5 DEF Became
<1>7. t = <<>> /\ sp.number_of_ors = 0
  BY <1>0, <1>2, <1>4 DEF SpeltInv, SpeltHere
<1>8. Described(u) = {}
  BY <1>4, <1>5, <1>7, DescribedMore
<1>9. LastMark(u, Len(u))
  <2>1. l \in Marks
    BY <1>2 DEF Marks
  <2> QED
    BY <1>4, <1>5, <2>1, LastMarkAppended
<1>10. sp'.number_of_ors = 0 /\ sp'.state = "State_begin_concat"
  <2>1. sp \in Fields
    BY <1>0, <1>2 DEF RawInv, Shaped
  <2> QED
    BY <1>3, <1>7, <2>1 DEF Fields
<1>11. SpeltHere(u, b)'
  BY <1>8, <1>9, <1>10 DEF SpeltHere, SoFar, LastMark, IsMark, Marks
<1> QED
  BY <1>0, <1>2, <1>3, <1>6, <1>11, SpeltOn

LEMMA SpeltBeginConcat ==
  ASSUME SrpInv, BufInv, RawInv, SpeltInv, state_begin_concat_proc
  PROVE  SpeltInv'
<1> SUFFICES ASSUME ~failed' PROVE SpeltInv'
  BY DEF SpeltInv
<1>0. part \in Parts /\ sp.state = "State_begin_concat"
  BY DEF state_begin_concat_proc, Reading
<1>1. PICK l \in Upcoming \ {Eof} :
        /\ current_lexem(l)
        /\ failed' = (failed \/ no_alternative(l))
        /\ IF IsLetter(l)
           THEN LET b == Append(bufs[part], l.com)
                IN /\ bufs' = [bufs EXCEPT ![part] = b]
                   /\ sp' = [sp EXCEPT !.state = "State_concat",
                                       !.first_concatenated = Len(b),
                                       !.number_of_concatenated = 1]
                   /\ UNCHANGED part
           ELSE /\ IF l = End THEN Return ELSE UNCHANGED <<part, sp>>
                /\ UNCHANGED bufs
  BY DEF state_begin_concat_proc
<1>2. ~failed /\ IsLetter(l) /\ Allowed(l)
  BY <1>1 DEF no_alternative
<1>3. PICK t, u, b, c, n :
        /\ t = texts[part] /\ u = Append(t, l) /\ b = bufs[part]
        /\ c = Append(b, l.com) /\ n = Len(c)
  OBVIOUS
<1>4. /\ bufs' = [bufs EXCEPT ![part] = c] /\ UNCHANGED part
      /\ sp' = [sp EXCEPT !.state = "State_concat", !.first_concatenated = n,
                          !.number_of_concatenated = 1]
  BY <1>1, <1>2, <1>3
<1>5. Written(u) /\ l \in Lexems /\ t \in Seq(Lexems)
  BY <1>0, <1>1, <1>2, <1>3, LexemTaken
<1>6. Became(u, c)
  BY <1>0, <1>2, <1>4, <1>5, BufferBecame
<1>7. GoodCom(l.com) /\ l \notin Marks
  BY <1>2, <1>5, LetterGood
<1>8. Raw(b) /\ sp \in Fields
  BY <1>0, <1>2, <1>3 DEF RawInv, Shaped
<1>9. LastMark(t, Len(t)) /\ SoFar(b, Described(t))
  BY <1>0, <1>2, <1>3 DEF SpeltInv, SpeltHere
<1>10. /\ sp'.state = "State_concat" /\ sp'.first_concatenated = Len(c)
       /\ sp'.number_of_concatenated = 1
       /\ sp'.number_of_ors = sp.number_of_ors /\ sp'.arg1 = sp.arg1
  BY <1>3, <1>4, <1>8 DEF Fields
<1>11. Described(u) = Described(t)
  <2>1. t \in Seq(Lexems) /\ l \in Lexems /\ u = Append(t, l) /\ l \notin Marks
    BY <1>3, <1>5, <1>7
  <2> QED
    BY ONLY <2>1, DescribedMore
<1>12. SoFar(c, Described(u))'
  <2>1. l.com \in RawCommands /\ RawPlaced(b, l.com, Len(b) + 1)
    BY <1>7, GoodLetters
  <2>2. PICK X : X = Described(t)
    OBVIOUS
  <2>3. SoFar(c, X)'
    BY ONLY <1>3, <1>8, <1>9, <1>10, <2>1, <2>2, SoFarKept
  <2> QED
    BY <1>11, <2>2, <2>3 DEF SoFar
<1>13. PICK o, r : o = Len(t) /\ r = Since(u, o)
  OBVIOUS
<1>14. LastMark(u, o) /\ r = <<l>>
  <2>1. o \in 1 .. Len(t)
    BY <1>5, <1>9, <1>13 DEF LastMark, IsMark
  <2>2. PICK s : s = Since(t, o)
    OBVIOUS
  <2>3. r = <<l>>
    <3>1. /\ t \in Seq(Lexems) /\ l \in Lexems /\ u = Append(t, l)
          /\ o \in 1 .. Len(t) /\ o = Len(t) /\ s = Since(t, o) /\ r = Since(u, o)
      BY <1>3, <1>5, <1>13, <2>1, <2>2
    <3> QED
      BY ONLY <3>1, PieceAppended
  <2>4. LastMark(u, o)
    BY ONLY <1>3, <1>5, <1>7, <1>9, <1>13, LastMarkAppended
  <2> QED
    BY <2>3, <2>4
<1>15. Spread(r, c)'
  BY <1>3, <1>5, <1>7, <1>8, <1>10, <1>14, FirstSpread
<1>16. SpeltHere(u, c)'
  BY <1>10, <1>12, <1>13, <1>14, <1>15 DEF SpeltHere, Since, Spread, LastMark, IsMark, Marks,
     GoodCom
<1> QED
  BY <1>0, <1>2, <1>4, <1>6, <1>16, SpeltOn

LEMMA SpeltConcat ==
  ASSUME SrpInv, BufInv, RawInv, SpeltInv, state_concat_proc
  PROVE  SpeltInv'
<1> SUFFICES ASSUME ~failed' PROVE SpeltInv'
  BY DEF SpeltInv
<1>0. part \in Parts /\ sp.state = "State_concat"
  BY DEF state_concat_proc, Reading
<1>1. PICK l \in Upcoming \ {Eof} :
        /\ current_lexem(l)
        /\ failed' = (failed \/ ~(l \in {Bar, End} \/ (IsLetter(l) /\ Allowed(l))))
        /\ CASE IsLetter(l) ->
                  /\ bufs' = [bufs EXCEPT ![part] = Append(@, l.com)]
                  /\ sp' = [sp EXCEPT !.number_of_concatenated = @ + 1]
                  /\ UNCHANGED part
             [] l = Bar ->
                  /\ bufs' = [bufs EXCEPT ![part] = Alternative]
                  /\ sp' = [sp EXCEPT !.state = "State_begin_concat",
                                      !.number_of_ors = @ + 1,
                                      !.number_of_concatenated = 0,
                                      !.arg1 = Len(Alternative)]
                  /\ UNCHANGED part
             [] l = End -> bufs' = [bufs EXCEPT ![part] = Alternative] /\ Return
             [] OTHER -> UNCHANGED <<bufs, sp, part>>
  BY DEF state_concat_proc
<1>2. ~failed /\ (l \in {Bar, End} \/ (IsLetter(l) /\ Allowed(l)))
  BY <1>1
<1>3. /\ ~IsLetter(Bar) /\ ~IsLetter(End) /\ Bar # End
  BY LexemsApart DEF Marks
<1>5. PICK t, u, b, c, a, n, m, k :
        /\ t = texts[part] /\ u = Append(t, l) /\ b = bufs[part]
        /\ c = Append(b, l.com) /\ a = Alternative /\ n = Len(a)
        /\ m = sp.number_of_ors + 1 /\ k = sp.number_of_concatenated + 1
  OBVIOUS
<1>4. Written(u) /\ l \in Lexems /\ t \in Seq(Lexems)
  BY <1>0, <1>1, <1>2, <1>5, LexemTaken
<1>6. /\ IsLetter(l) =>
           /\ bufs' = [bufs EXCEPT ![part] = c] /\ UNCHANGED part
           /\ sp' = [sp EXCEPT !.number_of_concatenated = k]
      /\ l = Bar =>
           /\ bufs' = [bufs EXCEPT ![part] = a] /\ UNCHANGED part
           /\ sp' = [sp EXCEPT !.state = "State_begin_concat",
                               !.number_of_ors = m,
                               !.number_of_concatenated = 0,
                               !.arg1 = n]
      /\ l = End => bufs' = [bufs EXCEPT ![part] = a] /\ Return
  BY <1>1, <1>3, <1>5
<1>7. Raw(b) /\ sp \in Fields
  BY <1>0, <1>2, <1>5 DEF RawInv, Shaped
<1>8. SpeltHere(t, b)
  BY <1>0, <1>2, <1>5 DEF SpeltInv
<1>9. PICK o, s : /\ s = Since(t, o) /\ LastMark(t, o)
                  /\ Spread(s, b) /\ SoFar(b, Described(t))
  BY <1>0, <1>8 DEF SpeltHere
<1>10. o \in 1 .. Len(t)
  BY <1>4, <1>9 DEF LastMark, IsMark
<1>11. CASE IsLetter(l)
  <2>1. GoodCom(l.com) /\ l \notin Marks
    BY <1>2, <1>3, <1>4, <1>11, LetterGood
  <2>2. Became(u, c)
    BY <1>0, <1>2, <1>4, <1>6, <1>11, BufferBecame
  <2>3. /\ sp'.state = "State_concat"
        /\ sp'.first_concatenated = sp.first_concatenated
        /\ sp'.number_of_concatenated = sp.number_of_concatenated + 1
        /\ sp'.number_of_ors = sp.number_of_ors /\ sp'.arg1 = sp.arg1
    <3>1. k \in Nat
      BY <1>5, <1>7 DEF Fields
    <3> QED
      BY <1>0, <1>5, <1>6, <1>7, <1>11, <3>1 DEF Fields
  <2>4. Described(u) = Described(t)
    <3>1. t \in Seq(Lexems) /\ l \in Lexems /\ u = Append(t, l) /\ l \notin Marks
      BY <1>4, <1>5, <2>1
    <3> QED
      BY ONLY <3>1, DescribedMore
  <2>5. SoFar(c, Described(u))'
    <3>1. l.com \in RawCommands /\ RawPlaced(b, l.com, Len(b) + 1)
      BY <2>1, GoodLetters
    <3>2. PICK X : X = Described(t)
      OBVIOUS
    <3>3. SoFar(c, X)'
      BY ONLY <1>5, <1>7, <1>9, <2>3, <3>1, <3>2, SoFarKept
    <3> QED
      BY <2>4, <3>2, <3>3 DEF SoFar
  <2>6. PICK r : r = Since(u, o)
    OBVIOUS
  <2>7. LastMark(u, o) /\ r = Append(s, l)
    <3>1. r = Append(s, l)
      <4>1. /\ t \in Seq(Lexems) /\ l \in Lexems /\ u = Append(t, l)
            /\ o \in 1 .. Len(t) /\ s = Since(t, o) /\ r = Since(u, o)
        BY <1>4, <1>5, <1>9, <1>10, <2>6
      <4> QED
        BY ONLY <4>1, PieceAppended
    <3>2. LastMark(u, o)
      BY ONLY <1>4, <1>5, <1>9, <2>1, LastMarkAppended
    <3> QED
      BY <3>1, <3>2
  <2>8. Spread(r, c)'
    BY <1>4, <1>5, <1>7, <1>9, <2>1, <2>3, <2>7, LetterSpread
  <2>9. SpeltHere(u, c)'
    BY <2>3, <2>5, <2>6, <2>7, <2>8 DEF SpeltHere, Since, Spread, LastMark, IsMark, Marks,
       GoodCom
  <2> QED
    BY <1>0, <1>2, <1>6, <1>11, <2>2, <2>9, SpeltOn
<1>12. ASSUME l \in {Bar, End}
       PROVE  /\ Became(u, a) /\ Raw(a) /\ n \in Nat /\ n >= 1
              /\ MeansAt(a, Len(a), Described(u)) /\ LastMark(u, Len(u))
  <2>1. l \in Marks /\ ~IsLetter(l)
    BY <1>3, <1>12 DEF Marks
  <2>2. bufs' = [bufs EXCEPT ![part] = a]
    BY <1>6, <1>12
  <2>3. Became(u, a)
    BY <1>0, <1>2, <1>4, <2>2, BufferBecame
  <2>4. PICK X, Y : X = Described(t) /\ Y = StringsOf(s)
    OBVIOUS
  <2>5. a = write_or_command(write_concatenated(b))
    BY <1>5 DEF Alternative
  <2>6. Raw(a) /\ Len(a) \in Nat /\ Len(a) >= 1 /\ MeansAt(a, Len(a), X \cup Y)
    BY ONLY <1>7, <1>9, <2>4, <2>5, AlternativeMeans
  <2>7. Described(u) = X \cup Y
    <3>1. /\ t \in Seq(Lexems) /\ l \in Lexems /\ u = Append(t, l)
          /\ l \in Marks /\ LastMark(t, o)
      BY <1>4, <1>5, <1>9, <2>1
    <3>2. Described(u) = Described(t) \cup StringsOf(Since(t, o))
      BY ONLY <3>1, DescribedMore
    <3> QED
      BY <1>9, <2>4, <3>2
  <2>8. LastMark(u, Len(u))
    BY ONLY <1>4, <1>5, <2>1, LastMarkAppended
  <2> QED
    BY <1>5, <2>3, <2>6, <2>7, <2>8
<1>13. CASE l = Bar
  <2>1. /\ sp'.state = "State_begin_concat" /\ sp'.number_of_ors = m
        /\ sp'.arg1 = n /\ m # 0
    <3>1. m \in Nat /\ m # 0
      BY <1>5, <1>7 DEF Fields
    <3> QED
      BY <1>6, <1>7, <1>13, <3>1 DEF Fields
  <2>2. n \in 1 .. Len(a)
    BY <1>5, <1>12, <1>13
  <2>3. SoFar(a, Described(u))'
    BY <1>5, <1>12, <1>13, <2>1, <2>2 DEF SoFar
  <2>4. SpeltHere(u, a)'
    BY <1>12, <1>13, <2>1, <2>3 DEF SpeltHere, LastMark, IsMark, Marks
  <2> QED
    BY <1>0, <1>2, <1>6, <1>12, <1>13, <2>4, SpeltOn
<1>14. CASE l = End
  <2>1. Spelt(a, u)
    <3>1. a # <<>>
      BY <1>5, <1>12, <1>14
    <3>2. Means(unwrap_commands(a), Described(u))
      BY <1>12, <1>14, MeansAtAll
    <3> QED
      BY <3>1, <3>2 DEF Spelt
  <2> QED
    BY <1>0, <1>2, <1>6, <1>12, <1>14, <2>1, SpeltOver
<1> QED
  BY <1>2, <1>11, <1>13, <1>14

LEMMA SpeltRunOut ==
  ASSUME run_out PROVE SpeltInv'
BY DEF run_out, SpeltInv

LEMMA SpeltKept ==
  ASSUME SpeltInv, UNCHANGED srpVars
  PROVE  SpeltInv'
<1>1. /\ \A p : Finished(p)' <=> Finished(p)
      /\ \A t, b : SpeltHere(t, b)' <=> SpeltHere(t, b)
  BY DEF srpVars, Finished, SpeltHere, SoFar, Spread
<1> QED
  BY <1>1 DEF SpeltInv, Spelt, srpVars

LEMMA SpeltInit ==
  ASSUME SrpInit, part = "id_begin"
  PROVE  SpeltInv
<1>1. \A p \in Parts : ~Finished(p)
  BY DEF Finished, Parts
<1>2. sp.state = "State_begin_expr" /\ sp.number_of_ors = 0
  BY DEF SrpInit, Start
<1>3. texts["id_begin"] = <<>>
  BY DEF SrpInit, Parts
<1> QED
  BY <1>1, <1>2, <1>3 DEF SpeltInv, SpeltHere

-----------------------------------------------------------------------------
(* The expression of identifiers means what is described.                  *)

LEMMA DescribedStrings ==
  ASSUME NEW t \in Seq(Lexems)
  PROVE  Described(t) \subseteq Strings
<1>1. ASSUME NEW y \in AllOf(Pieces(t)) PROVE y \in Strings
  <2>1. PICK s \in Pieces(t) : y \in StringsOf(s)
    BY AllOfIs
  <2>2. PICK i, j : Adjoin(t, i, j) /\ s = SubSeq(t, i + 1, j - 1)
    BY PiecesAre
  <2>3. PICK n : n = j - i - 1
    OBVIOUS
  <2>4. i \in 1 .. Len(t) /\ j \in 1 .. Len(t) /\ i < j /\ DOMAIN s = 1 .. n
    BY <2>2, <2>3, PieceOf
  <2>5. n \in Nat
    BY <2>3, <2>4
  <2>6. y \in [1 .. n -> Chars]
    BY <2>1, <2>4 DEF StringsOf
  <2>7. y \in Seq(Chars)
    BY <2>5, <2>6
  <2> QED
    BY <2>7, CharStrings
<1> QED
  BY <1>1, DescribedIs

Expected ==
  Cat(Described(texts["id_begin"]), Star(Described(texts["id_body"])))
    \cup {w \in Range(keywords) : task = "idkeywords"}

SpelledInv ==
  /\ AcceptInv
  /\ task # "expression" => SpeltInv
  /\ stage \notin {"text", "rejected"} /\ task \in {"identifiers", "idkeywords"}
       => Means(cmds, Expected)

LEMMA IdentMeans ==
  ASSUME RawInv, SpeltInv, ~failed, part = "parsed"
  PROVE  Means(ident_commands, Cat(Described(texts["id_begin"]),
                                   Star(Described(texts["id_body"]))))
<1>1. /\ Raw(bufs["id_begin"]) /\ Raw(bufs["id_body"])
      /\ Spelt(bufs["id_begin"], texts["id_begin"])
      /\ Spelt(bufs["id_body"], texts["id_body"])
  BY DEF RawInv, SpeltInv, Finished, Parts
<1>2. PICK a, b, X, Y :
        /\ a = unwrap_commands(bufs["id_begin"]) /\ X = Described(texts["id_begin"])
        /\ b = unwrap_commands(bufs["id_body"]) /\ Y = Described(texts["id_body"])
  OBVIOUS
<1>3. /\ Complete(a) /\ a # <<>> /\ Means(a, X)
      /\ Complete(b) /\ b # <<>> /\ Means(b, Y)
  BY <1>1, <1>2, UnwrapComplete DEF Spelt
<1>4. Means(regexp1_with_regexp2ast(a, b), Cat(X, Star(Y)))
  BY ONLY <1>3, AstMeans
<1>5. ident_commands = regexp1_with_regexp2ast(a, b)
  BY <1>2 DEF ident_commands
<1> QED
  BY <1>2, <1>4, <1>5

LEMMA GenerateSpelled ==
  ASSUME TypeInv, SpeltInv, generate_idents
  PROVE  SpeltInv' /\ Means(cmds', Expected')
<1>1. /\ task = "identifiers" /\ part = "parsed" /\ ~failed /\ RawInv
      /\ UNCHANGED srpVars
  BY DEF generate_idents, TypeInv
<1>2. PICK kws, joined, b :
        /\ kws \in KeywordLists /\ joined \in BOOLEAN /\ keywords' = kws
        /\ task' = IF joined THEN "idkeywords" ELSE "identifiers"
        /\ b = IF joined THEN regexp1_or_regexp2(ident_commands,
                                                 u32strings_to_commands(kws))
               ELSE ident_commands
        /\ build_automaton(WithAction(b, WriteAction), TRUE)
  <2>1. PICK kws \in KeywordLists :
          LET joined == Meets(keyword_begin(kws), first_chars(bufs["id_begin"]))
          IN /\ keywords' = kws
             /\ task' = IF joined THEN "idkeywords" ELSE "identifiers"
             /\ build_automaton(
                  WithAction(IF joined
                             THEN regexp1_or_regexp2(ident_commands,
                                                     u32strings_to_commands(kws))
                             ELSE ident_commands, WriteAction), TRUE)
    BY DEF generate_idents
  <2>2. CASE Meets(keyword_begin(kws), first_chars(bufs["id_begin"]))
    <3>1. PICK b : b = regexp1_or_regexp2(ident_commands,
                                          u32strings_to_commands(kws))
      OBVIOUS
    <3>2. task' = "idkeywords"
          /\ build_automaton(WithAction(b, WriteAction), TRUE)
      BY <2>1, <2>2, <3>1
    <3> QED
      BY <2>1, <3>1, <3>2
  <2>3. CASE ~Meets(keyword_begin(kws), first_chars(bufs["id_begin"]))
    <3>1. PICK b : b = ident_commands
      OBVIOUS
    <3>2. task' = "identifiers"
          /\ build_automaton(WithAction(b, WriteAction), TRUE)
      BY <2>1, <2>3, <3>1
    <3> QED
      BY <2>1, <3>1, <3>2
  <2> QED
    BY <2>2, <2>3
<1>3. cmds' = WithAction(b, WriteAction)
  BY <1>2 DEF build_automaton
<1>4. PICK i, Z, E :
        /\ i = ident_commands /\ E = Expected'
        /\ Z = Cat(Described(texts["id_begin"]), Star(Described(texts["id_body"])))
  OBVIOUS
<1>5. Complete(i) /\ i # <<>> /\ Means(i, Z)
  BY <1>1, <1>4, IdentComplete, IdentMeans
<1>6. kws \in Seq(Seq(Chars) \ {<<>>})
  BY <1>2, AutomataAssumption
<1>7. texts' = texts
  BY <1>1 DEF srpVars
<1>8. E = Z \cup {w \in Range(kws) : joined}
  <2>1. E = Z \cup {w \in Range(kws) : task' = "idkeywords"}
    BY <1>2, <1>4, <1>7 DEF Expected
  <2>2. task' = "idkeywords" <=> joined
    BY <1>2
  <2> QED
    BY <2>1, <2>2
<1>9. Complete(b) /\ b # <<>> /\ Means(b, E)
  <2>1. CASE joined
    <3>1. b = regexp1_or_regexp2(i, u32strings_to_commands(kws))
      BY <1>2, <1>4, <2>1
    <3>2. Complete(u32strings_to_commands(kws))
      BY <1>6, StringsComplete
    <3>3. Complete(b) /\ b # <<>>
      BY <1>5, <3>1, <3>2, OrComplete
    <3>4. Means(b, Z \cup Range(kws))
      BY <1>5, <1>6, <3>1, KeywordsMean
    <3>5. E = Z \cup Range(kws)
      BY <1>8, <2>1
    <3> QED
      BY <3>3, <3>4, <3>5
  <2>2. CASE ~joined
    <3>1. b = i /\ E = Z
      BY <1>2, <1>4, <1>8, <2>2
    <3> QED
      BY <1>5, <3>1
  <2> QED
    BY <2>1, <2>2
<1>10. Means(WithAction(b, WriteAction), E)
  <2>1. WriteAction \in Nat
    BY AutomataAssumption
  <2> QED
    BY <1>9, <2>1, ActionMeans
<1> QED
  BY <1>1, <1>3, <1>4, <1>10, SpeltKept

LEMMA StepSpelled ==
  ASSUME SpelledInv, Next
  PROVE  SpelledInv'
<1>1. AcceptInv /\ AcceptInv' /\ TypeInv
  BY StepAccepts DEF SpelledInv, AcceptInv
<1>2. CASE read_idents
  <2>1. /\ task = "identifiers" /\ task' = task /\ SrpNext
        /\ stage = "text" /\ stage' = stage
    BY <1>2 DEF read_idents, dfaVars
  <2>2. SrpInv /\ BufInv /\ RawInv /\ SpeltInv
    BY <1>1, <2>1 DEF ApartInv, IInv, TypeInv, SpelledInv
  <2>3. SpeltInv'
    BY <2>1, <2>2, SpeltBeginExpr, SpeltBeginConcat, SpeltConcat, SpeltRunOut
       DEF SrpNext
  <2> QED
    BY <1>1, <2>1, <2>3 DEF SpelledInv
<1>3. CASE reject
  <2>1. UNCHANGED <<srpVars, task>> /\ stage' = "rejected"
    BY <1>3 DEF reject
  <2> QED
    BY <1>1, <2>1, SpeltKept DEF SpelledInv
<1>4. CASE generate_idents
  <2>1. task = "identifiers" /\ SpeltInv
    BY <1>4 DEF generate_idents, SpelledInv
  <2>2. SpeltInv' /\ Means(cmds', Expected')
    BY <1>1, <1>4, <2>1, GenerateSpelled
  <2> QED
    BY <1>1, <2>2 DEF SpelledInv
<1>5. CASE H_is_d \/ T_is_TbE \/ E_is_EF \/ F_is_Gc \/ G_is_Ha
           \/ generate_expression
  <2>1. task = "expression" /\ task' = task
    BY <1>5 DEF H_is_d, T_is_TbE, E_is_EF, binary, F_is_Gc, Reduce, G_is_Ha,
                generate_expression
  <2> QED
    BY <1>1, <2>1 DEF SpelledInv
<1>6. CASE Build
  <2>1. DfaNext /\ UNCHANGED <<srpVars, task, keywords>>
    BY <1>6 DEF Build
  <2>2. cmds' = cmds /\ stage \notin {"text", "rejected"}
    BY <2>1 DEF DfaNext, convert_NDFA_to_DFA, begin_minimization,
                split_states_into_equivalence_classes, end_minimization,
                group_jumps
  <2>3. Expected' = Expected
    BY <2>1 DEF Expected, srpVars
  <2> QED
    BY <1>1, <2>1, <2>2, <2>3, SpeltKept DEF SpelledInv
<1> QED
  BY <1>2, <1>3, <1>4, <1>5, <1>6 DEF Next

LEMMA SpelledNext ==
  ASSUME SpelledInv, [Next]_vars
  PROVE  SpelledInv'
<1>1. CASE Next
  BY <1>1, StepSpelled
<1>2. CASE UNCHANGED vars
  <2>1. AcceptInv'
    BY <1>2, AcceptNext DEF SpelledInv
  <2>2. UNCHANGED <<srpVars, task, keywords, cmds, stage, texts>>
    BY <1>2 DEF vars, dfaVars, srpVars
  <2>3. Expected' = Expected
    BY <2>2 DEF Expected
  <2> QED
    BY <2>1, <2>2, <2>3, SpeltKept DEF SpelledInv
<1> QED
  BY <1>1, <1>2

LEMMA InitSpelled ==
  ASSUME Init
  PROVE  SpelledInv
<1>1. stage = "text" /\ SrpInit
      /\ task = IF part = "parsed" THEN "expression" ELSE "identifiers"
  BY DEF Init
<1>2. task # "expression" => part = "id_begin"
  BY <1>1 DEF SrpInit
<1> QED
  BY <1>1, <1>2, InitAccepts, SpeltInit DEF SpelledInv

(* Cut the same, the sets the model compares are the same.                 *)
LEMMA SpelledFound ==
  ASSUME SpelledInv
  PROVE  IdentifiersSpelled
<1> SUFFICES ASSUME stage = "subset", task \in {"identifiers", "idkeywords"}
             PROVE  Spellings(Words(cmds, MaxWord)) =
                      Cut(Repeated(Described(texts["id_body"]),
                                   Cut(Described(texts["id_begin"])), MaxWord)
                          \cup {w \in Range(keywords) : task = "idkeywords"})
  BY DEF IdentifiersSpelled
<1>1. /\ Complete(cmds) /\ cmds # <<>> /\ Fitting(cmds, ndfa)
      /\ Means(cmds, Expected)
  BY DEF SpelledInv, AcceptInv, FollowInv
<1>2. SrpInv
  BY DEF SpelledInv, AcceptInv, TypeInv, ApartInv, IInv
<1>3. PICK b, n, X, Y, K, Z :
        /\ b = cmds /\ n = MaxWord /\ Z = Cut(Y)
        /\ X = Described(texts["id_body"]) /\ Y = Described(texts["id_begin"])
        /\ K = {w \in Range(keywords) : task = "idkeywords"}
  OBVIOUS
<1>4. n \in Nat /\ n >= 1
  BY <1>3, AutomataAssumption
<1>5. X \subseteq Strings /\ Y \subseteq Strings
  <2>1. texts["id_body"] \in Seq(Lexems) /\ texts["id_begin"] \in Seq(Lexems)
    BY <1>2 DEF SrpInv, Parts
  <2> QED
    BY <1>3, <2>1, DescribedStrings
<1>6. Z = {y \in Y : Len(y) <= n}
  BY <1>3 DEF Cut
<1>7. PICK R, C : R = Repeated(X, Z, n) /\ C = Cat(Y, Star(X))
  OBVIOUS
<1>8. R = {w \in C : Len(w) <= n}
  BY <1>4, <1>5, <1>6, <1>7, RepeatedIs
<1>9. Spellings(Words(cmds, MaxWord)) = {w \in C \cup K : Len(w) <= n}
  <2>1. PICK L : Meaning(b, L) /\ Accepts(ndfa) = L[Len(b)]
    BY <1>1, <1>3 DEF Fitting
  <2>2. Accepts(ndfa) = Expected
    BY <1>1, <1>3, <2>1 DEF Means
  <2>3. Expected = C \cup K
    BY <1>3, <1>7 DEF Expected
  <2>4. PICK a : a = ndfa
    OBVIOUS
  <2>5. Spellings(Words(b, n)) = {w \in Accepts(a) : Len(w) <= n}
    BY <1>1, <1>3, <1>4, <2>4, SpelledIs
  <2> QED
    BY <1>3, <2>2, <2>3, <2>4, <2>5
<1>10. Cut(R \cup K) = {w \in C \cup K : Len(w) <= n}
  <2>1. Cut(R \cup K) = {w \in R \cup K : Len(w) <= n}
    BY <1>3 DEF Cut
  <2> QED
    BY ONLY <1>8, <2>1
<1> QED
  BY <1>3, <1>7, <1>9, <1>10

(* Of an identifier's two texts, the automaton is built of commands that   *)
(* spell, up to MaxWord characters, what the texts describe: one of the    *)
(* beginnings, then bodies, or a keyword when the keywords are joined      *)
(* (Simple_regex_parser, regexp1_with_regexp2ast, regexp1_or_regexp2,      *)
(* u32strings_to_commands).                                                *)
THEOREM IdentifiersAlwaysSpelled == Spec => []IdentifiersSpelled
<1> QED
  BY InitSpelled, SpelledNext, SpelledFound, PTL DEF Spec

-----------------------------------------------------------------------------
(* What an expression begins with, as first_chars finds it.                *)

LEMMA CharCovers ==
  ASSUME NEW c \in Chars
  PROVE  Covers(c) = {c} /\ Set_of_cs({c}) \in Categories
<1>1. c # G_ndq /\ c # G_nsq
  <2>0. c \in 1 .. G_ndq - 1
    BY CategoriesAssumption
  <2>1. G_ndq \in Nat
    BY SMT DEF G_ndq
  <2>2. c < G_ndq /\ c \in Nat
    BY ONLY <2>0, <2>1
  <2>3. G_ndq < G_nsq /\ G_nsq \in Nat
    BY SMT DEF G_ndq, G_nsq
  <2> QED
    BY <2>1, <2>2, <2>3
<1>2. gc2category(c) = Set_of_cs({c})
  BY <1>1 DEF gc2category
<1>3. Set_of_cs({c}) \in Categories
  <2>1. {c} \in SUBSET Chars
    OBVIOUS
  <2> QED
    BY <2>1 DEF Categories
<1>4. Denotes(Set_of_cs({c})) = {c}
  BY DEF Set_of_cs, Denotes, IsSet
<1> QED
  BY <1>2, <1>3, <1>4 DEF Covers

LEMMA QuoteCovers ==
  /\ Covers(G_ndq) = Denotes(Not_double_quote)
  /\ Covers(G_nsq) = Denotes(Not_single_quote)
  /\ Not_double_quote \in Categories /\ Not_single_quote \in Categories
BY QuotesApart DEF Covers, gc2category, Categories

(* A character or a class begins with what its letters cover.              *)
BeginsAs(c, S) ==
  /\ c \in Categories
  /\ \A ch : ch \in Denotes(c) <=> \E gc \in S : ch \in Covers(gc)

LEMMA LeafIs ==
  ASSUME NEW com \in RawCommands, com.name \in Leaves,
         com.name = "char_def" => com.c \in Chars /\ com.cls = "none",
         com.name = "char_class_def" => com.cls \in Classes
  PROVE  /\ BeginsAs(command2category(com), Letters(unwrap(com)))
         /\ Letters(unwrap(com)) # {}
<1>1. CASE com.name = "char_def"
  <2>1. com.c \in Chars
    BY <1>1
  <2>2. com.name # "char_class_def"
    BY <1>1
  <2>3. unwrap(com).kind = "char_def" /\ unwrap(com).s = {com.c}
    BY <1>1, <2>2, Zenon DEF unwrap
  <2>4. Letters(unwrap(com)) = {com.c}
    BY <2>3, Zenon DEF Letters
  <2>5. command2category(com) = Set_of_cs({com.c})
    <3>1. com.cls # "ndq" /\ com.cls # "nsq"
      BY <1>1
    <3> QED
      BY <1>1, <3>1, Zenon DEF command2category
  <2>6. Denotes(Set_of_cs({com.c})) = {com.c}
    BY DEF Set_of_cs, Denotes, IsSet
  <2> QED
    BY <2>1, <2>4, <2>5, <2>6, CharCovers DEF BeginsAs
<1>2. CASE com.name = "char_class_def" /\ com.cls \in QuoteClasses
  <2>1. com.name # "char_def"
    BY <1>2
  <2>2. unwrap(com).kind = com.cls
    BY <1>2, <2>1, Zenon DEF unwrap
  <2>3. CASE com.cls = "ndq"
    <3>1. Letters(unwrap(com)) = {G_ndq}
      BY <2>2, <2>3, Zenon DEF Letters
    <3>2. command2category(com) = Not_double_quote
      BY <2>1, <2>3, Zenon DEF command2category
    <3> QED
      BY ONLY <3>1, <3>2, QuoteCovers DEF BeginsAs
  <2>4. CASE com.cls = "nsq"
    <3>1. Letters(unwrap(com)) = {G_nsq}
      BY <2>2, <2>4, Zenon DEF Letters
    <3>2. command2category(com) = Not_single_quote
      BY <2>1, <2>4, Zenon DEF command2category
    <3> QED
      BY ONLY <3>1, <3>2, QuoteCovers DEF BeginsAs
  <2> QED
    BY <1>2, <2>3, <2>4 DEF QuoteClasses
<1>3. CASE com.name = "char_class_def" /\ com.cls \notin QuoteClasses
  <2>1. PICK cls, S : cls = com.cls /\ S = char_classes[cls]
    OBVIOUS
  <2>2. cls \in DOMAIN char_classes /\ com.name # "char_def"
    BY <1>3, <2>1 DEF Classes
  <2>3. S \subseteq Chars /\ S # {}
    BY <2>1, <2>2, CategoriesAssumption, ClassesAssumption
  <2>4. unwrap(com).kind = "multior" /\ unwrap(com).s = S
    BY <1>3, <2>1, <2>2, Zenon DEF unwrap
  <2>5. Letters(unwrap(com)) = S
    BY <2>4, Zenon DEF Letters
  <2>6. command2category(com) = Set_of_cs(S)
    BY <1>3, <2>1, <2>2, Zenon DEF command2category, QuoteClasses
  <2>7. Set_of_cs(S) \in Categories /\ Denotes(Set_of_cs(S)) = S
    BY <2>3 DEF Categories, Set_of_cs, Denotes, IsSet
  <2>8. \A c \in S : Covers(c) = {c}
    BY <2>3, CharCovers
  <2>9. BeginsAs(Set_of_cs(S), S)
    BY ONLY <2>7, <2>8 DEF BeginsAs
  <2> QED
    BY <2>3, <2>5, <2>6, <2>9
<1> QED
  BY <1>1, <1>2, <1>3 DEF Leaves

LEMMA RawTurn ==
  ASSUME NEW b, Raw(b), NEW i \in 1 .. Len(b), NEW g
  PROVE  /\ b[i].name \in RawNames
         /\ b[i].name = "or" => /\ Turn(b, g, i) = Plus(g[b[i].first], g[b[i].second])
                                /\ b[i].first \in 1 .. i - 1
                                /\ b[i].second \in 1 .. i - 1
         /\ b[i].name \in {"concat", "multiconcat"} \cup Unary
              => Turn(b, g, i) = g[b[i].first] /\ b[i].first \in 1 .. i - 1
         /\ b[i].name \in Leaves
              => /\ Turn(b, g, i) = command2category(b[i])
                 /\ BeginsAs(command2category(b[i]), Letters(unwrap(b[i])))
                 /\ Letters(unwrap(b[i])) # {}
<1>1. PICK com : com = b[i]
  OBVIOUS
<1>2. com \in RawCommands /\ RawPlaced(b, com, i) /\ com.name \in RawNames
  <2>1. com \in RawCommands /\ RawPlaced(b, com, i)
    BY <1>1 DEF Raw
  <2> QED
    BY <2>1, RawAre
<1>3. com.name = "or" => Turn(b, g, i) = Plus(g[com.first], g[com.second])
  <2>1. com.name = "or" => com.name \notin {"concat", "multiconcat"} \cup Unary
    BY DEF Unary
  <2> QED
    BY <1>1, <2>1, Zenon DEF Turn
<1>4. com.name \in {"concat", "multiconcat"} \cup Unary => Turn(b, g, i) = g[com.first]
  <2>1. com.name \in {"concat", "multiconcat"} \cup Unary => com.name # "or"
    BY DEF Unary
  <2> QED
    BY <1>1, <2>1, Zenon DEF Turn
<1>5. com.name \in Leaves => Turn(b, g, i) = command2category(com)
  <2>1. com.name \in Leaves => com.name # "or"
                               /\ com.name \notin {"concat", "multiconcat"} \cup Unary
    BY DEF Leaves, Unary
  <2> QED
    BY <1>1, <2>1, Zenon DEF Turn
<1>6. com.name = "or" => com.first \in 1 .. i - 1 /\ com.second \in 1 .. i - 1
  BY <1>2 DEF RawPlaced, Binary
<1>7. com.name \in {"concat", "multiconcat"} \cup Unary => com.first \in 1 .. i - 1
  BY <1>2 DEF RawPlaced, Binary
<1>8. com.name \in Leaves => /\ BeginsAs(command2category(com), Letters(unwrap(com)))
                             /\ Letters(unwrap(com)) # {}
  BY <1>2, LeafIs DEF RawPlaced
<1> QED
  BY <1>1, <1>2, <1>3, <1>4, <1>5, <1>6, <1>7, <1>8

Operations == {"concat", "multiconcat"} \cup Unary

LEMMA RawKinds ==
  ASSUME NEW x \in RawNames
  PROVE  x = "or" \/ x \in Operations \/ x \in Leaves
BY DEF RawNames, Operations, Binary

LEMMA TurnTyped ==
  ASSUME NEW b, Raw(b), NEW i \in 1 .. Len(b), NEW g,
         \A j \in 1 .. i - 1 : g[j] \in Categories
  PROVE  Turn(b, g, i) \in Categories
<1>1. CASE b[i].name = "or"
  <2>1. g[b[i].first] \in Categories /\ g[b[i].second] \in Categories
    BY <1>1, RawTurn
  <2> QED
    BY <1>1, <2>1, RawTurn, PlusIs
<1>2. CASE b[i].name \in Operations
  BY <1>2, RawTurn DEF Operations
<1>3. CASE b[i].name \in Leaves
  BY <1>3, RawTurn DEF BeginsAs
<1> QED
  BY <1>1, <1>2, <1>3, RawTurn, RawKinds

LEMMA TurnSame ==
  ASSUME NEW b, Raw(b), NEW i \in 1 .. Len(b), NEW g, NEW h,
         \A j \in 1 .. i - 1 : g[j] = h[j]
  PROVE  Turn(b, g, i) = Turn(b, h, i)
<1>1. CASE b[i].name = "or"
  <2>1. g[b[i].first] = h[b[i].first] /\ g[b[i].second] = h[b[i].second]
    BY <1>1, RawTurn
  <2> QED
    BY <1>1, <2>1, RawTurn
<1>2. CASE b[i].name \in Operations
  BY <1>2, RawTurn DEF Operations
<1>3. CASE b[i].name \in Leaves
  BY <1>3, RawTurn
<1> QED
  BY <1>1, <1>2, <1>3, RawTurn, RawKinds

LEMMA RawStartsExist ==
  ASSUME NEW b, Raw(b)
  PROVE  \E g : Starts(b, g)
<1> DEFINE N == Len(b)
           X == [i \in 1 .. N |-> Categories]
           Made(i, h) == Turn(b, h, i)
           F == [i \in 1 .. N |-> [h \in Earlier(X, 1, i) |-> Made(i, h)]]
<1>0. N \in Nat
  BY DEF Raw
<1>1. \A i \in 1 .. N : \A h \in Earlier(X, 1, i) : F[i][h] = Made(i, h)
  OBVIOUS
<1>2. ASSUME NEW i \in 1 .. N, NEW h \in Earlier(X, 1, i)
      PROVE  F[i][h] \in X[i]
  <2>0. \A j \in 1 .. i - 1 : h[j] \in X[j]
    <3> HIDE DEF X
    <3> QED
      BY DEF Earlier
  <2>1. \A j \in 1 .. i - 1 : h[j] \in X[j] /\ j \in 1 .. N
    <3> HIDE DEF X, N
    <3>1. \A j \in 1 .. i - 1 : j \in 1 .. N
      BY <1>0
    <3> QED
      BY <2>0, <3>1
  <2>2. \A j \in 1 .. i - 1 : h[j] \in Categories
    BY <2>1
  <2>3. Made(i, h) \in Categories
    BY <2>2, TurnTyped
  <2> QED
    BY <1>1, <2>3
<1> HIDE DEF X, F, N
<1>3. PICK f : /\ Recursive(f, F, 1, N)
               /\ \A i \in 1 .. N : Before(f, 1, i) \in Earlier(X, 1, i)
  BY <1>0, <1>2, Recursion
<1>4. ASSUME NEW i \in 1 .. N PROVE f[i] = Made(i, f)
  <2>1. f[i] = Made(i, Before(f, 1, i))
    BY <1>1, <1>3 DEF Recursive
  <2>2. \A j \in 1 .. i - 1 : Before(f, 1, i)[j] = f[j]
    BY DEF Before
  <2>3. PICK h : h = Before(f, 1, i)
    OBVIOUS
  <2>4. i \in 1 .. Len(b) /\ \A j \in 1 .. i - 1 : h[j] = f[j]
    BY <2>2, <2>3 DEF N
  <2>5. Turn(b, h, i) = Turn(b, f, i)
    BY <2>4, TurnSame, ZenonT(30)
  <2> QED
    BY <2>1, <2>3, <2>5
<1>5. f = [i \in 1 .. N |-> f[i]]
  BY <1>3 DEF Recursive
<1>6. Starts(b, f)
  BY <1>4, <1>5 DEF Starts, N
<1> QED
  BY <1>6

Beginnings(b, g) ==
  \A i \in 1 .. Len(b) : g[i] \in Categories /\ g[i] = Turn(b, g, i)

LEMMA RawFirst ==
  ASSUME NEW b, Raw(b)
  PROVE  \E g : Beginnings(b, g) /\ first_chars(b) = g[Len(b)]
<1>1. PICK g : g = CHOOSE f : Starts(b, f)
  OBVIOUS
<1>2. Starts(b, g)
  BY <1>1, RawStartsExist, Zenon
<1>3. first_chars(b) = g[Len(b)]
  BY <1>1, FirstIs
<1>4. PICK N, X : N = Len(b) /\ X = [i \in 1 .. N |-> Categories]
  OBVIOUS
<1>5. N \in Nat /\ 1 \in Nat
  BY <1>4 DEF Raw
<1>6. \A i \in 1 .. N : g[i] = Turn(b, g, i)
  BY <1>2, <1>4 DEF Starts
<1>7. ASSUME NEW i \in 1 .. N, \A j \in 1 .. i - 1 : g[j] \in X[j]
      PROVE  g[i] \in X[i]
  <2>1. \A j \in 1 .. i - 1 : j \in 1 .. N
    BY <1>5
  <2>2. \A j \in 1 .. i - 1 : g[j] \in Categories
    BY <1>4, <1>7, <2>1
  <2>3. Turn(b, g, i) \in Categories
    BY <1>4, <2>2, TurnTyped
  <2> QED
    BY <1>4, <1>6, <2>3
<1>8. \A i \in 1 .. N : g[i] \in X[i]
  BY <1>5, <1>7, RecursionTyped
<1>9. Beginnings(b, g)
  BY <1>4, <1>6, <1>8 DEF Beginnings
<1> QED
  BY <1>3, <1>9

(* The words of X begin as c says, which words of at most m characters     *)
(* show.                                                                   *)
ShortIn(X, m)   == \E w \in X : Len(w) <= m
Shown(X, m, ch) == \E w \in X : w # <<>> /\ Len(w) <= m /\ ch \in Covers(w[1])
Bounded(X, c)    == \A w \in X : w # <<>> => Covers(w[1]) \subseteq Denotes(c)

StartedBy(X, c, m) ==
  ShortIn(X, m) /\ Bounded(X, c) /\ \A ch \in Denotes(c) : Shown(X, m, ch)

LEMMA OpenedBy ==
  ASSUME NEW u \in Strings, NEW v \in Strings
  PROVE  /\ Len(u \o v) = Len(u) + Len(v) /\ Len(u) \in Nat /\ Len(v) \in Nat
         /\ u # <<>> => u \o v # <<>> /\ (u \o v)[1] = u[1]
         /\ u = <<>> => u \o v = v
<1>1. Len(u \o v) = Len(u) + Len(v) /\ Len(u) \in Nat /\ Len(v) \in Nat
  BY DEF Strings
<1>2. ASSUME u # <<>> PROVE u \o v # <<>> /\ (u \o v)[1] = u[1]
  <2>1. u \in Seq(Gen_chars) /\ v \in Seq(Gen_chars) /\ Len(u) >= 1
    BY <1>2 DEF Strings
  <2> QED
    BY <2>1
<1>3. u = <<>> => u \o v = v
  BY Strung
<1> QED
  BY <1>1, <1>2, <1>3

LEMMA StartedLetters ==
  ASSUME NEW S, S # {}, S \subseteq Gen_chars, NEW c, BeginsAs(c, S)
  PROVE  StartedBy(LettersWords(S), c, 1)
<1>1. ASSUME NEW gc \in S
      PROVE  /\ <<gc>> \in LettersWords(S) /\ <<gc>> # <<>>
             /\ Len(<<gc>>) <= 1 /\ <<gc>>[1] = gc
  BY DEF LettersWords
<1>2. \A w \in LettersWords(S) : \E gc \in S : w[1] = gc
  BY DEF LettersWords
<1>3. ShortIn(LettersWords(S), 1)
  BY <1>1 DEF ShortIn
<1>4. Bounded(LettersWords(S), c)
  BY <1>2 DEF Bounded, BeginsAs
<1>5. ASSUME NEW ch \in Denotes(c) PROVE Shown(LettersWords(S), 1, ch)
  <2>1. PICK gc \in S : ch \in Covers(gc)
    BY DEF BeginsAs
  <2> QED
    BY <1>1, <2>1 DEF Shown
<1> QED
  BY <1>3, <1>4, <1>5 DEF StartedBy

LEMMA StartedEither ==
  ASSUME NEW X, X \subseteq Strings, NEW Y, Y \subseteq Strings,
         NEW c \in Categories, NEW d \in Categories, NEW m \in Nat, NEW n \in Nat,
         StartedBy(X, c, m), StartedBy(Y, d, n)
  PROVE  StartedBy(X \cup Y, Plus(c, d), m + n)
<1>1. Denotes(Plus(c, d)) = Denotes(c) \cup Denotes(d)
  BY PlusIs
<1>2. \A w \in X \cup Y : Len(w) \in Nat
  BY DEF Strings
<1>3. ShortIn(X \cup Y, m + n)
  BY <1>2 DEF StartedBy, ShortIn
<1>4. Bounded(X \cup Y, Plus(c, d))
  BY <1>1 DEF StartedBy, Bounded
<1>5. ASSUME NEW ch \in Denotes(Plus(c, d)) PROVE Shown(X \cup Y, m + n, ch)
  <2>1. CASE ch \in Denotes(c)
    <3>1. PICK w \in X : w # <<>> /\ Len(w) <= m /\ ch \in Covers(w[1])
      BY <2>1 DEF StartedBy, Shown
    <3>2. Len(w) <= m + n
      BY <1>2, <3>1
    <3> QED
      BY <3>1, <3>2 DEF Shown
  <2>2. CASE ch \in Denotes(d)
    <3>1. PICK w \in Y : w # <<>> /\ Len(w) <= n /\ ch \in Covers(w[1])
      BY <2>2 DEF StartedBy, Shown
    <3>2. Len(w) <= m + n
      BY <1>2, <3>1
    <3> QED
      BY <3>1, <3>2 DEF Shown
  <2> QED
    BY <1>1, <2>1, <2>2
<1> QED
  BY <1>3, <1>4, <1>5 DEF StartedBy

LEMMA StartedBoth ==
  ASSUME NEW X, X \subseteq Strings, <<>> \notin X, NEW Y, Y \subseteq Strings,
         NEW c, NEW m \in Nat, NEW n \in Nat,
         StartedBy(X, c, m), ShortIn(Y, n)
  PROVE  StartedBy(Cat(X, Y), c, m + n)
<1>1. PICK v \in Y : Len(v) <= n
  BY DEF ShortIn
<1>2. v \in Strings /\ \A u \in X : u \in Strings /\ u # <<>>
  OBVIOUS
<1>3. ASSUME NEW u \in X, Len(u) <= m
      PROVE  /\ u \o v \in Cat(X, Y) /\ Len(u \o v) <= m + n
             /\ u \o v # <<>> /\ (u \o v)[1] = u[1]
  <2>1. /\ Len(u \o v) = Len(u) + Len(v) /\ Len(u) \in Nat /\ Len(v) \in Nat
        /\ u \o v # <<>> /\ (u \o v)[1] = u[1]
    BY <1>2, OpenedBy
  <2>2. u \o v \in Cat(X, Y)
    BY CatIs
  <2>3. Len(u \o v) <= m + n
    BY <1>1, <1>3, <2>1
  <2> QED
    BY <2>1, <2>2, <2>3
<1>4. ShortIn(Cat(X, Y), m + n)
  <2>1. PICK u \in X : Len(u) <= m
    BY DEF StartedBy, ShortIn
  <2> QED
    BY <1>3, <2>1 DEF ShortIn
<1>5. Bounded(Cat(X, Y), c)
  <2>1. ASSUME NEW w \in Cat(X, Y) PROVE Covers(w[1]) \subseteq Denotes(c)
    <3>1. PICK x \in X, y \in Y : w = x \o y
      <4>1. \A z \in Cat(X, Y) : \E u \in X : \E t \in Y : z = u \o t
        BY DEF Cat
      <4> QED
        BY <4>1, Zenon
    <3>2. w[1] = x[1]
      BY <1>2, <3>1, OpenedBy
    <3> QED
      BY <1>2, <3>2 DEF StartedBy, Bounded
  <2> QED
    BY <2>1 DEF Bounded
<1>6. ASSUME NEW ch \in Denotes(c) PROVE Shown(Cat(X, Y), m + n, ch)
  <2>1. PICK u \in X : u # <<>> /\ Len(u) <= m /\ ch \in Covers(u[1])
    BY DEF StartedBy, Shown
  <2>2. PICK w : w = u \o v
    OBVIOUS
  <2>3. w \in Cat(X, Y) /\ Len(w) <= m + n /\ w # <<>> /\ w[1] = u[1]
    BY <1>3, <2>1, <2>2
  <2> QED
    BY ONLY <2>1, <2>3 DEF Shown
<1> QED
  BY <1>4, <1>5, <1>6 DEF StartedBy

(* More words with the same beginnings.                                    *)
LEMMA StartedMore ==
  ASSUME NEW X, NEW Y, X \subseteq Y, NEW c, NEW m,
         StartedBy(X, c, m), Bounded(Y, c)
  PROVE  StartedBy(Y, c, m)
<1>1. ShortIn(Y, m)
  BY DEF StartedBy, ShortIn
<1>2. \A ch \in Denotes(c) : Shown(Y, m, ch)
  BY DEF StartedBy, Shown
<1> QED
  BY <1>1, <1>2 DEF StartedBy

LEMMA StarWithin ==
  ASSUME NEW X, X \subseteq Strings, NEW c, Bounded(X, c)
  PROVE  /\ Bounded(Star(X), c) /\ Bounded(Cat(X, Star(X)), c)
         /\ X \subseteq Star(X) /\ X \subseteq Cat(X, Star(X))
<1>1. PICK K : K = {w \in Strings : w # <<>> => Covers(w[1]) \subseteq Denotes(c)}
  OBVIOUS
<1>2. <<>> \in Strings
  BY Strung
<1>3. ASSUME NEW u \in X, NEW k \in K PROVE u \o k \in K
  <2>1. u \in Strings /\ k \in Strings /\ u \o k \in Strings
    BY <1>1, Strung
  <2>2. CASE u = <<>>
    BY <2>1, <2>2, OpenedBy
  <2>3. CASE u # <<>>
    <3>1. (u \o k)[1] = u[1]
      BY <2>1, <2>3, OpenedBy
    <3>2. Covers(u[1]) \subseteq Denotes(c)
      BY <2>3 DEF Bounded
    <3>3. PICK w : w = u \o k
      OBVIOUS
    <3> QED
      BY <1>1, <2>1, <3>1, <3>2, <3>3
  <2> QED
    BY <2>2, <2>3
<1>4. K \in SUBSET Strings /\ <<>> \in K
  BY <1>1, <1>2
<1>5. Star(X) \subseteq K
  BY <1>3, <1>4, StarLeast
<1>6. Star(X) \subseteq Strings /\ <<>> \in Star(X)
      /\ \A u \in X : \A k \in Star(X) : u \o k \in Star(X)
  BY StarIs
<1>7. Cat(X, Star(X)) \subseteq Star(X)
  <2>1. \A w \in Cat(X, Star(X)) : \E u \in X : \E v \in Star(X) : w = u \o v
    BY DEF Cat
  <2> QED
    BY <1>6, <2>1
<1>8. ASSUME NEW u \in X PROVE u \in Cat(X, Star(X))
  <2>1. u \o <<>> = u
    BY Strung
  <2>2. u \o <<>> \in Cat(X, Star(X))
    BY <1>6, CatIs
  <2> QED
    BY <2>1, <2>2
<1> QED
  BY <1>1, <1>5, <1>7, <1>8 DEF Bounded

LEMMA OptionalWithin ==
  ASSUME NEW X, NEW c, Bounded(X, c)
  PROVE  Bounded(X \cup {<<>>}, c)
BY DEF Bounded

(* The words of a command are no longer than the number of its leaves.     *)
Weighed(b, W) ==
  \A i \in 1 .. Len(b) :
    /\ W[i] \in Nat
    /\ b[i].name \in Leaves \cup Binary \cup Unary
    /\ b[i].name \in Leaves => W[i] = 1
    /\ b[i].name \in Binary => W[i] = W[b[i].first] + W[b[i].second]
    /\ b[i].name \in Unary  => W[i] = W[b[i].first]

Solid(b, L) ==
  \A i \in 1 .. Len(b) : b[i].name = "concat" => <<>> \notin L[b[i].first]

LEMMA StartedStep ==
  ASSUME NEW b, Raw(b), NEW u, u = unwrap_commands(b), NEW L, Meaning(u, L),
         NEW g, Beginnings(b, g), NEW W, Weighed(b, W), Solid(b, L),
         NEW i \in 1 .. Len(b),
         \A j \in 1 .. i - 1 : StartedBy(L[j], g[j], W[j])
  PROVE  StartedBy(L[i], g[i], W[i])
<1>1. PICK com, new, x, y : com = b[i] /\ new = u[i] /\ x = com.first /\ y = com.second
  OBVIOUS
<1>2. /\ Complete(u) /\ Len(u) = Len(b) /\ Len(b) \in Nat /\ new = unwrap(com)
      /\ new \in UnwrappedCommands
  <2>1. /\ Complete(u) /\ Len(u) = Len(b) /\ Len(b) \in Nat
        /\ \A k \in 1 .. Len(b) : u[k] = unwrap(b[k])
    BY UnwrappedLike
  <2>2. new = unwrap(com)
    BY <1>1, <2>1
  <2>3. u[i] \in UnwrappedCommands
    BY <2>1 DEF Complete
  <2> QED
    BY <1>1, <2>1, <2>2, <2>3
<1>3. /\ new.first = x /\ new.second = y
      /\ com.name \in Leaves => new.kind \in Simple
      /\ com.name \notin Leaves => new.kind = com.name
  <2>1. com \in RawCommands /\ RawPlaced(b, com, i)
    BY <1>1 DEF Raw
  <2>2. /\ com.name = "char_def" => com.c \in Chars
        /\ com.name = "char_class_def" => com.cls \in Classes
    BY <2>1 DEF RawPlaced
  <2> QED
    BY <1>1, <1>2, <2>1, <2>2, UnwrapIs
<1>4. L[i] = Told(u, new, L) /\ \A j \in 1 .. Len(b) : L[j] \subseteq Strings
  BY <1>1, <1>2 DEF Meaning
<1>5. /\ g[i] = Turn(b, g, i)
      /\ \A j \in 1 .. Len(b) : g[j] \in Categories /\ W[j] \in Nat
  BY DEF Beginnings, Weighed
<1>6. \A j \in 1 .. i - 1 : j \in 1 .. Len(b)
  BY <1>2
<1>7. ASSUME x \in 1 .. i - 1
      PROVE  /\ StartedBy(L[x], g[x], W[x]) /\ L[x] \subseteq Strings
             /\ g[x] \in Categories /\ W[x] \in Nat
  BY <1>4, <1>5, <1>6, <1>7
<1>8. ASSUME y \in 1 .. i - 1
      PROVE  /\ StartedBy(L[y], g[y], W[y]) /\ L[y] \subseteq Strings
             /\ g[y] \in Categories /\ W[y] \in Nat
  BY <1>4, <1>5, <1>6, <1>8
<1>9. RawPlaced(b, com, i)
  BY <1>1 DEF Raw
<1>10. CASE com.name \in Leaves
  <2>1. PICK S : S = Letters(new)
    OBVIOUS
  <2>2. /\ Turn(b, g, i) = command2category(com)
        /\ BeginsAs(command2category(com), S) /\ S # {}
    BY <1>1, <1>2, <1>10, <2>1, RawTurn
  <2>3. S \subseteq Gen_chars
    BY <1>2, <2>1, LettersAre
  <2>4. L[i] = LettersWords(S)
    BY <1>3, <1>4, <1>10, <2>1, ToldSimple
  <2>5. W[i] = 1
    BY <1>1, <1>10 DEF Weighed
  <2>6. StartedBy(LettersWords(S), command2category(com), 1)
    BY ONLY <2>2, <2>3, StartedLetters
  <2> QED
    BY <1>5, <2>2, <2>4, <2>5, <2>6
<1>11. CASE com.name = "or"
  <2>1. new.kind = "or" /\ x \in 1 .. i - 1 /\ y \in 1 .. i - 1
    BY <1>1, <1>3, <1>9, <1>11 DEF Leaves, RawPlaced, Binary
  <2>2. L[i] = L[x] \cup L[y]
    BY <1>3, <1>4, <2>1, Zenon DEF Told
  <2>3. g[i] = Plus(g[x], g[y])
    BY <1>1, <1>5, <1>11, RawTurn
  <2>4. W[i] = W[x] + W[y]
    BY <1>1, <1>11 DEF Weighed, Binary
  <2>5. StartedBy(L[x] \cup L[y], Plus(g[x], g[y]), W[x] + W[y])
    BY <1>7, <1>8, <2>1, StartedEither
  <2> QED
    BY <2>2, <2>3, <2>4, <2>5
<1>12. CASE com.name = "concat"
  <2>1. new.kind = "concat" /\ x \in 1 .. i - 1 /\ y \in 1 .. i - 1
    BY <1>1, <1>3, <1>9, <1>12 DEF Leaves, RawPlaced, Binary
  <2>2. L[i] = Cat(L[x], L[y])
    BY <1>3, <1>4, <2>1, Zenon DEF Told
  <2>3. g[i] = g[x]
    BY <1>1, <1>5, <1>12, RawTurn
  <2>4. W[i] = W[x] + W[y]
    BY <1>1, <1>12 DEF Weighed, Binary
  <2>5. <<>> \notin L[x]
    BY <1>1, <1>12 DEF Solid
  <2>6. ShortIn(L[y], W[y])
    BY <1>8, <2>1 DEF StartedBy
  <2>7. StartedBy(Cat(L[x], L[y]), g[x], W[x] + W[y])
    BY <1>7, <1>8, <2>1, <2>5, <2>6, StartedBoth
  <2> QED
    BY <2>2, <2>3, <2>4, <2>7
<1>13. CASE com.name \in Unary
  <2>1. new.kind = com.name /\ x \in 1 .. i - 1
    BY <1>1, <1>3, <1>9, <1>13 DEF Leaves, RawPlaced, Unary
  <2>2. g[i] = g[x] /\ W[i] = W[x]
    BY <1>1, <1>5, <1>13, RawTurn DEF Weighed
  <2>3. PICK X, c, m : X = L[x] /\ c = g[x] /\ m = W[x]
    OBVIOUS
  <2>4. X \subseteq Strings /\ StartedBy(X, c, m) /\ Bounded(X, c)
    BY <1>7, <2>1, <2>3 DEF StartedBy
  <2>5. CASE com.name = "Kleene"
    <3>1. L[i] = Star(X)
      BY <1>3, <1>4, <2>1, <2>3, <2>5, Zenon DEF Told
    <3> QED
      BY <2>2, <2>3, <2>4, <3>1, StarWithin, StartedMore
  <2>6. CASE com.name = "positive"
    <3>1. L[i] = Cat(X, Star(X))
      BY <1>3, <1>4, <2>1, <2>3, <2>6, Zenon DEF Told
    <3> QED
      BY <2>2, <2>3, <2>4, <3>1, StarWithin, StartedMore
  <2>7. CASE com.name = "optional"
    <3>1. L[i] = X \cup {<<>>}
      BY <1>3, <1>4, <2>1, <2>3, <2>7, Zenon DEF Told
    <3> QED
      BY <2>2, <2>3, <2>4, <3>1, OptionalWithin, StartedMore
  <2> QED
    BY <1>13, <2>5, <2>6, <2>7 DEF Unary
<1> QED
  <2>1. com.name \in Leaves \cup Binary \cup Unary
    BY <1>1 DEF Weighed
  <2> QED
    BY <1>10, <1>11, <1>12, <1>13, <2>1 DEF Binary

LEMMA StartedRoot ==
  ASSUME NEW b, Raw(b), b # <<>>, NEW u, u = unwrap_commands(b),
         NEW L, Meaning(u, L), NEW W, Weighed(b, W), Solid(b, L)
  PROVE  StartedBy(L[Len(b)], first_chars(b), W[Len(b)])
<1>1. PICK g : Beginnings(b, g) /\ first_chars(b) = g[Len(b)]
  BY RawFirst
<1>2. PICK N, X : N = Len(b) /\ X = [i \in 1 .. N |-> {L[i]} \cap
                                        {V \in {L[i]} : StartedBy(V, g[i], W[i])}]
  OBVIOUS
<1>3. N \in Nat /\ 1 \in Nat /\ N \in 1 .. N
  BY <1>2 DEF Raw
<1>4. ASSUME NEW i \in 1 .. N, \A j \in 1 .. i - 1 : L[j] \in X[j]
      PROVE  L[i] \in X[i]
  <2>1. \A j \in 1 .. i - 1 : j \in 1 .. N
    BY <1>3
  <2>2. \A j \in 1 .. i - 1 : StartedBy(L[j], g[j], W[j])
    BY <1>2, <1>4, <2>1
  <2>3. StartedBy(L[i], g[i], W[i])
    BY <1>1, <1>2, <2>2, StartedStep
  <2> QED
    BY <1>2, <2>3
<1>5. \A i \in 1 .. N : L[i] \in X[i]
  BY <1>3, <1>4, RecursionTyped
<1> QED
  BY <1>1, <1>2, <1>3, <1>5

(* The commands up to an earlier one are a buffer too.                     *)
LEMMA CompleteUpto ==
  ASSUME NEW b, Complete(b), NEW k \in 1 .. Len(b) - 1, NEW c, c = SubSeq(b, 1, k)
  PROVE  Complete(c) /\ Len(c) = k /\ Kept(c, b)
<1>1. b \in Seq(UnwrappedCommands) /\ Len(b) \in Nat /\ k \in Nat
  BY DEF Complete
<1>2. /\ c \in Seq(UnwrappedCommands) /\ Len(c) = k
      /\ \A j \in 1 .. k : c[j] = b[j]
  BY <1>1
<1>3. ASSUME NEW i \in 1 .. k PROVE InPlace(c, i)
  <2>1. i \in 1 .. Len(b) /\ i \in Nat
    BY <1>1
  <2>2. Placed(b, b[i], i)
    BY <2>1 DEF Complete, InPlace
  <2>3. b[i].first \in Nat /\ b[i].second \in Nat
    BY <1>1, <2>1, OperandsNat
  <2>4. \A j \in 1 .. i - 1 : c[j] = b[j]
    BY <1>1, <1>2
  <2>5. Placed(c, b[i], i)
    BY <2>1, <2>2, <2>3, <2>4, PlacedSame
  <2> QED
    BY <1>2, <2>5 DEF InPlace
<1> QED
  BY <1>1, <1>2, <1>3 DEF Complete, Kept

LEMMA NothingSpelled ==
  ASSUME NEW V, NEW X, NEW n \in Nat, Spells(V, X, n)
  PROVE  <<>> \in V <=> <<>> \in X
<1>1. <<>> \in Seq(Acted) /\ Spelling(<<>>) = <<>> /\ Len(<<>>) = 0
  BY DEF Spelling
<1>2. ASSUME <<>> \in X PROVE <<>> \in V
  <2>1. PICK w \in V : Spelling(w) = <<>>
    BY <1>1, <1>2 DEF Spells
  <2>2. w \in Seq(Acted)
    BY DEF Spells, WordsOver
  <2>3. Len(w) = 0
    BY <1>1, <2>1, <2>2, SpellingIs
  <2>4. w = <<>>
    BY <2>2, <2>3
  <2> QED
    BY <2>4
<1>3. ASSUME <<>> \in V PROVE <<>> \in X
  BY <1>1, <1>3 DEF Spells
<1> QED
  BY <1>2, <1>3

LEMMA NullableIs ==
  ASSUME NEW b, Complete(b), NEW L, Meaning(b, L), NEW k \in 1 .. Len(b) - 1,
         NEW n \in Nat, n >= 1
  PROVE  <<>> \in Words(SubSeq(b, 1, k), n) <=> <<>> \in L[k]
<1>1. PICK c : c = SubSeq(b, 1, k)
  OBVIOUS
<1>2. Complete(c) /\ Len(c) = k /\ Kept(c, b) /\ Len(b) \in Nat
  <2>1. Len(b) \in Nat
    BY DEF Complete
  <2>2. Complete(c) /\ Len(c) = k /\ Kept(c, b)
    BY <1>1, CompleteUpto, Zenon
  <2> QED
    BY <2>1, <2>2
<1>3. Meaning(c, L) /\ c # <<>>
  <2>1. Meaning(c, L)
    BY <1>2, MeaningKept
  <2>2. k \in Nat /\ k >= 1
    BY <1>2
  <2> QED
    BY <1>2, <2>1, <2>2
<1>4. PICK V, X : V = Words(c, n) /\ X = L[k]
  OBVIOUS
<1>5. Spells(V, X, n)
  BY <1>2, <1>3, <1>4, WordsMean
<1> QED
  BY <1>1, <1>4, <1>5, NothingSpelled

(* What the words of W begin with.                                         *)
BegunWith(V) == UNION {Covers(w[1].gc) : w \in V \ {<<>>}}

LEMMA BegunAre ==
  ASSUME NEW n \in Nat, NEW V, NEW X, X \subseteq Strings, Spells(V, X, n),
         NEW c, NEW m \in Nat, m <= n, StartedBy(X, c, m)
  PROVE  Denotes(c) = BegunWith(V)
<1>1. ASSUME NEW w \in V, w # <<>>
      PROVE  /\ Spelling(w) \in X /\ Spelling(w) # <<>> /\ Spelling(w)[1] = w[1].gc
  <2>1. w \in Seq(Acted) /\ Spelling(w) \in X
    BY DEF Spells, WordsOver
  <2>2. /\ Spelling(w) \in Strings /\ Len(Spelling(w)) = Len(w)
        /\ Len(w) \in Nat /\ \A k \in 1 .. Len(w) : Spelling(w)[k] = w[k].gc
    BY <2>1, SpellingIs
  <2>3. Len(w) >= 1
    BY <1>1, <2>1
  <2>4. 1 \in 1 .. Len(w) /\ Spelling(w) # <<>>
    BY <2>2, <2>3 DEF Strings
  <2> QED
    BY <2>1, <2>2, <2>4
<1>2. ASSUME NEW w \in V, w # <<>> PROVE Covers(w[1].gc) \subseteq Denotes(c)
  BY <1>1, <1>2 DEF StartedBy, Bounded
<1>3. ASSUME NEW ch \in Denotes(c) PROVE \E w \in V : w # <<>> /\ ch \in Covers(w[1].gc)
  <2>1. PICK x \in X : x # <<>> /\ Len(x) <= m /\ ch \in Covers(x[1])
    BY DEF StartedBy, Shown
  <2>2. Len(x) <= n
    <3>1. Len(x) \in Nat
      BY DEF Strings
    <3> QED
      BY <2>1, <3>1
  <2>3. PICK w \in V : Spelling(w) = x
    BY <2>2 DEF Spells
  <2>4. w # <<>>
    <3>1. Spelling(<<>>) = <<>>
      BY DEF Spelling
    <3> QED
      BY <2>1, <2>3, <3>1
  <2>5. x[1] = w[1].gc
    BY <1>1, <2>3, <2>4
  <2> QED
    BY <2>1, <2>4, <2>5
<1> QED
  BY <1>2, <1>3 DEF BegunWith

(* The operands on the stack are apart, and at most half of the commands   *)
(* of each, rounded up, are leaves.                                        *)
Light(op, W)  == /\ op.lo \in Nat /\ op.lo >= 1 /\ op.lo <= op.hi
                 /\ 2 * W[op.hi] <= op.hi - op.lo + 2
Lined(ops)    == \A k, l \in 1 .. Len(ops) : k < l => ops[k].hi < ops[l].lo
Stacked(ops, W) ==
  Lined(ops) /\ \A k \in 1 .. Len(ops) : Light(ops[k], W)

WeightInv ==
  /\ Len(buf) <= MaxCommands
  /\ Len(operands) > 0 => operands[Len(operands)].hi = Len(buf)
  /\ \E W : Weighed(buf, W) /\ Stacked(operands, W)

(* What a reduction of n operands leaves of the stack, and the new one.    *)
LEMMA WeightReduced ==
  ASSUME ExprInv, NEW com \in RawCommands, NEW op, NEW n \in Nat, Reduce(com, op, n),
         RawPlaced(buf, com, Len(buf) + 1),
         NEW W, Weighed(buf, W), Stacked(operands, W), NEW x \in Nat,
         com.name \in Leaves \cup Binary \cup Unary,
         com.name \in Leaves => x = 1,
         com.name \in Binary => x = W[com.first] + W[com.second],
         com.name \in Unary => x = W[com.first],
         op.hi = Len(buf) + 1, op.lo \in Nat, op.lo >= 1, op.lo <= op.hi,
         2 * x <= op.hi - op.lo + 2,
         \A k \in 1 .. Len(operands) - n : operands[k].hi < op.lo
  PROVE  WeightInv'
<1>1. /\ buf' = Append(buf, com) /\ Len(operands) >= n /\ Len(buf) < MaxCommands
      /\ operands' = Append(SubSeq(operands, 1, Len(operands) - n), op)
  BY DEF Reduce
<1>2. PICK N, c : N = Len(buf) /\ c = buf'
  OBVIOUS
<1>3. /\ Raw(buf) /\ N \in Nat /\ Len(c) = N + 1 /\ c[N + 1] = com
      /\ \A k \in 1 .. N : c[k] = buf[k]
  BY <1>1, <1>2, AddRaw DEF ExprInv
<1>4. PICK V : V = [i \in 1 .. N + 1 |-> IF i = N + 1 THEN x ELSE W[i]]
  OBVIOUS
<1>5. V[N + 1] = x /\ \A i \in 1 .. N : V[i] = W[i]
  BY <1>3, <1>4
<1>6. ASSUME NEW i \in 1 .. N + 1, NEW d, d = c[i]
      PROVE  /\ V[i] \in Nat /\ d.name \in Leaves \cup Binary \cup Unary
             /\ d.name \in Leaves => V[i] = 1
             /\ d.name \in Binary => V[i] = V[d.first] + V[d.second]
             /\ d.name \in Unary  => V[i] = V[d.first]
  <2>1. CASE i = N + 1
    <3>1. d = com /\ V[i] = x
      BY <1>3, <1>5, <1>6, <2>1
    <3>2. /\ com.name \in Binary => com.first \in 1 .. N /\ com.second \in 1 .. N
          /\ com.name \in Unary => com.first \in 1 .. N
      BY <1>2, <1>3 DEF RawPlaced
    <3>3. /\ com.name \in Binary => /\ V[com.first] = W[com.first]
                                    /\ V[com.second] = W[com.second]
          /\ com.name \in Unary => V[com.first] = W[com.first]
      BY <1>5, <3>2
    <3> QED
      BY <3>1, <3>3
  <2>2. CASE i # N + 1
    <3>1. i \in 1 .. N
      BY <1>3, <2>2
    <3>2. d = buf[i] /\ V[i] = W[i]
      BY <1>3, <1>5, <1>6, <3>1
    <3>3. /\ W[i] \in Nat /\ d.name \in Leaves \cup Binary \cup Unary
          /\ d.name \in Leaves => W[i] = 1
          /\ d.name \in Binary => W[i] = W[d.first] + W[d.second]
          /\ d.name \in Unary  => W[i] = W[d.first]
      BY <1>2, <3>1, <3>2 DEF Weighed
    <3>4. RawPlaced(buf, d, i)
      BY <1>2, <1>3, <3>1, <3>2 DEF Raw
    <3>5. /\ d.name \in Binary => d.first \in 1 .. N /\ d.second \in 1 .. N
          /\ d.name \in Unary => d.first \in 1 .. N
      BY <1>3, <3>1, <3>4 DEF RawPlaced
    <3>6. /\ d.name \in Binary => /\ V[d.first] = W[d.first]
                                  /\ V[d.second] = W[d.second]
          /\ d.name \in Unary => V[d.first] = W[d.first]
      BY <1>5, <3>5
    <3> QED
      BY <3>2, <3>3, <3>6
  <2> QED
    BY <2>1, <2>2
<1>7. Weighed(c, V)
  BY <1>3, <1>6 DEF Weighed
<1>8. PICK S, m, r : /\ S = [lo : Nat, hi : 1 .. N] /\ m = Len(operands) - n
                     /\ r = Append(SubSeq(operands, 1, m), op)
  OBVIOUS
<1>9. /\ operands \in Seq(S) /\ Len(operands) \in Nat
      /\ m \in Nat /\ m <= Len(operands)
  <2>1. operands \in Seq(S)
    BY <1>2, <1>8 DEF ExprInv, Stack
  <2>2. Len(operands) \in Nat /\ Len(operands) >= n /\ m = Len(operands) - n
    BY <1>1, <1>8, <2>1
  <2> QED
    BY ONLY <2>1, <2>2, n \in Nat
<1>10. /\ Len(r) = m + 1 /\ r[m + 1] = op
       /\ \A k \in 1 .. m : r[k] = operands[k] /\ k \in 1 .. Len(operands)
  <2>1. PICK s : s = SubSeq(operands, 1, m)
    OBVIOUS
  <2>2. s \in Seq(S) /\ Len(s) = m /\ \A k \in 1 .. m : s[k] = operands[k]
    BY <1>9, <2>1
  <2>3. r = Append(s, op)
    BY <1>8, <2>1
  <2>4. \A k \in 1 .. m : k \in 1 .. Len(operands)
    BY <1>9
  <2> QED
    BY ONLY <1>9, <2>2, <2>3, <2>4
<1>11. Lined(r)
  <2>1. ASSUME NEW k \in 1 .. m + 1, NEW l \in 1 .. m + 1, k < l
        PROVE  r[k].hi < r[l].lo
    <3>1. k \in 1 .. m /\ k \in Nat /\ l \in Nat
      BY <1>9, <2>1
    <3>2. CASE l = m + 1
      BY <1>8, <1>10, <3>1, <3>2
    <3>3. CASE l # m + 1
      <4>1. l \in 1 .. m
        BY <1>9, <3>3
      <4> QED
        BY <1>10, <2>1, <3>1, <4>1 DEF Stacked, Lined
    <3> QED
      BY <3>2, <3>3
  <2> QED
    BY <1>10, <2>1 DEF Lined
<1>12. ASSUME NEW k \in 1 .. m + 1 PROVE Light(r[k], V)
  <2>1. CASE k = m + 1
    <3>1. r[k] = op /\ V[op.hi] = x
      BY <1>2, <1>5, <1>10, <2>1
    <3> QED
      BY <3>1 DEF Light
  <2>2. CASE k # m + 1
    <3>1. k \in 1 .. m
      BY <1>9, <2>2
    <3>2. PICK o : o = operands[k]
      OBVIOUS
    <3>3. r[k] = o /\ Light(o, W) /\ o \in S
      BY <1>9, <1>10, <3>1, <3>2 DEF Stacked
    <3>4. V[o.hi] = W[o.hi]
      BY <1>5, <1>8, <3>3
    <3> QED
      BY <3>3, <3>4 DEF Light
  <2> QED
    BY <2>1, <2>2
<1>13. Stacked(operands', V)
  BY <1>1, <1>8, <1>10, <1>11, <1>12 DEF Stacked
<1>14. Len(buf') <= MaxCommands
  BY <1>1, <1>2, <1>3, AutomataAssumption
<1>15. Len(operands') > 0 => operands'[Len(operands')].hi = Len(buf')
  BY <1>1, <1>2, <1>3, <1>8, <1>10
<1> QED
  BY <1>2, <1>7, <1>13, <1>14, <1>15 DEF WeightInv

LEMMA OperandsAre ==
  ASSUME ExprInv, NEW W, Stacked(operands, W), NEW k \in 1 .. Len(operands)
  PROVE  /\ operands[k].lo \in Nat /\ operands[k].hi \in 1 .. Len(buf)
         /\ Light(operands[k], W)
         /\ \A l \in 1 .. k - 1 : operands[l].hi < operands[k].lo
<1>1. PICK S : S = [lo : Nat, hi : 1 .. Len(buf)]
  OBVIOUS
<1>2. operands \in Seq(S) /\ Len(operands) \in Nat
  BY <1>1 DEF ExprInv, Stack
<1>3. operands[k] \in S
  BY <1>2
<1>4. \A l \in 1 .. k - 1 : l \in 1 .. Len(operands) /\ l < k
  BY <1>2
<1> QED
  BY <1>1, <1>3, <1>4 DEF Stacked, Lined

LEMMA WeightH ==
  ASSUME ExprInv, WeightInv, H_is_d PROVE WeightInv'
<1>1. PICK com \in ExprLeaves : Reduce(com, Alone, 0)
  BY DEF H_is_d
<1>2. /\ com \in RawCommands /\ RawPlaced(buf, com, Len(buf) + 1)
      /\ com.name \in Leaves
  BY AutomataAssumption, LeafRaw
<1>3. PICK W : Weighed(buf, W) /\ Stacked(operands, W)
  BY DEF WeightInv
<1>4. Len(buf) \in Nat /\ Len(operands) \in Nat
  BY DEF ExprInv, Raw, Stack
<1>5. PICK op : op = Alone
  OBVIOUS
<1>6. op.hi = Len(buf) + 1 /\ op.lo = Len(buf) + 1
  BY <1>5 DEF Alone
<1>7. com.name \notin Binary /\ com.name \notin Unary
      /\ com.name \in Leaves \cup Binary \cup Unary
  BY <1>2 DEF Leaves, Binary, Unary
<1>8. \A k \in 1 .. Len(operands) - 0 : operands[k].hi < op.lo
  <2>1. ASSUME NEW k \in 1 .. Len(operands) PROVE operands[k].hi < op.lo
    <3>1. operands[k].hi \in 1 .. Len(buf)
      BY <1>3, OperandsAre
    <3> QED
      BY <1>4, <1>6, <3>1
  <2> QED
    BY <1>4, <2>1
<1>9. Reduce(com, op, 0)
  BY <1>1, <1>5
<1>10. PICK x : x = 1
  OBVIOUS
<1>11. /\ x \in Nat /\ 0 \in Nat /\ com.name \in Leaves => x = 1
       /\ op.lo \in Nat /\ op.lo >= 1 /\ op.lo <= op.hi
       /\ 2 * x <= op.hi - op.lo + 2
  BY <1>4, <1>6, <1>10
<1> QED
  BY <1>2, <1>3, <1>6, <1>7, <1>8, <1>9, <1>11, WeightReduced

LEMMA WeightBinary ==
  ASSUME ExprInv, WeightInv, NEW name \in Binary, binary(name) PROVE WeightInv'
<1>1. PICK p, q, y, z, com, op :
        /\ p = Top(1).lo /\ q = Top(0).lo /\ y = Top(1).hi /\ z = Top(0).hi
        /\ com = [Command(name) EXCEPT !.first = y, !.second = z]
        /\ op = [lo |-> p, hi |-> Len(buf) + 1]
  OBVIOUS
<1>2. Len(operands) >= 2 /\ Reduce(com, op, 2)
  BY <1>1, Zenon DEF binary
<1>3. PICK n, l : n = Len(operands) /\ l = Len(buf)
  OBVIOUS
<1>4. n \in Nat /\ l \in Nat /\ n >= 2
  BY <1>2, <1>3 DEF ExprInv, Raw, Stack
<1>5. PICK W : Weighed(buf, W) /\ Stacked(operands, W)
  BY DEF WeightInv
<1>6. Top(1) = operands[n - 1] /\ Top(0) = operands[n]
  BY <1>3, <1>4 DEF Top
<1>7. /\ p \in Nat /\ y \in 1 .. l /\ p >= 1 /\ p <= y /\ 2 * W[y] <= y - p + 2
      /\ \A k \in 1 .. n - 2 : operands[k].hi < p
  <2>1. n - 1 \in 1 .. Len(operands)
    BY <1>3, <1>4
  <2>2. \A k \in 1 .. n - 2 : k \in 1 .. (n - 1) - 1
    BY <1>4
  <2>3. /\ operands[n - 1].lo \in Nat /\ operands[n - 1].hi \in 1 .. Len(buf)
        /\ Light(operands[n - 1], W)
        /\ \A k \in 1 .. (n - 1) - 1 : operands[k].hi < operands[n - 1].lo
    BY <1>5, <2>1, OperandsAre
  <2> QED
    BY <1>1, <1>3, <1>6, <2>2, <2>3 DEF Light
<1>8. /\ q \in Nat /\ z \in 1 .. l /\ q >= 1 /\ q <= z /\ 2 * W[z] <= z - q + 2
      /\ y < q
  <2>1. n \in 1 .. Len(operands) /\ n - 1 \in 1 .. n - 1
    BY <1>3, <1>4
  <2>2. /\ operands[n].lo \in Nat /\ operands[n].hi \in 1 .. Len(buf)
        /\ Light(operands[n], W)
        /\ \A k \in 1 .. n - 1 : operands[k].hi < operands[n].lo
    BY <1>5, <2>1, OperandsAre
  <2> QED
    BY <1>1, <1>3, <1>6, <2>1, <2>2 DEF Light
<1>9. name # "multiconcat" /\ name \in Binary \cup {"multiconcat"}
  BY DEF Binary
<1>10. /\ com \in RawCommands /\ RawPlaced(buf, com, Len(buf) + 1)
       /\ com.name = name /\ com.first = y /\ com.second = z
  <2>1. com \in RawCommands /\ RawPlaced(buf, com, Len(buf) + 1)
    BY <1>1, <1>3, <1>7, <1>8, <1>9, OperatorRaw DEF ExprInv
  <2>2. com.name = name /\ com.first = y /\ com.second = z
    BY <1>1 DEF Command
  <2> QED
    BY <2>1, <2>2
<1>11. PICK x : x = W[y] + W[z]
  OBVIOUS
<1>12. W[y] \in Nat /\ W[z] \in Nat /\ x \in Nat
  <2>1. W[y] \in Nat /\ W[z] \in Nat
    BY <1>3, <1>5, <1>7, <1>8 DEF Weighed
  <2> QED
    BY <1>11, <2>1
<1>13. op.hi = l + 1 /\ op.lo = p
  BY <1>1, <1>3
<1>14. p <= l + 1 /\ 2 * x <= (l + 1) - p + 2
  <2>1. y \in Nat /\ z \in Nat /\ z <= l
    BY <1>4, <1>7, <1>8
  <2>2. 2 * W[y] <= y - p + 2 /\ 2 * W[z] <= z - q + 2 /\ y < q /\ p <= y
    BY <1>7, <1>8
  <2> QED
    BY ONLY <1>4, <1>7, <1>8, <1>11, <1>12, <2>1, <2>2
<1>15. name \notin Leaves /\ name \notin Unary
  BY DEF Leaves, Binary, Unary
<1>16. \A k \in 1 .. Len(operands) - 2 : operands[k].hi < op.lo
  BY <1>3, <1>7, <1>13
<1>17. /\ com.name \in Leaves \cup Binary \cup Unary
       /\ com.name \in Leaves => x = 1
       /\ com.name \in Binary => x = W[com.first] + W[com.second]
       /\ com.name \in Unary => x = W[com.first]
       /\ op.hi = Len(buf) + 1 /\ op.lo \in Nat /\ op.lo >= 1 /\ op.lo <= op.hi
       /\ 2 * x <= op.hi - op.lo + 2 /\ 2 \in Nat
  BY <1>3, <1>7, <1>10, <1>11, <1>13, <1>14, <1>15
<1> QED
  BY <1>2, <1>5, <1>10, <1>12, <1>16, <1>17, WeightReduced

LEMMA WeightUnary ==
  ASSUME ExprInv, WeightInv, F_is_Gc PROVE WeightInv'
<1>1. PICK name \in Unary :
        Reduce([Command(name) EXCEPT !.first = Top(0).hi],
               [lo |-> Top(0).lo, hi |-> Len(buf) + 1], 1)
  BY DEF F_is_Gc
<1>2. PICK q, z, com, op : /\ q = Top(0).lo /\ z = Top(0).hi
                           /\ com = [Command(name) EXCEPT !.first = z]
                           /\ op = [lo |-> q, hi |-> Len(buf) + 1]
  OBVIOUS
<1>3. Reduce(com, op, 1)
  BY <1>1, <1>2, Zenon
<1>4. PICK n, l : n = Len(operands) /\ l = Len(buf)
  OBVIOUS
<1>5. n \in Nat /\ l \in Nat /\ n >= 1
  BY <1>4 DEF ExprInv, Raw, Stack, F_is_Gc
<1>6. PICK W : Weighed(buf, W) /\ Stacked(operands, W)
  BY DEF WeightInv
<1>7. Top(0) = operands[n]
  BY <1>4, <1>5 DEF Top
<1>8. /\ q \in Nat /\ z \in 1 .. l /\ q >= 1 /\ q <= z /\ 2 * W[z] <= z - q + 2
      /\ \A k \in 1 .. n - 1 : operands[k].hi < q
  <2>1. n \in 1 .. Len(operands)
    BY <1>4, <1>5
  <2>2. /\ operands[n].lo \in Nat /\ operands[n].hi \in 1 .. Len(buf)
        /\ Light(operands[n], W)
        /\ \A k \in 1 .. n - 1 : operands[k].hi < operands[n].lo
    BY <1>6, <2>1, OperandsAre
  <2> QED
    BY <1>2, <1>4, <1>7, <2>2 DEF Light
<1>9. /\ com \in RawCommands /\ RawPlaced(buf, com, Len(buf) + 1)
      /\ com.name = name /\ com.first = z
  <2>1. com \in RawCommands /\ RawPlaced(buf, com, Len(buf) + 1)
    BY <1>2, <1>4, <1>8, UnaryRaw DEF ExprInv
  <2>2. com.name = name /\ com.first = z
    BY <1>2 DEF Command
  <2> QED
    BY <2>1, <2>2
<1>10. PICK x : x = W[z]
  OBVIOUS
<1>11. x \in Nat
  BY <1>4, <1>6, <1>8, <1>10 DEF Weighed
<1>12. op.hi = l + 1 /\ op.lo = q
  BY <1>2, <1>4
<1>13. q <= l + 1 /\ 2 * x <= (l + 1) - q + 2
  <2>1. z \in Nat /\ z <= l
    BY <1>5, <1>8
  <2> QED
    BY ONLY <1>5, <1>8, <1>10, <1>11, <2>1
<1>14. name \notin Leaves /\ name \notin Binary
  BY DEF Leaves, Binary, Unary
<1>15. \A k \in 1 .. Len(operands) - 1 : operands[k].hi < op.lo
  BY <1>4, <1>8, <1>12
<1>16. /\ com.name \in Leaves \cup Binary \cup Unary
       /\ com.name \in Leaves => x = 1
       /\ com.name \in Binary => x = W[com.first] + W[com.second]
       /\ com.name \in Unary => x = W[com.first]
       /\ op.hi = Len(buf) + 1 /\ op.lo \in Nat /\ op.lo >= 1 /\ op.lo <= op.hi
       /\ 2 * x <= op.hi - op.lo + 2 /\ 1 \in Nat
  BY <1>4, <1>8, <1>9, <1>10, <1>12, <1>13, <1>14
<1> QED
  BY <1>3, <1>6, <1>9, <1>11, <1>15, <1>16, WeightReduced

LEMMA WeightAction ==
  ASSUME ExprInv, WeightInv, G_is_Ha PROVE WeightInv'
<1>1. PICK act \in Acts :
        buf' = [i \in DOMAIN buf |->
                  IF i \in Top(0).lo .. Top(0).hi
                  THEN [buf[i] EXCEPT !.action_name = act] ELSE buf[i]]
  BY DEF G_is_Ha
<1>2. operands' = operands
  BY DEF G_is_Ha
<1>3. /\ buf \in Seq(RawCommands) /\ Len(buf) \in Nat
      /\ DOMAIN buf = 1 .. Len(buf) /\ Raw(buf')
  BY ExprAction DEF ExprInv, Raw
<1>4. ASSUME NEW i \in 1 .. Len(buf)
      PROVE  /\ buf'[i].name = buf[i].name /\ buf'[i].first = buf[i].first
             /\ buf'[i].second = buf[i].second
  <2>1. PICK com, new : com = buf[i] /\ new = buf'[i]
    OBVIOUS
  <2>2. com \in RawCommands
    BY <1>3, <2>1
  <2>3. new = [com EXCEPT !.action_name = act] \/ new = com
    BY <1>1, <1>3, <2>1
  <2>4. /\ new.name = com.name /\ new.first = com.first /\ new.second = com.second
    BY <2>2, <2>3, RawAre
  <2> QED
    BY <2>1, <2>4
<1>5. Len(buf') = Len(buf)
  <2>1. DOMAIN buf' = 1 .. Len(buf)
    BY <1>1, <1>3
  <2>2. DOMAIN buf' = 1 .. Len(buf') /\ Len(buf') \in Nat
    BY <1>3 DEF Raw
  <2> QED
    BY <1>3, <2>1, <2>2
<1>6. PICK W : Weighed(buf, W) /\ Stacked(operands, W)
  BY DEF WeightInv
<1>7. Weighed(buf', W)
  BY <1>4, <1>5, <1>6 DEF Weighed
<1> QED
  BY <1>2, <1>5, <1>6, <1>7 DEF WeightInv

LEMMA WeightKept ==
  ASSUME WeightInv, UNCHANGED <<buf, operands>> PROVE WeightInv'
BY DEF WeightInv

FirstInv ==
  /\ AcceptInv /\ WeightInv
  /\ stage \notin {"text", "rejected"} /\ task = "expression"
       => cmds = unwrap_commands(buf) /\ Len(operands) = 1

LEMMA InitFirst ==
  ASSUME Init PROVE FirstInv
<1>1. stage = "text" /\ buf = <<>> /\ operands = <<>>
  BY DEF Init
<1>2. Len(buf) = 0 /\ Len(operands) = 0 /\ 0 <= MaxCommands
  BY <1>1, AutomataAssumption
<1>3. \A W : Weighed(buf, W) /\ Stacked(operands, W)
  BY <1>2 DEF Weighed, Stacked, Lined
<1>4. WeightInv
  BY <1>2, <1>3 DEF WeightInv
<1> QED
  BY <1>1, <1>4, InitAccepts DEF FirstInv

LEMMA StepFirst ==
  ASSUME FirstInv, Next PROVE FirstInv'
<1>1. AcceptInv /\ AcceptInv' /\ TypeInv
  BY StepAccepts DEF FirstInv, AcceptInv
<1>2. task = "expression" => ExprInv
  BY <1>1 DEF TypeInv
<1>3. CASE H_is_d \/ T_is_TbE \/ E_is_EF \/ F_is_Gc \/ G_is_Ha
  <2>1. task = "expression" /\ stage = "text" /\ stage' = stage
    BY <1>3 DEF H_is_d, T_is_TbE, E_is_EF, binary, F_is_Gc, Reduce, G_is_Ha, dfaVars
  <2>2. WeightInv'
    <3>1. ExprInv /\ WeightInv
      BY <1>2, <2>1 DEF FirstInv
    <3>2. "or" \in Binary /\ "concat" \in Binary
      BY DEF Binary
    <3> QED
      BY <1>3, <3>1, <3>2, WeightH, WeightBinary, WeightUnary, WeightAction
         DEF T_is_TbE, E_is_EF
  <2> QED
    BY <1>1, <2>1, <2>2 DEF FirstInv
<1>4. CASE generate_expression
  <2>1. /\ UNCHANGED <<buf, operands>> /\ Len(operands) = 1
        /\ cmds' = unwrap_commands(buf)
    BY <1>4 DEF generate_expression, build_automaton
  <2>2. WeightInv'
    BY <2>1, WeightKept DEF FirstInv
  <2> QED
    BY <1>1, <2>1, <2>2 DEF FirstInv
<1>5. CASE read_idents \/ reject \/ generate_idents
  <2>1. /\ task = "identifiers" /\ task' \in {"identifiers", "idkeywords"}
        /\ UNCHANGED <<buf, operands>>
    BY <1>5 DEF read_idents, reject, generate_idents
  <2>2. WeightInv'
    BY <2>1, WeightKept DEF FirstInv
  <2> QED
    BY <1>1, <2>1, <2>2 DEF FirstInv
<1>6. CASE Build
  <2>1. DfaNext /\ UNCHANGED <<task, buf, operands>>
    BY <1>6 DEF Build
  <2>2. cmds' = cmds /\ stage \notin {"text", "rejected"}
    BY <2>1 DEF DfaNext, convert_NDFA_to_DFA, begin_minimization,
                split_states_into_equivalence_classes, end_minimization,
                group_jumps
  <2>3. WeightInv'
    BY <2>1, WeightKept DEF FirstInv
  <2> QED
    BY <1>1, <2>1, <2>2, <2>3 DEF FirstInv
<1> QED
  BY <1>3, <1>4, <1>5, <1>6 DEF Next

LEMMA FirstNext ==
  ASSUME FirstInv, [Next]_vars PROVE FirstInv'
<1>1. CASE Next
  BY <1>1, StepFirst
<1>2. CASE UNCHANGED vars
  <2>1. AcceptInv'
    BY <1>2, AcceptNext DEF FirstInv
  <2>2. UNCHANGED <<task, buf, operands, cmds, stage>>
    BY <1>2 DEF vars, dfaVars
  <2>3. WeightInv'
    BY <2>2, WeightKept DEF FirstInv
  <2> QED
    BY <2>1, <2>2, <2>3 DEF FirstInv
<1> QED
  BY <1>1, <1>2

(* The bound on the words is no less than the leaves an expression may     *)
(* have.                                                                   *)
LongEnough == MaxCommands < 2 * MaxWord

LEMMA FirstFound ==
  ASSUME FirstInv, LongEnough PROVE FirstCharactersFound
<1> DEFINE Nullable(i) == <<>> \in Words(SubSeq(cmds, 1, i), MaxWord)
<1> SUFFICES ASSUME stage = "subset", task = "expression",
                    \A i \in DOMAIN cmds :
                      cmds[i].kind = "concat" => ~Nullable(cmds[i].first)
             PROVE  Denotes(first_chars(buf)) = BegunWith(Words(cmds, MaxWord))
  BY DEF FirstCharactersFound, BegunWith
<1>1. /\ ExprInv /\ Raw(buf) /\ cmds = unwrap_commands(buf) /\ Len(operands) = 1
      /\ Complete(cmds) /\ cmds # <<>> /\ Fitting(cmds, ndfa)
  BY DEF FirstInv, AcceptInv, TypeInv, FollowInv, ExprInv
<1>2. PICK N, n : N = Len(buf) /\ n = MaxWord
  OBVIOUS
<1>3. /\ n \in Nat /\ n >= 1 /\ N \in Nat /\ N <= MaxCommands /\ MaxCommands \in Nat
      /\ Len(cmds) = N /\ \A i \in 1 .. N : cmds[i] = unwrap(buf[i])
      /\ DOMAIN cmds = 1 .. N
  <2>1. /\ Len(cmds) = N /\ N \in Nat /\ \A i \in 1 .. N : cmds[i] = unwrap(buf[i])
    BY <1>1, <1>2, UnwrappedLike
  <2>2. N <= MaxCommands
    BY <1>2 DEF FirstInv, WeightInv
  <2>3. DOMAIN cmds = 1 .. N
    BY <1>1, <2>1 DEF Complete
  <2> QED
    BY <1>2, <2>1, <2>2, <2>3, AutomataAssumption
<1>4. PICK L : Meaning(cmds, L)
  BY <1>1 DEF Fitting
<1>5. PICK W : Weighed(buf, W) /\ Stacked(operands, W)
  BY DEF FirstInv, WeightInv
<1>6. Solid(buf, L)
  <2>1. ASSUME NEW i \in 1 .. N, buf[i].name = "concat"
        PROVE  <<>> \notin L[buf[i].first]
    <3>1. PICK com, k : com = buf[i] /\ k = com.first
      OBVIOUS
    <3>2. com \in RawCommands /\ RawPlaced(buf, com, i)
      BY <1>1, <1>2, <3>1 DEF Raw
    <3>3. com.name \notin Leaves /\ com.name = "concat" /\ com.name \in Binary
      BY <2>1, <3>1 DEF Leaves, Binary
    <3>4. k \in 1 .. i - 1
      BY <3>1, <3>2, <3>3 DEF RawPlaced
    <3>5. cmds[i].kind = "concat" /\ cmds[i].first = k
      <4>1. /\ com.name = "char_def" => com.c \in Chars
            /\ com.name = "char_class_def" => com.cls \in Classes
        BY <3>2 DEF RawPlaced
      <4>2. cmds[i] = unwrap(com)
        BY <1>3, <3>1
      <4> QED
        BY <3>1, <3>2, <3>3, <4>1, <4>2, UnwrapIs
    <3>6. ~Nullable(k)
      BY <1>3, <3>5
    <3>7. k \in 1 .. Len(cmds) - 1
      BY <1>3, <3>4
    <3>8. <<>> \notin L[k]
      BY <1>1, <1>2, <1>3, <1>4, <3>6, <3>7, NullableIs
    <3> QED
      BY <3>1, <3>8
  <2> QED
    BY <1>2, <2>1 DEF Solid
<1>7. PICK c, m, X, V : /\ c = first_chars(buf) /\ m = W[N]
                        /\ X = L[N] /\ V = Words(cmds, n)
  OBVIOUS
<1>8. StartedBy(X, c, m)
  <2>1. buf # <<>>
    <3>1. Len(cmds) # 0
      BY <1>1 DEF Complete
    <3> QED
      BY <1>2, <1>3, <3>1
  <2> QED
    BY <1>1, <1>2, <1>4, <1>5, <1>6, <1>7, <2>1, StartedRoot
<1>9. Spells(V, X, n) /\ X \subseteq Strings
  <2>1. N \in 1 .. Len(cmds)
    <3>1. Len(cmds) # 0
      BY <1>1 DEF Complete
    <3> QED
      BY <1>3, <3>1
  <2> QED
    BY <1>1, <1>3, <1>4, <1>7, <2>1, WordsMean DEF Meaning
<1>10. m \in Nat /\ m <= n
  <2>1. PICK op : op = operands[1]
    OBVIOUS
  <2>2. /\ op.lo \in Nat /\ op.hi \in 1 .. N /\ Light(op, W)
    BY <1>1, <1>2, <1>5, <2>1, OperandsAre
  <2>3. op.hi = N
    BY <1>1, <1>2, <2>1 DEF FirstInv, WeightInv
  <2>4. m \in Nat
    BY <1>2, <1>5, <1>7, <2>2, <2>3 DEF Weighed
  <2>5. 2 * m <= N - op.lo + 2 /\ op.lo >= 1
    BY <1>7, <2>2, <2>3 DEF Light
  <2>6. MaxCommands < 2 * n
    BY <1>2 DEF LongEnough
  <2> QED
    BY ONLY <1>3, <2>2, <2>4, <2>5, <2>6
<1>11. Denotes(c) = BegunWith(V)
  BY <1>3, <1>8, <1>9, <1>10, BegunAre
<1> QED
  BY <1>2, <1>7, <1>11

(* Where no left operand of a concatenation can be empty, first_chars      *)
(* finds exactly the characters that the words of an expression begin      *)
(* with, for a bound on the words that lets every command of the           *)
(* expression show: an expression of MaxCommands commands has at most half *)
(* as many leaves, rounded up.                                             *)
THEOREM FirstCharactersAlwaysFound ==
  ASSUME LongEnough PROVE Spec => []FirstCharactersFound
<1>1. FirstInv => FirstCharactersFound
  BY FirstFound
<1> QED
  BY InitFirst, FirstNext, <1>1, PTL DEF Spec
=============================================================================
