----------------------------- MODULE ScanersProofs -----------------------------
(***************************************************************************)
(* Proofs about Scaners, for every set of characters and words and every   *)
(* bound.  The inductive invariant says, of a lexeme that is being read,   *)
(* what its automaton has read of it from its first character on; of one   *)
(* that is over, what it is (Lexem); of one that was given back and is     *)
(* read again, that what it was is still there to be read.                 *)
(***************************************************************************)
EXTENDS Scaners, SequenceTheorems, FiniteSetTheorems, TLAPS

-----------------------------------------------------------------------------
(* What the text t spells from its place b, read up to its place n.        *)

First(t, a, b) ==
  /\ b \in a .. Len(t) /\ t[b] \notin Spaces \cup {Nul}
  /\ \A k \in a .. b - 1 : t[k] \in Spaces

Name(t, i, n) ==
  /\ i < n /\ n <= Len(t) + 1 /\ t[i] \in Letters
  /\ \A k \in i .. n - 1 : t[k] \in Body

Id(t, b, tok, n, errs) ==
  /\ Name(t, b, n) /\ n <= Len(t) /\ t[n] \notin Body
  /\ tok = Token("Id", SubSeq(t, b, n - 1)) /\ errs = 0

Action(t, b, tok, n, errs) ==
  /\ t[b] = "$" /\ n <= Len(t)
  /\ \/ /\ Name(t, b + 1, n) /\ t[n] \notin Body
        /\ tok = Token("Action", SubSeq(t, b + 1, n - 1)) /\ errs = 0
     \/ /\ n = b + 1 /\ t[n] \notin Letters
        /\ tok = Token("Action", <<>>) /\ errs = IF t[n] = Nul THEN 0 ELSE 1

Word(t, words, code, i, tok, n, errs) ==
  /\ i < n /\ n <= Len(t)
  /\ IsRow(words, SubSeq(t, i, n - 1)) /\ ~IsRow(words, SubSeq(t, i, n))
  /\ tok = Completed(words, code, SubSeq(t, i, n - 1))
  /\ errs = IF SubSeq(t, i, n - 1) \in words THEN 0 ELSE 1

Keyword(t, b, tok, n, errs) ==
  /\ t[b] = "%"
  /\ \/ Word(t, Keywords, "Kw", b + 1, tok, n, errs)
     \/ /\ n = b + 1 /\ n <= Len(t) /\ t[n] \notin First_chars(Keywords) \cup {Nul}
        /\ tok = Token("Unknown", <<>>) /\ errs = 1

Class(t, b, tok, n, errs) ==
  /\ t[b] = "[" /\ n <= Len(t)
  /\ \/ /\ n = b + 1 /\ t[n] \notin {":", Nul}
        /\ tok = Token("Character", <<"[">>) /\ errs = 0
     \/ /\ n = b + 2 /\ t[b + 1] = ":" /\ t[n] \notin First_chars(Names) \cup {Nul}
        /\ tok = Token("Character", <<"[">>) /\ errs = 1
     \/ t[b + 1] = ":" /\ Word(t, Names, "Class", b + 2, tok, n, errs)

Delimiter(t, s, b, tok, n, errs) ==
  /\ t[b] \in Delimiters[s] /\ n = b + 1
  /\ tok = Token(Delimiter_code(s, t[b]), <<>>) /\ errs = 0

Escaped(t, b, tok, n, errs) ==
  /\ t[b] = "\\" /\ b + 1 <= Len(t) /\ errs = 0
  /\ \/ /\ n = b + 2 /\ t[b + 1] \in After_backslash
        /\ tok = Token("Character", <<IF t[b + 1] = "n" THEN "\n" ELSE t[b + 1]>>)
     \/ /\ n = b + 1 /\ t[n] \notin After_backslash
        /\ tok = Token("Character", <<"\\">>)

Plain(t, b, tok, n, errs) ==
  /\ t[b] \notin Delimiters["Expr"] \cup {"$", "[", "\\"}
  /\ n = b + 1 /\ tok = Token("Character", <<t[b]>>) /\ errs = 0

Unknown(t, b, tok, n, errs) ==
  /\ t[b] \in Other \cup {"0"} /\ n \in b + 1 .. Len(t)
  /\ \A k \in b + 1 .. n - 1 : t[k] \in Other
  /\ t[n] \notin Other
  /\ tok = Token("Unknown", <<>>) /\ errs = 0

(* The characters of w, with each quote twice, from the place i.           *)
Twice(t, i, w) ==
  /\ w \in Seq(Chars) /\ i + Place(w, Len(w)) <= Len(t) + 1
  /\ \A k \in 1 .. Len(w) :
       /\ t[i + Place(w, k) - 1] = w[k]
       /\ w[k] = Quote => t[i + Place(w, k) - 2] = Quote

Literal(t, b, tok, n, errs) ==
  /\ t[b] = Quote /\ tok = Token("String", tok.val) /\ Twice(t, b + 1, tok.val)
  /\ n <= Len(t)
  /\ \/ /\ n = b + 2 + Place(tok.val, Len(tok.val))
        /\ t[n - 1] = Quote /\ t[n] # Quote /\ errs = 0
     \/ /\ n = b + 1 + Place(tok.val, Len(tok.val))
        /\ t[n] = Nul /\ errs = 1

Lexem(t, s, b, tok, n, errs) ==
  \/ /\ s = "Main"
     /\ \/ Id(t, b, tok, n, errs) \/ Keyword(t, b, tok, n, errs)
        \/ Literal(t, b, tok, n, errs) \/ Unknown(t, b, tok, n, errs)
  \/ /\ s = "Expr"
     /\ \/ Action(t, b, tok, n, errs) \/ Class(t, b, tok, n, errs)
        \/ Escaped(t, b, tok, n, errs) \/ Plain(t, b, tok, n, errs)
  \/ s \in Both /\ Delimiter(t, s, b, tok, n, errs)

Blank(t, a, n) == a <= n /\ \A k \in a .. n - 1 : t[k] \in Spaces

(* What current_lexem reads from the place a: a lexeme, or none.           *)
Meets(t, s, a, tok, n, errs) ==
  \/ /\ Blank(t, a, n) /\ n <= Len(t) /\ t[n] = Nul
     /\ tok = None /\ errs = 0
  \/ \E b \in a .. Len(t) : First(t, a, b) /\ Lexem(t, s, b, tok, n, errs)

-----------------------------------------------------------------------------
(* What an automaton has read, b being the first character of the lexeme.  *)

IdRead(t, b) ==
  /\ automaton = "A_id" /\ scaner = "Main" /\ token = Token("Id", <<>>)
  /\ Name(t, b, pcurrent_char) /\ buffer = SubSeq(t, b, pcurrent_char - 1)

ActionRead(t, b) ==
  /\ automaton = "A_action" /\ scaner = "Expr" /\ token = Token("Action", <<>>)
  /\ t[b] = "$"
  /\ \/ state = Initial /\ pcurrent_char = b + 1 /\ buffer = <<>>
     \/ /\ state # Initial /\ Name(t, b + 1, pcurrent_char)
        /\ buffer = SubSeq(t, b + 1, pcurrent_char - 1)

KeywordRead(t, b) ==
  /\ automaton = "A_keyword" /\ scaner = "Main" /\ token = Token("Unknown", <<>>)
  /\ t[b] = "%"
  /\ \/ state = Initial /\ pcurrent_char = b + 1
     \/ /\ IsRow(Keywords, state) /\ pcurrent_char > b + 1
        /\ state = SubSeq(t, b + 1, pcurrent_char - 1)

ClassRead(t, b) ==
  /\ automaton = "A_class" /\ scaner = "Expr"
  /\ token = Token("Character", <<"[">>) /\ t[b] = "["
  /\ \/ state = Initial /\ pcurrent_char = b + 1
     \/ state = Colon_read /\ t[b + 1] = ":" /\ pcurrent_char = b + 2
     \/ /\ state # Colon_read /\ IsRow(Names, state) /\ t[b + 1] = ":"
        /\ pcurrent_char > b + 2
        /\ state = SubSeq(t, b + 2, pcurrent_char - 1)

DelimiterRead(t, b) ==
  /\ automaton = "A_delimiter" /\ scaner \in Both
  /\ t[b] \in Delimiters[scaner] /\ pcurrent_char = b

CharRead(t, b) ==
  /\ automaton = "A_char" /\ scaner = "Expr" /\ t[b] = "\\"
  /\ pcurrent_char = b + 1

UnknownRead(t, b) ==
  /\ automaton = "A_unknown" /\ scaner = "Main" /\ token = Token("Unknown", <<>>)
  /\ t[b] \in Other \cup {"0"} /\ pcurrent_char > b
  /\ \A k \in b + 1 .. pcurrent_char - 1 : t[k] \in Other

StringRead(t, b) ==
  /\ automaton = "A_string" /\ scaner = "Main" /\ t[b] = Quote
  /\ \/ state = Initial /\ pcurrent_char = b /\ buffer = <<>>
     \/ /\ state = String_body /\ Twice(t, b + 1, buffer)
        /\ pcurrent_char = b + 1 + Place(buffer, Len(buffer))
     \/ /\ state = End_string /\ Twice(t, b + 1, buffer)
        /\ pcurrent_char = b + 2 + Place(buffer, Len(buffer))
        /\ t[pcurrent_char - 1] = Quote

Progress(t, b) ==
  \/ IdRead(t, b) \/ ActionRead(t, b) \/ KeywordRead(t, b) \/ ClassRead(t, b)
  \/ DelimiterRead(t, b) \/ CharRead(t, b) \/ UnknownRead(t, b)
  \/ StringRead(t, b)

(* The errors counted in it.                                               *)
Errors == IF counted THEN 1 ELSE 0

(* Where the lexeme of the scanner that was called begins to be sought.    *)
From == lexem_begin[scaner]

Started(t) ==
  \/ /\ automaton = "A_start" /\ state = Initial /\ token = None
     /\ buffer = <<>> /\ Blank(t, From, pcurrent_char)
  \/ \E b \in From .. Len(t) : First(t, From, b) /\ Progress(t, b)

ReadOutside ==
  /\ pcurrent_char <= Len(text) /\ Ahead = Nul
  /\ \E b \in From .. Len(text) :
       /\ First(text, From, b)
       /\ \/ scaner = "Main" /\ text[b] = "%" /\ pcurrent_char = b + 1
          \/ scaner = "Expr" /\ text[b] = "[" /\ pcurrent_char = b + 1
          \/ /\ scaner = "Expr" /\ text[b] = "[" /\ text[b + 1] = ":"
             /\ pcurrent_char = b + 2

LexInv ==
  /\ pc # "over" \/ outside => scaner \in Both
  /\ pc = "reading" => Started(text) /\ ~counted /\ ~outside
  /\ pc = "over" /\ scaner \in Both =>
       IF outside THEN ReadOutside
       ELSE Meets(text, scaner, From, token, pcurrent_char, Errors)

(* The text is over once, at its end.                                      *)
Ended ==
  /\ \A k \in 1 .. Len(text) : text[k] = Nul => k = Len(text)
  /\ Len(text) > MaxText => text[Len(text)] = Nul

IInv == TypeOK /\ Ended /\ LexInv

(* What is given back is what is read from the same place.                 *)
Same_lexem ==
  /\ given = [scaner |-> scaner, token |-> given.token, next |-> given.next]
  /\ given.next \in Nat
  /\ \E errs \in {0, 1} :
       Meets(text, scaner, From, given.token, given.next, errs)

(* As much of a literal as is read again is of that literal.               *)
Same_literal ==
  pc = "reading" /\ automaton = "A_string" =>
    \A k \in 1 .. Len(buffer) : /\ k <= Len(given.token.val)
                                /\ buffer[k] = given.token.val[k]

AgainInv ==
  given # Nobody => /\ Same_lexem /\ Same_literal
                    /\ pc = "back" => pcurrent_char = From
                    /\ pc = "over" => /\ ~outside /\ given.token = token
                                      /\ given.next = pcurrent_char

(* The line is that of the first character of the lexeme.                  *)
InLexem == \/ pc = "reading" /\ automaton # "A_start"
           \/ pc = "over" /\ scaner \in Both /\ token.code # "None"
LineInv == InLexem => current_line = lexem_begin_line[scaner]

-----------------------------------------------------------------------------
(* Lemmas on sequences.                                                    *)

Symbols == Chars \cup {Nul}

(* The text grows at its end only.                                         *)
Extends(t, u) ==
  /\ t \in Seq(Symbols) /\ u \in Seq(Symbols) /\ Len(t) <= Len(u)
  /\ \A k \in 1 .. Len(t) : u[k] = t[k]

LEMMA PrefixIs ==
  ASSUME NEW C, NEW s \in Seq(C), NEW t \in Seq(C)
  PROVE  IsPrefix(s, t) <=> /\ Len(s) <= Len(t)
                            /\ \A k \in 1 .. Len(s) : s[k] = t[k]
<1>1. CASE Len(s) <= Len(t)
  <2>1. SubSeq(s, 1, Len(s)) \in Seq(C) /\ SubSeq(t, 1, Len(s)) \in Seq(C)
    BY <1>1, SubSeqProperties
  <2>2. /\ Len(SubSeq(s, 1, Len(s))) = Len(s)
        /\ Len(SubSeq(t, 1, Len(s))) = Len(s)
        /\ \A k \in 1 .. Len(s) : /\ SubSeq(s, 1, Len(s))[k] = s[k]
                                  /\ SubSeq(t, 1, Len(s))[k] = t[k]
    BY <1>1, SubSeqProperties
  <2>3. SubSeq(s, 1, Len(s)) = SubSeq(t, 1, Len(s))
        <=> \A k \in 1 .. Len(s) : s[k] = t[k]
    BY <2>1, <2>2, SeqEqual
  <2> QED
    BY <1>1, <2>3 DEF IsPrefix
<1> QED
  BY <1>1 DEF IsPrefix

(* A stretch of a sequence, its elements and its length.                   *)
LEMMA Stretch ==
  ASSUME NEW C, NEW t \in Seq(C), NEW i \in Nat \ {0}, NEW j \in Nat,
         i <= j + 1, j <= Len(t)
  PROVE  /\ SubSeq(t, i, j) \in Seq(C) /\ Len(SubSeq(t, i, j)) = j + 1 - i
         /\ \A k \in 1 .. j + 1 - i : SubSeq(t, i, j)[k] = t[i + k - 1]
BY SubSeqProperties

(* What is read of the text stays what it is.                              *)
LEMMA StretchStays ==
  ASSUME NEW t, NEW u, Extends(t, u), NEW i \in Nat \ {0}, NEW j \in Nat,
         i <= j + 1, j <= Len(t)
  PROVE  SubSeq(u, i, j) = SubSeq(t, i, j)
<1>1. /\ SubSeq(t, i, j) \in Seq(Symbols) /\ Len(SubSeq(t, i, j)) = j + 1 - i
      /\ \A k \in 1 .. j + 1 - i : SubSeq(t, i, j)[k] = t[i + k - 1]
  BY Stretch DEF Extends
<1>2. /\ SubSeq(u, i, j) \in Seq(Symbols) /\ Len(SubSeq(u, i, j)) = j + 1 - i
      /\ \A k \in 1 .. j + 1 - i : SubSeq(u, i, j)[k] = u[i + k - 1]
  BY Stretch DEF Extends
<1>3. \A k \in 1 .. j + 1 - i : u[i + k - 1] = t[i + k - 1]
  BY DEF Extends
<1> QED
  BY <1>1, <1>2, <1>3, SeqEqual

(* One character more is read.                                             *)
LEMMA StretchGrows ==
  ASSUME NEW C, NEW t \in Seq(C), NEW i \in Nat \ {0}, NEW j \in Nat,
         i <= j, j <= Len(t)
  PROVE  SubSeq(t, i, j) = Append(SubSeq(t, i, j - 1), t[j])
<1>1. /\ SubSeq(t, i, j) \in Seq(C) /\ Len(SubSeq(t, i, j)) = j + 1 - i
      /\ \A k \in 1 .. j + 1 - i : SubSeq(t, i, j)[k] = t[i + k - 1]
  BY Stretch
<1>2. /\ SubSeq(t, i, j - 1) \in Seq(C) /\ Len(SubSeq(t, i, j - 1)) = j - i
      /\ \A k \in 1 .. j - i : SubSeq(t, i, j - 1)[k] = t[i + k - 1]
  BY Stretch
<1>3. t[j] \in C
  BY ElementOfSeq
<1>4. /\ Append(SubSeq(t, i, j - 1), t[j]) \in Seq(C)
      /\ Len(Append(SubSeq(t, i, j - 1), t[j])) = j + 1 - i
      /\ \A k \in 1 .. j - i :
           Append(SubSeq(t, i, j - 1), t[j])[k] = SubSeq(t, i, j - 1)[k]
      /\ Append(SubSeq(t, i, j - 1), t[j])[j + 1 - i] = t[j]
  BY <1>2, <1>3, AppendProperties
<1>5. \A k \in 1 .. j + 1 - i : k \in 1 .. j - i \/ k = j + 1 - i
  OBVIOUS
<1>6. \A k \in 1 .. j + 1 - i :
        SubSeq(t, i, j)[k] = Append(SubSeq(t, i, j - 1), t[j])[k]
  BY <1>1, <1>2, <1>4, <1>5
<1> QED
  BY <1>1, <1>4, <1>6, SeqEqual

(* One character is a stretch.                                             *)
LEMMA StretchOne ==
  ASSUME NEW C, NEW t \in Seq(C), NEW i \in 1 .. Len(t)
  PROVE  SubSeq(t, i, i) = <<t[i]>>
<1>1. /\ SubSeq(t, i, i) \in Seq(C) /\ Len(SubSeq(t, i, i)) = 1
      /\ SubSeq(t, i, i)[1] = t[i]
  BY Stretch
<1>2. t[i] \in C
  BY ElementOfSeq
<1>3. /\ <<t[i]>> \in Seq(C) /\ Len(<<t[i]>>) = 1 /\ <<t[i]>>[1] = t[i]
  BY <1>2
<1>4. \A k \in 1 .. 1 : SubSeq(t, i, i)[k] = <<t[i]>>[k]
  BY <1>1, <1>3
<1> QED
  BY <1>1, <1>3, <1>4, SeqEqual

-----------------------------------------------------------------------------
(* Where the characters of a literal are, its quotes being doubled.        *)

LEMMA PlaceSame ==
  ASSUME NEW s, NEW t, NEW k \in Nat, \A i \in 1 .. k : s[i] = t[i]
  PROVE  Place(s, k) = Place(t, k)
<1>1. {i \in 1 .. k : s[i] = Quote} = {i \in 1 .. k : t[i] = Quote}
  OBVIOUS
<1> QED
  BY <1>1 DEF Place

LEMMA PlaceFirst ==
  ASSUME NEW s
  PROVE  Place(s, 0) = 0
<1>1. {i \in 1 .. 0 : s[i] = Quote} = {}
  OBVIOUS
<1> QED
  BY <1>1, FS_EmptySet DEF Place

LEMMA PlaceNat ==
  ASSUME NEW s, NEW k \in Nat
  PROVE  /\ IsFiniteSet({i \in 1 .. k : s[i] = Quote})
         /\ Cardinality({i \in 1 .. k : s[i] = Quote}) \in Nat
         /\ Place(s, k) \in Nat /\ Place(s, k) >= k
<1>1. IsFiniteSet(1 .. k)
  BY FS_Interval
<1>2. IsFiniteSet({i \in 1 .. k : s[i] = Quote})
  BY <1>1, FS_Subset
<1>3. Cardinality({i \in 1 .. k : s[i] = Quote}) \in Nat
  BY <1>2, FS_CardinalityType
<1> QED
  BY <1>2, <1>3 DEF Place

LEMMA PlaceNext ==
  ASSUME NEW s, NEW k \in Nat
  PROVE  Place(s, k + 1) = Place(s, k) + (IF s[k + 1] = Quote THEN 2 ELSE 1)
<1> DEFINE Q(n) == {i \in 1 .. n : s[i] = Quote}
<1>1. /\ IsFiniteSet(Q(k)) /\ Cardinality(Q(k)) \in Nat
  BY PlaceNat
<1>2. CASE s[k + 1] = Quote
  <2>1. Q(k + 1) = Q(k) \cup {k + 1} /\ k + 1 \notin Q(k)
    BY <1>2
  <2>2. Cardinality(Q(k + 1)) = Cardinality(Q(k)) + 1
    BY <1>1, <2>1, FS_AddElement
  <2> QED
    BY <1>1, <1>2, <2>2 DEF Place
<1>3. CASE s[k + 1] # Quote
  <2>1. Q(k + 1) = Q(k)
    BY <1>3
  <2> HIDE DEF Q
  <2>2. k + 1 + Cardinality(Q(k + 1)) = k + Cardinality(Q(k)) + 1
    BY <1>1, <2>1
  <2> QED
    BY <1>3, <2>2 DEF Place, Q
<1> QED
  BY <1>2, <1>3

LEMMA PlaceMonotone ==
  ASSUME NEW s, NEW j \in Nat, NEW k \in Nat, j <= k
  PROVE  Place(s, j) <= Place(s, k)
<1>1. {i \in 1 .. j : s[i] = Quote} \subseteq {i \in 1 .. k : s[i] = Quote}
  OBVIOUS
<1>2. Cardinality({i \in 1 .. j : s[i] = Quote})
      <= Cardinality({i \in 1 .. k : s[i] = Quote})
  BY <1>1, PlaceNat, FS_Subset
<1> QED
  BY <1>2, PlaceNat DEF Place

(* A place is before a later one, and its quote too.                       *)
LEMMA PlaceWithin ==
  ASSUME NEW s, NEW n \in Nat, NEW k \in 1 .. n
  PROVE  /\ Place(s, k) \in 1 .. Place(s, n) /\ Place(s, n) \in Nat
         /\ s[k] = Quote => Place(s, k) >= 2
<1>1. k \in Nat /\ k - 1 \in Nat /\ k = (k - 1) + 1
  OBVIOUS
<1>2. Place(s, k) = Place(s, k - 1) + (IF s[k] = Quote THEN 2 ELSE 1)
  BY <1>1, PlaceNext
<1>3. Place(s, k - 1) \in Nat
  BY <1>1, PlaceNat
<1>4. Place(s, k) \in Nat /\ Place(s, n) \in Nat
  BY <1>1, PlaceNat
<1>5. Place(s, k) <= Place(s, n)
  BY PlaceMonotone
<1>6. Place(s, k) >= 1 /\ (s[k] = Quote => Place(s, k) >= 2)
  BY <1>2, <1>3
<1> QED
  BY <1>4, <1>5, <1>6

-----------------------------------------------------------------------------
(* What the text spells it spells whatever comes after.                    *)

LEMMA FirstStays ==
  ASSUME NEW t, NEW u, Extends(t, u), NEW a \in Nat \ {0}, NEW b,
         First(t, a, b)
  PROVE  First(u, a, b)
BY DEF Extends, First

LEMMA BlankStays ==
  ASSUME NEW t, NEW u, Extends(t, u), NEW a \in Nat \ {0},
         NEW n \in 1 .. Len(t) + 1, Blank(t, a, n)
  PROVE  Blank(u, a, n)
BY DEF Extends, Blank

LEMMA NameStays ==
  ASSUME NEW t, NEW u, Extends(t, u), NEW i \in Nat \ {0}, NEW n \in Nat,
         Name(t, i, n)
  PROVE  Name(u, i, n) /\ SubSeq(u, i, n - 1) = SubSeq(t, i, n - 1)
<1>1. n - 1 \in Nat /\ i <= n - 1 + 1 /\ n - 1 <= Len(t)
  BY DEF Extends, Name
<1>2. SubSeq(u, i, n - 1) = SubSeq(t, i, n - 1)
  BY <1>1, StretchStays
<1>3. \A k \in i .. n - 1 : u[k] = t[k]
  BY <1>1 DEF Extends
<1>4. i \in i .. n - 1
  BY DEF Name
<1>5. u[i] \in Letters /\ \A k \in i .. n - 1 : u[k] \in Body
  BY <1>3, <1>4 DEF Name
<1> QED
  BY <1>1, <1>2, <1>5 DEF Extends, Name

LEMMA WordStays ==
  ASSUME NEW t, NEW u, Extends(t, u), NEW words, NEW code,
         NEW i \in Nat \ {0}, NEW tok, NEW n \in Nat, NEW errs,
         Word(t, words, code, i, tok, n, errs)
  PROVE  Word(u, words, code, i, tok, n, errs)
<1>1. /\ n - 1 \in Nat /\ i <= n - 1 + 1 /\ n - 1 <= Len(t)
      /\ i <= n + 1 /\ n <= Len(t) /\ n <= Len(u)
  BY DEF Extends, Word
<1>2. /\ SubSeq(u, i, n - 1) = SubSeq(t, i, n - 1)
      /\ SubSeq(u, i, n) = SubSeq(t, i, n)
  BY <1>1, StretchStays
<1> QED
  BY <1>1, <1>2 DEF Word

LEMMA TwiceStays ==
  ASSUME NEW t, NEW u, Extends(t, u), NEW i \in Nat \ {0}, NEW w,
         Twice(t, i, w)
  PROVE  Twice(u, i, w)
<1>0. Len(w) \in Nat
  BY DEF Twice
<1>1. Len(w) \in Nat /\ Place(w, Len(w)) \in Nat
  BY <1>0, PlaceNat
<1>2. ASSUME NEW k \in 1 .. Len(w)
      PROVE  /\ u[i + Place(w, k) - 1] = w[k]
             /\ w[k] = Quote => u[i + Place(w, k) - 2] = Quote
  <2>1. /\ Place(w, k) \in 1 .. Place(w, Len(w))
        /\ w[k] = Quote => Place(w, k) >= 2
    BY <1>1, PlaceWithin
  <2>2. i + Place(w, k) - 1 \in 1 .. Len(t)
    BY <1>1, <2>1 DEF Extends, Twice
  <2>3. w[k] = Quote => i + Place(w, k) - 2 \in 1 .. Len(t)
    BY <2>1, <2>2
  <2>4. /\ t[i + Place(w, k) - 1] = w[k]
        /\ w[k] = Quote => t[i + Place(w, k) - 2] = Quote
    BY DEF Twice
  <2>5. u[i + Place(w, k) - 1] = t[i + Place(w, k) - 1]
    BY <2>2 DEF Extends
  <2>6. w[k] = Quote => u[i + Place(w, k) - 2] = t[i + Place(w, k) - 2]
    BY <2>3 DEF Extends
  <2> QED
    BY <2>4, <2>5, <2>6
<1>3. i + Place(w, Len(w)) <= Len(u) + 1
  BY <1>1 DEF Extends, Twice
<1> QED
  BY <1>2, <1>3 DEF Twice

LEMMA LexemStays ==
  ASSUME NEW t, NEW u, Extends(t, u), NEW s, NEW b \in 1 .. Len(t),
         NEW tok, NEW n \in Nat, NEW errs, Lexem(t, s, b, tok, n, errs)
  PROVE  Lexem(u, s, b, tok, n, errs)
<1>1. /\ b \in Nat \ {0} /\ b + 1 \in Nat \ {0} /\ b + 2 \in Nat \ {0}
      /\ Len(t) \in Nat /\ Len(u) \in Nat /\ Len(t) <= Len(u)
  BY DEF Extends
<1>2. \A k \in 1 .. Len(t) : u[k] = t[k]
  BY DEF Extends
<1>3. u[b] = t[b]
  BY <1>2
<1>4. ASSUME n <= Len(t), n > 0 PROVE n <= Len(u) /\ u[n] = t[n]
  BY <1>1, <1>2, <1>4
<1>5. ASSUME Id(t, b, tok, n, errs) PROVE Id(u, b, tok, n, errs)
  <2>1. n > 0 /\ n <= Len(t)
    BY <1>5, <1>1 DEF Id, Name
  <2>2. Name(u, b, n) /\ SubSeq(u, b, n - 1) = SubSeq(t, b, n - 1)
    BY <1>5, <1>1, NameStays DEF Id
  <2>3. n <= Len(u) /\ u[n] = t[n]
    BY <1>4, <2>1
  <2> QED
    BY <1>5, <2>2, <2>3 DEF Id
<1>6. ASSUME Keyword(t, b, tok, n, errs) PROVE Keyword(u, b, tok, n, errs)
  <2>1. CASE Word(t, Keywords, "Kw", b + 1, tok, n, errs)
    BY <1>1, <1>3, <1>6, <2>1, WordStays DEF Keyword
  <2>2. CASE ~Word(t, Keywords, "Kw", b + 1, tok, n, errs)
    <3>1. n > 0 /\ n <= Len(t)
      BY <1>1, <1>6, <2>2 DEF Keyword
    <3> QED
      BY <1>1, <1>3, <1>4, <1>6, <2>2, <3>1 DEF Keyword
  <2> QED
    BY <2>1, <2>2
<1>7. ASSUME Literal(t, b, tok, n, errs) PROVE Literal(u, b, tok, n, errs)
  <2> DEFINE w == tok.val
  <2>a. Twice(t, b + 1, w) /\ Len(w) \in Nat
    BY <1>7 DEF Literal, Twice
  <2>1. Twice(t, b + 1, w) /\ Twice(u, b + 1, w) /\ Place(w, Len(w)) \in Nat
    BY <1>1, <2>a, TwiceStays, PlaceNat
  <2>2. n >= b + 1 /\ n <= Len(t)
    BY <1>1, <1>7, <2>1 DEF Literal
  <2>3. n <= Len(u) /\ u[n] = t[n]
    BY <1>1, <1>4, <2>2
  <2>4. u[n - 1] = t[n - 1]
    BY <1>1, <1>2, <2>2
  <2> QED
    BY <1>1, <1>3, <1>7, <2>1, <2>3, <2>4 DEF Literal
<1>8. ASSUME Unknown(t, b, tok, n, errs) PROVE Unknown(u, b, tok, n, errs)
  <2>1. n \in b + 1 .. Len(u) /\ u[n] = t[n]
    BY <1>1, <1>4, <1>8 DEF Unknown
  <2>2. \A k \in b + 1 .. n - 1 : u[k] = t[k]
    BY <1>1, <1>2, <1>8 DEF Unknown
  <2> QED
    BY <1>3, <1>8, <2>1, <2>2 DEF Unknown
<1>9. ASSUME Action(t, b, tok, n, errs) PROVE Action(u, b, tok, n, errs)
  <2>1. n > 0 /\ n <= Len(t)
    BY <1>9, <1>1 DEF Action, Name
  <2>2. n <= Len(u) /\ u[n] = t[n]
    BY <1>4, <2>1
  <2>3. Name(t, b + 1, n) =>
          Name(u, b + 1, n) /\ SubSeq(u, b + 1, n - 1) = SubSeq(t, b + 1, n - 1)
    BY <1>1, NameStays
  <2> QED
    BY <1>3, <1>9, <2>2, <2>3 DEF Action
<1>10. ASSUME Class(t, b, tok, n, errs) PROVE Class(u, b, tok, n, errs)
  <2>1. n >= b + 1 /\ n <= Len(t)
    BY <1>10, <1>1 DEF Class, Word
  <2>2. n <= Len(u) /\ u[n] = t[n] /\ u[b + 1] = t[b + 1]
    BY <1>1, <1>2, <1>4, <2>1
  <2>3. Word(t, Names, "Class", b + 2, tok, n, errs) =>
          Word(u, Names, "Class", b + 2, tok, n, errs)
    BY <1>1, WordStays
  <2> QED
    BY <1>3, <1>10, <2>2, <2>3 DEF Class
<1>11. ASSUME Escaped(t, b, tok, n, errs) PROVE Escaped(u, b, tok, n, errs)
  <2>1. b + 1 <= Len(u) /\ u[b + 1] = t[b + 1]
    BY <1>1, <1>2, <1>11 DEF Escaped
  <2>2. n = b + 1 => u[n] = t[n]
    BY <2>1
  <2> QED
    BY <1>3, <1>11, <2>1, <2>2 DEF Escaped
<1>12. ASSUME Plain(t, b, tok, n, errs) PROVE Plain(u, b, tok, n, errs)
  BY <1>3, <1>12 DEF Plain
<1>13. ASSUME Delimiter(t, s, b, tok, n, errs)
       PROVE  Delimiter(u, s, b, tok, n, errs)
  BY <1>3, <1>13 DEF Delimiter
<1> QED
  BY <1>5, <1>6, <1>7, <1>8, <1>9, <1>10, <1>11, <1>12, <1>13 DEF Lexem

LEMMA MeetsStays ==
  ASSUME NEW t, NEW u, Extends(t, u), NEW s, NEW a \in Nat \ {0},
         NEW tok, NEW n \in Nat, NEW errs, Meets(t, s, a, tok, n, errs)
  PROVE  Meets(u, s, a, tok, n, errs)
<1>1. CASE Blank(t, a, n) /\ n <= Len(t) /\ t[n] = Nul
           /\ tok = None /\ errs = 0
  <2>1. n \in 1 .. Len(t) /\ n \in 1 .. Len(t) + 1
    BY <1>1 DEF Blank, Extends
  <2>2. n <= Len(u) /\ u[n] = t[n]
    BY <2>1 DEF Extends
  <2> QED
    BY <1>1, <2>1, <2>2, BlankStays DEF Meets
<1>2. CASE \E b \in a .. Len(t) : First(t, a, b) /\ Lexem(t, s, b, tok, n, errs)
  <2>1. PICK b \in a .. Len(t) : First(t, a, b) /\ Lexem(t, s, b, tok, n, errs)
    BY <1>2
  <2>2. b \in 1 .. Len(t) /\ b \in a .. Len(u)
    BY DEF Extends
  <2>3. First(u, a, b) /\ Lexem(u, s, b, tok, n, errs)
    BY <2>1, <2>2, FirstStays, LexemStays
  <2> QED
    BY <2>2, <2>3 DEF Meets
<1> QED
  BY <1>1, <1>2 DEF Meets

-----------------------------------------------------------------------------
(* The categories of characters.                                           *)

LEMMA MainKinds ==
  ASSUME NEW c
  PROVE  /\ c \in Letters => /\ c \in Body
                             /\ c \notin Delimiters["Main"] \cup Other
                             /\ c \notin {"%", Quote, "0"}
         /\ c \in Delimiters["Main"] => c \notin Other \cup {"%", Quote, "0"}
         /\ c \in Other => c \notin Body \cup {"%", Quote}
         /\ c = "%" => c # Quote
         /\ c = "0" => c \notin {"%", Quote}
         /\ c \in Body => c \in Letters \cup {"0"}
BY Zenon DEF Letters, Body, Delimiters, Other, Quote, Both

LEMMA ExprKinds ==
  ASSUME NEW c
  PROVE  c \in Delimiters["Expr"] => c \notin {"$", "[", "\\"}
BY Zenon DEF Delimiters, Both

LEMMA Solid ==
  ASSUME NEW c \in Spaces \cup {Nul}
  PROVE  /\ c \notin Body \cup Letters
         /\ c \notin Delimiters["Main"] /\ c \notin Delimiters["Expr"]
         /\ c \notin {"%", "$", "[", "\\", ":", "0", Quote}
         /\ c \notin After_backslash
<1>1. c \in {"\n", " ", "zero"}
  BY Zenon DEF Spaces, Nul
<1>2. /\ c \notin Body \cup Letters
      /\ c \notin Delimiters["Main"] /\ c \notin Delimiters["Expr"]
  BY <1>1, Zenon DEF Letters, Body, Delimiters, Both
<1>3. /\ c \notin {"%", "$", "[", "\\", ":", "0", Quote}
      /\ c \notin After_backslash
  BY <1>1, Zenon DEF Quote, Delimiters, After_backslash, Both
<1> QED
  BY <1>2, <1>3

LEMMA OtherSolid ==
  ASSUME NEW c \in Other
  PROVE  c \in Chars /\ c \notin Spaces /\ c # Nul
<1>1. c \in Chars /\ c \notin Spaces
  BY DEF Other
<1> QED
  BY <1>1, ScanersAssumption

-----------------------------------------------------------------------------
(* A character is read.                                                    *)

LEMMA CharacterRead ==
  ASSUME TypeOK, Ended, NEW c \in Symbols, Reads(c)
  PROVE  /\ Extends(text, text') /\ Ended'
         /\ pcurrent_char \in 1 .. Len(text') /\ text'[pcurrent_char] = c
         /\ Len(text') <= MaxText + 1
         /\ \A k \in 1 .. pcurrent_char - 1 : text'[k] # Nul
<1>1. /\ text \in Seq(Symbols) /\ Len(text) \in Nat /\ Len(text) <= MaxText + 1
      /\ pcurrent_char \in 1 .. Len(text) + 1 /\ MaxText \in Nat
      /\ \A k \in 1 .. pcurrent_char - 1 : text[k] # Nul
  BY ScanersAssumption DEF TypeOK, Symbols
<1>2. CASE pcurrent_char <= Len(text)
  <2>1. text' = text /\ text[pcurrent_char] = c
    BY <1>2 DEF Reads
  <2>2. Extends(text, text') /\ Ended'
    BY <1>1, <2>1 DEF Extends, Ended
  <2> QED
    BY <1>1, <1>2, <2>1, <2>2
<1>3. CASE pcurrent_char > Len(text)
  <2>1. /\ pcurrent_char = Len(text) + 1 /\ text' = Append(text, c)
        /\ Len(text) >= MaxText => c = Nul
    BY <1>1, <1>3 DEF Reads
  <2>2. /\ text' \in Seq(Symbols) /\ Len(text') = Len(text) + 1
        /\ \A k \in 1 .. Len(text) : text'[k] = text[k]
        /\ text'[pcurrent_char] = c
    BY <1>1, <2>1, AppendProperties
  <2>3. Len(text) <= MaxText
    <3>1. CASE Len(text) = MaxText + 1
      <4>1. text[Len(text)] = Nul /\ Len(text) \in 1 .. pcurrent_char - 1
        BY <1>1, <2>1, <3>1 DEF Ended
      <4> QED
        BY <1>1, <4>1
    <3> QED
      BY <1>1, <3>1
  <2>4. Extends(text, text')
    BY <1>1, <2>2 DEF Extends
  <2>5. \A k \in 1 .. Len(text) : text'[k] # Nul
    BY <1>1, <2>1, <2>2
  <2>6. \A k \in 1 .. Len(text') : k \in 1 .. Len(text) \/ k = Len(text')
    BY <1>1, <2>2
  <2>7. \A k \in 1 .. Len(text') : text'[k] = Nul => k = Len(text')
    BY <2>5, <2>6
  <2>8. Len(text') > MaxText => text'[Len(text')] = Nul
    BY <1>1, <2>1, <2>2
  <2>9. Ended'
    BY <2>7, <2>8 DEF Ended
  <2> QED
    BY <1>1, <2>1, <2>2, <2>3, <2>4, <2>5, <2>9
<1> QED
  BY <1>1, <1>2, <1>3

(* Whatever else a step does, the types are kept.                          *)
LEMMA TypeStep ==
  ASSUME TypeOK, Ended, NEW c \in Symbols, Reads(c),
         \/ pcurrent_char' = pcurrent_char
         \/ pcurrent_char' = pcurrent_char + 1 /\ c # Nul,
         current_line' \in Nat, pc' \in {"reading", "over"},
         scaner' = scaner, lexem_begin' = lexem_begin,
         lexem_begin_line' \in [Both -> Nat],
         counted' \in BOOLEAN, outside' \in BOOLEAN
  PROVE  TypeOK' /\ Ended'
<1>1. /\ Extends(text, text') /\ Ended'
      /\ pcurrent_char \in 1 .. Len(text') /\ text'[pcurrent_char] = c
      /\ Len(text') <= MaxText + 1
      /\ \A k \in 1 .. pcurrent_char - 1 : text'[k] # Nul
  BY CharacterRead
<1>2. /\ text' \in Seq(Symbols) /\ Len(text) \in Nat /\ Len(text') \in Nat
      /\ Len(text) <= Len(text')
  BY <1>1 DEF Extends
<1>3. pcurrent_char' \in 1 .. Len(text') + 1
  BY <1>1, <1>2
<1>4. \A k \in 1 .. pcurrent_char' - 1 : text'[k] # Nul
  <2>1. CASE pcurrent_char' = pcurrent_char
    BY <1>1, <2>1
  <2>2. CASE pcurrent_char' = pcurrent_char + 1 /\ c # Nul
    <3>1. \A k \in 1 .. pcurrent_char' - 1 :
            k \in 1 .. pcurrent_char - 1 \/ k = pcurrent_char
      BY <1>1, <1>2, <2>2
    <3> QED
      BY <1>1, <2>2, <3>1
  <2> QED
    BY <2>1, <2>2
<1>5. lexem_begin' \in [Both -> 1 .. Len(text') + 1]
  <2>1. 1 .. Len(text) + 1 \subseteq 1 .. Len(text') + 1
    BY <1>2
  <2> QED
    BY <2>1 DEF TypeOK
<1>6. scaner' \in Both \cup {"nobody"}
  BY DEF TypeOK
<1> QED
  BY <1>1, <1>2, <1>3, <1>4, <1>5, <1>6 DEF TypeOK, Symbols

-----------------------------------------------------------------------------
(* What was read of a lexeme stays so when one character more is.          *)

LEMMA NameGrows ==
  ASSUME NEW t \in Seq(Symbols), NEW i \in Nat \ {0}, NEW n \in Nat,
         Name(t, i, n), n <= Len(t), t[n] \in Body
  PROVE  /\ Name(t, i, n + 1)
         /\ SubSeq(t, i, n + 1 - 1) = Append(SubSeq(t, i, n - 1), t[n])
<1>1. i < n
  BY DEF Name
<1>2. SubSeq(t, i, n) = Append(SubSeq(t, i, n - 1), t[n])
  BY <1>1, StretchGrows
<1>3. \A k \in i .. n + 1 - 1 : k \in i .. n - 1 \/ k = n
  BY <1>1
<1>4. \A k \in i .. n + 1 - 1 : t[k] \in Body
  BY <1>3 DEF Name
<1>5. n + 1 - 1 = n /\ i < n + 1 /\ n + 1 <= Len(t) + 1
  BY <1>1
<1> QED
  BY <1>2, <1>4, <1>5 DEF Name

LEMMA NameStarts ==
  ASSUME NEW t \in Seq(Symbols), NEW i \in 1 .. Len(t), t[i] \in Letters
  PROVE  Name(t, i, i + 1) /\ SubSeq(t, i, i + 1 - 1) = <<t[i]>>
<1>1. SubSeq(t, i, i) = <<t[i]>>
  BY StretchOne
<1>2. t[i] \in Body
  BY MainKinds
<1>3. \A k \in i .. i + 1 - 1 : k = i
  OBVIOUS
<1>4. i + 1 - 1 = i /\ i < i + 1 /\ i + 1 <= Len(t) + 1
  OBVIOUS
<1> QED
  BY <1>1, <1>2, <1>3, <1>4 DEF Name

LEMMA ProgressStays ==
  ASSUME NEW t, NEW u, Extends(t, u), NEW b \in 1 .. Len(t),
         pcurrent_char \in 1 .. Len(t) + 1, Progress(t, b)
  PROVE  Progress(u, b)
<1> DEFINE p == pcurrent_char
<1>1. /\ b \in Nat \ {0} /\ b + 1 \in Nat \ {0} /\ b + 2 \in Nat \ {0}
      /\ Len(t) \in Nat /\ Len(u) \in Nat /\ Len(t) <= Len(u)
      /\ p \in Nat /\ p - 1 \in 0 .. Len(t)
  BY DEF Extends
<1>2. \A k \in 1 .. Len(t) : u[k] = t[k]
  BY DEF Extends
<1>3. u[b] = t[b]
  BY <1>2
<1>4. p >= b + 2 => u[b + 1] = t[b + 1]
  BY <1>1, <1>2
<1>5. \A i \in Nat \ {0} : i <= p => SubSeq(u, i, p - 1) = SubSeq(t, i, p - 1)
  <2>1. ASSUME NEW i \in Nat \ {0}, i <= p
        PROVE  SubSeq(u, i, p - 1) = SubSeq(t, i, p - 1)
    <3>1. p - 1 \in Nat /\ i <= p - 1 + 1 /\ p - 1 <= Len(t)
      BY <1>1, <2>1
    <3> QED
      BY <3>1, StretchStays
  <2> QED
    BY <2>1
<1>6. ASSUME IdRead(t, b) PROVE IdRead(u, b)
  <2>1. Name(u, b, p) /\ SubSeq(u, b, p - 1) = SubSeq(t, b, p - 1)
    BY <1>1, <1>6, NameStays DEF IdRead
  <2> QED
    BY <1>6, <2>1 DEF IdRead
<1>7. ASSUME ActionRead(t, b) PROVE ActionRead(u, b)
  <2>1. Name(t, b + 1, p) => /\ Name(u, b + 1, p)
                             /\ SubSeq(u, b + 1, p - 1) = SubSeq(t, b + 1, p - 1)
    BY <1>1, NameStays
  <2> QED
    BY <1>3, <1>7, <2>1 DEF ActionRead
<1>8. ASSUME KeywordRead(t, b) PROVE KeywordRead(u, b)
  <2>1. p > b + 1 => SubSeq(u, b + 1, p - 1) = SubSeq(t, b + 1, p - 1)
    BY <1>1, <1>5
  <2> QED
    BY <1>3, <1>8, <2>1 DEF KeywordRead
<1>9. ASSUME ClassRead(t, b) PROVE ClassRead(u, b)
  <2>1. p > b + 2 => SubSeq(u, b + 2, p - 1) = SubSeq(t, b + 2, p - 1)
    BY <1>1, <1>5
  <2>2. p = b + 2 \/ p > b + 2 => u[b + 1] = t[b + 1]
    BY <1>1, <1>4
  <2> QED
    BY <1>3, <1>9, <2>1, <2>2 DEF ClassRead
<1>10. ASSUME DelimiterRead(t, b) PROVE DelimiterRead(u, b)
  BY <1>3, <1>10 DEF DelimiterRead
<1>11. ASSUME CharRead(t, b) PROVE CharRead(u, b)
  BY <1>3, <1>11 DEF CharRead
<1>12. ASSUME UnknownRead(t, b) PROVE UnknownRead(u, b)
  <2>1. \A k \in b + 1 .. p - 1 : u[k] = t[k]
    BY <1>1, <1>2
  <2> QED
    BY <1>3, <1>12, <2>1 DEF UnknownRead
<1>13. ASSUME StringRead(t, b) PROVE StringRead(u, b)
  <2>1. Twice(t, b + 1, buffer) => Twice(u, b + 1, buffer)
    BY <1>1, TwiceStays
  <2>2. Twice(t, b + 1, buffer) => Place(buffer, Len(buffer)) \in Nat
    <3>1. Twice(t, b + 1, buffer) => Len(buffer) \in Nat
      BY DEF Twice
    <3> QED
      BY <3>1, PlaceNat
  <2>3. p - 1 \in 1 .. Len(t) => u[p - 1] = t[p - 1]
    BY <1>2
  <2> QED
    BY <1>1, <1>3, <1>13, <2>1, <2>2, <2>3 DEF StringRead
<1> QED
  BY <1>6, <1>7, <1>8, <1>9, <1>10, <1>11, <1>12, <1>13 DEF Progress

(* A lexeme is under way: its first character is known, and what was read. *)
LEMMA Underway ==
  ASSUME IInv, NEW c \in Symbols, Reads(c), automaton # "A_start"
  PROVE  \E b \in From .. Len(text') :
           /\ b \in 1 .. Len(text') /\ From \in Nat \ {0}
           /\ First(text', From, b) /\ Progress(text', b)
<1>1. TypeOK /\ Ended /\ scaner \in Both /\ Started(text)
  BY DEF IInv, LexInv, Reads
<1>2. Extends(text, text')
  BY <1>1, CharacterRead
<1>3. /\ From \in Nat \ {0} /\ Len(text) \in Nat /\ Len(text') \in Nat
      /\ Len(text) <= Len(text') /\ pcurrent_char \in 1 .. Len(text) + 1
  BY <1>1, <1>2 DEF From, TypeOK, Extends
<1>4. PICK b \in From .. Len(text) : First(text, From, b) /\ Progress(text, b)
  BY <1>1 DEF Started
<1>5. b \in 1 .. Len(text) /\ b \in From .. Len(text') /\ b \in 1 .. Len(text')
  BY <1>3
<1>6. First(text', From, b)
  BY <1>2, <1>3, <1>4, FirstStays
<1>7. Progress(text', b)
  BY <1>2, <1>3, <1>4, <1>5, ProgressStays
<1> QED
  BY <1>3, <1>5, <1>6, <1>7

(* The automaton tells what was read.                                      *)
LEMMA Automaton ==
  ASSUME NEW t, NEW b, Progress(t, b)
  PROVE  /\ automaton = "A_id" => IdRead(t, b)
         /\ automaton = "A_action" => ActionRead(t, b)
         /\ automaton = "A_keyword" => KeywordRead(t, b)
         /\ automaton = "A_class" => ClassRead(t, b)
         /\ automaton = "A_delimiter" => DelimiterRead(t, b)
         /\ automaton = "A_char" => CharRead(t, b)
         /\ automaton = "A_unknown" => UnknownRead(t, b)
         /\ automaton = "A_string" => StringRead(t, b)
         /\ automaton # "A_start"
BY DEF Progress, IdRead, ActionRead, KeywordRead, ClassRead, DelimiterRead,
       CharRead, UnknownRead, StringRead

-----------------------------------------------------------------------------
(* The automata, one character each.                                       *)

LEMMA GoesOn ==
  ASSUME scaner \in Both, scaner' = scaner, lexem_begin' = lexem_begin,
         pc' = "reading", counted' = FALSE, outside' = FALSE,
         NEW b \in From .. Len(text'), First(text', From, b), Progress(text, b)'
  PROVE  LexInv'
<1>1. From' = From
  BY DEF From
<1>2. Started(text)'
  BY <1>1 DEF Started
<1> QED
  BY <1>2 DEF LexInv

LEMMA IsOver ==
  ASSUME scaner \in Both, scaner' = scaner, lexem_begin' = lexem_begin,
         pc' = "over", outside' = FALSE, NEW errs, errs = Errors',
         Meets(text', scaner, From, token', pcurrent_char', errs)
  PROVE  LexInv'
<1>1. From' = From
  BY DEF From
<1>2. Meets(text, scaner, From, token, pcurrent_char, Errors)'
  BY <1>1
<1> QED
  BY <1>2 DEF LexInv

LEMMA LexemOver ==
  ASSUME scaner \in Both, scaner' = scaner, lexem_begin' = lexem_begin,
         pc' = "over", outside' = FALSE, NEW errs, errs = Errors',
         NEW b \in From .. Len(text'), First(text', From, b),
         Lexem(text', scaner, b, token', pcurrent_char', errs)
  PROVE  LexInv'
<1>1. Meets(text', scaner, From, token', pcurrent_char', errs)
  BY DEF Meets
<1> QED
  BY <1>1, IsOver

LEMMA Silent ==
  ASSUME counted = FALSE, counted' = counted
  PROVE  0 = Errors'
BY DEF Errors

LEMMA Told ==
  ASSUME counted' = TRUE
  PROVE  1 = Errors'
BY DEF Errors

(* What every automaton keeps, and where it is.                            *)
LEMMA Place_of ==
  ASSUME IInv, NEW c \in Symbols, Reads(c)
  PROVE  /\ scaner \in Both /\ counted = FALSE /\ outside = FALSE
         /\ pc = "reading" /\ From \in Nat \ {0}
         /\ text' \in Seq(Symbols) /\ Len(text') \in Nat
         /\ pcurrent_char \in 1 .. Len(text') /\ pcurrent_char \in Nat
         /\ pcurrent_char \in Nat \ {0}
         /\ text'[pcurrent_char] = c
<1>1. TypeOK /\ Ended /\ LexInv /\ pc = "reading"
  BY DEF IInv, Reads
<1>2. scaner \in Both /\ counted = FALSE /\ outside = FALSE
  BY <1>1 DEF LexInv, TypeOK
<1>3. /\ Extends(text, text')
      /\ pcurrent_char \in 1 .. Len(text') /\ text'[pcurrent_char] = c
  BY <1>1, CharacterRead
<1>4. From \in Nat \ {0}
  BY <1>1, <1>2 DEF From, TypeOK
<1> QED
  BY <1>1, <1>2, <1>3, <1>4 DEF Extends

LEMMA IdStep ==
  ASSUME IInv, NEW c \in Chars, id_proc(c)
  PROVE  LexInv'
<1> DEFINE p == pcurrent_char
<1>0. c \in Symbols /\ Reads(c) /\ automaton # "A_start"
  BY DEF Symbols, id_proc, In
<1>1. /\ scaner \in Both /\ counted = FALSE /\ outside = FALSE
      /\ pc = "reading" /\ From \in Nat \ {0}
      /\ text' \in Seq(Symbols) /\ Len(text') \in Nat
      /\ p \in 1 .. Len(text') /\ p \in Nat /\ text'[p] = c
  BY <1>0, Place_of
<1>2. PICK b \in From .. Len(text') :
        /\ b \in 1 .. Len(text') /\ First(text', From, b) /\ Progress(text', b)
  BY <1>0, Underway
<1>3. /\ scaner' = scaner /\ lexem_begin' = lexem_begin
      /\ automaton' = automaton /\ state' = state
      /\ counted' = counted /\ outside' = outside
  BY DEF id_proc, Keeps
<1>4. CASE In("Main", "A_id")
  <2>1. IdRead(text', b)
    BY <1>2, <1>4, Automaton DEF In
  <2>2. CASE c \in Body
    <3>1. /\ p' = p + 1 /\ pc' = "reading" /\ token' = token
          /\ buffer' = Append(buffer, c)
      BY <1>1, <2>2 DEF id_proc, More
    <3>2. /\ Name(text', b, p + 1)
          /\ SubSeq(text', b, p + 1 - 1) = Append(SubSeq(text', b, p - 1), c)
      BY <1>1, <1>2, <2>1, <2>2, NameGrows DEF IdRead
    <3>3. IdRead(text, b)'
      BY <1>1, <1>3, <2>1, <3>1, <3>2 DEF IdRead
    <3> QED
      BY <1>1, <1>2, <1>3, <3>1, <3>3, GoesOn DEF Progress
  <2>3. CASE c \notin Body
    <3>1. p' = p /\ pc' = "over" /\ token' = Token(token.code, buffer)
      BY <2>3 DEF id_proc, Ends_before
    <3>2. token.code = "Id"
      BY <2>1 DEF IdRead, Token
    <3>3. Id(text', b, token', p', 0)
      BY <1>1, <2>1, <2>3, <3>1, <3>2 DEF Id, IdRead
    <3>4. Lexem(text', scaner, b, token', p', 0)
      BY <1>4, <3>3 DEF Lexem, In
    <3> QED
      BY <1>1, <1>2, <1>3, <3>1, <3>4, LexemOver, Silent
  <2> QED
    BY <2>2, <2>3
<1>5. CASE In("Expr", "A_action") /\ state # Initial
  <2>1. ActionRead(text', b)
    BY <1>2, <1>5, Automaton DEF In
  <2>a. b + 1 \in Nat \ {0}
    BY <1>2
  <2>b. /\ Name(text', b + 1, p) /\ buffer = SubSeq(text', b + 1, p - 1)
        /\ text'[b] = "$" /\ token = Token("Action", <<>>)
    BY <1>5, <2>1 DEF ActionRead
  <2>2. CASE c \in Body
    <3>1. /\ p' = p + 1 /\ pc' = "reading" /\ token' = token
          /\ buffer' = Append(buffer, c)
      BY <1>1, <2>2 DEF id_proc, More
    <3>2. /\ Name(text', b + 1, p + 1)
          /\ SubSeq(text', b + 1, p + 1 - 1)
             = Append(SubSeq(text', b + 1, p - 1), c)
      BY <1>1, <2>a, <2>b, <2>2, NameGrows
    <3>3. ActionRead(text, b)'
      BY <1>1, <1>3, <1>5, <2>1, <2>b, <3>1, <3>2 DEF ActionRead
    <3> QED
      BY <1>1, <1>2, <1>3, <3>1, <3>3, GoesOn DEF Progress
  <2>3. CASE c \notin Body
    <3>1. p' = p /\ pc' = "over" /\ token' = Token(token.code, buffer)
      BY <2>3 DEF id_proc, Ends_before
    <3>2. token.code = "Action"
      BY <2>b DEF Token
    <3>3. Action(text', b, token', p', 0)
      BY <1>1, <2>b, <2>3, <3>1, <3>2 DEF Action
    <3>4. Lexem(text', scaner, b, token', p', 0)
      BY <1>5, <3>3 DEF Lexem, In
    <3> QED
      BY <1>1, <1>2, <1>3, <3>1, <3>4, LexemOver, Silent
  <2> QED
    BY <2>2, <2>3
<1> QED
  BY <1>4, <1>5 DEF id_proc

LEMMA ActionStep ==
  ASSUME IInv, NEW c \in Chars, action_begin(c)
  PROVE  LexInv'
<1> DEFINE p == pcurrent_char
<1>0. c \in Symbols /\ Reads(c) /\ automaton # "A_start" /\ c # Nul
  BY DEF Symbols, action_begin, In
<1>1. /\ scaner \in Both /\ counted = FALSE /\ outside = FALSE
      /\ pc = "reading" /\ From \in Nat \ {0}
      /\ text' \in Seq(Symbols) /\ Len(text') \in Nat
      /\ p \in 1 .. Len(text') /\ p \in Nat /\ text'[p] = c
  BY <1>0, Place_of
<1>2. PICK b \in From .. Len(text') :
        /\ b \in 1 .. Len(text') /\ First(text', From, b) /\ Progress(text', b)
  BY <1>0, Underway
<1>3. /\ scaner' = scaner /\ lexem_begin' = lexem_begin
      /\ automaton' = automaton /\ token' = token /\ outside' = outside
  BY DEF action_begin, Keeps
<1>4. /\ ActionRead(text', b) /\ state = Initial /\ scaner = "Expr"
      /\ automaton = "A_action"
  BY <1>2, Automaton DEF action_begin, In
<1>5. /\ p = b + 1 /\ buffer = <<>> /\ text'[b] = "$"
      /\ token = Token("Action", <<>>)
  <2>1. ~Name(text', b + 1, p) \/ TRUE
    OBVIOUS
  <2> QED
    BY <1>4 DEF ActionRead
<1>6. CASE c \in Letters
  <2>1. /\ p' = p + 1 /\ pc' = "reading" /\ counted' = counted
        /\ buffer' = <<c>> /\ state' = <<c>>
    BY <1>1, <1>6 DEF action_begin, More
  <2>2. Name(text', p, p + 1) /\ SubSeq(text', p, p + 1 - 1) = <<c>>
    BY <1>1, <1>6, NameStarts
  <2>3. state' # Initial
    BY <2>1 DEF Initial
  <2>4. ActionRead(text, b)'
    BY <1>1, <1>3, <1>4, <1>5, <2>1, <2>2, <2>3 DEF ActionRead
  <2> QED
    BY <1>1, <1>2, <1>3, <2>1, <2>4, GoesOn DEF Progress
<1>7. CASE c \notin Letters
  <2>1. p' = p /\ pc' = "over" /\ counted' = TRUE
    BY <1>7 DEF action_begin, Ends_before
  <2>2. Action(text', b, token', p', 1)
    BY <1>0, <1>1, <1>3, <1>5, <1>7, <2>1 DEF Action
  <2>3. Lexem(text', scaner, b, token', p', 1)
    BY <1>4, <2>2 DEF Lexem
  <2> QED
    BY <1>1, <1>2, <1>3, <2>1, <2>3, LexemOver, Told
<1> QED
  BY <1>6, <1>7

LEMMA UnknownStep ==
  ASSUME IInv, NEW c \in Chars, unknown_proc(c)
  PROVE  LexInv'
<1> DEFINE p == pcurrent_char
<1>0. c \in Symbols /\ Reads(c) /\ automaton = "A_unknown" /\ scaner = "Main"
  BY DEF Symbols, unknown_proc, In
<1>1. /\ scaner \in Both /\ counted = FALSE /\ outside = FALSE
      /\ pc = "reading" /\ From \in Nat \ {0}
      /\ text' \in Seq(Symbols) /\ Len(text') \in Nat
      /\ p \in 1 .. Len(text') /\ p \in Nat /\ text'[p] = c
  BY <1>0, Place_of
<1>2. PICK b \in From .. Len(text') :
        /\ b \in 1 .. Len(text') /\ First(text', From, b) /\ Progress(text', b)
  BY <1>0, Underway
<1>3. /\ scaner' = scaner /\ lexem_begin' = lexem_begin
      /\ automaton' = automaton /\ token' = token
      /\ counted' = counted /\ outside' = outside
  BY DEF unknown_proc, Keeps
<1>4. UnknownRead(text', b)
  BY <1>0, <1>2, Automaton
<1>5. CASE c \in Other
  <2>1. p' = p + 1 /\ pc' = "reading"
    BY <1>1, <1>5 DEF unknown_proc, More
  <2>2. \A k \in b + 1 .. p + 1 - 1 : k \in b + 1 .. p - 1 \/ k = p
    BY <1>1, <1>2
  <2>3. \A k \in b + 1 .. p' - 1 : text'[k] \in Other
    BY <1>1, <1>4, <1>5, <2>1, <2>2 DEF UnknownRead
  <2>4. p' > b
    BY <1>1, <1>2, <1>4, <2>1 DEF UnknownRead
  <2>5. UnknownRead(text, b)'
    BY <1>3, <1>4, <2>3, <2>4 DEF UnknownRead
  <2> QED
    BY <1>1, <1>2, <1>3, <2>1, <2>5, GoesOn DEF Progress
<1>6. CASE c \notin Other
  <2>1. p' = p /\ pc' = "over"
    BY <1>6 DEF unknown_proc, Ends_before
  <2>2. p \in b + 1 .. Len(text')
    BY <1>1, <1>2, <1>4 DEF UnknownRead
  <2>3. Unknown(text', b, token', p', 0)
    BY <1>1, <1>3, <1>4, <1>6, <2>1, <2>2 DEF Unknown, UnknownRead
  <2>4. Lexem(text', scaner, b, token', p', 0)
    BY <1>0, <2>3 DEF Lexem
  <2> QED
    BY <1>1, <1>2, <1>3, <2>1, <2>4, LexemOver, Silent
<1> QED
  BY <1>5, <1>6

-----------------------------------------------------------------------------
(* The words and the rows of their tables.                                 *)

LEMMA RowParts ==
  ASSUME NEW words, NEW st
  PROVE  /\ Row(words, st).whole <=> st \in words
         /\ Row(words, st).symbols = {c \in Chars : IsRow(words, Append(st, c))}
BY DEF Row

LEMMA RowErrors ==
  ASSUME NEW words, NEW st, counted' = ~Row(words, st).whole
  PROVE  (IF st \in words THEN 0 ELSE 1) = Errors'
<1>1. CASE st \in words
  <2>1. Row(words, st).whole
    BY <1>1, RowParts
  <2>2. ~counted'
    BY <2>1
  <2> QED
    BY <1>1, <2>2 DEF Errors
<1>2. CASE st \notin words
  <2>1. ~Row(words, st).whole
    BY <1>2, RowParts
  <2>2. counted'
    BY <2>1
  <2> QED
    BY <1>2, <2>2 DEF Errors
<1> QED
  BY <1>1, <1>2

LEMMA WordsTyped ==
  ASSUME NEW words \in {Keywords, Names}, NEW w \in words
  PROVE  /\ w \in Seq(Chars \ Spaces) /\ w \in Seq(Symbols) /\ w # <<>>
         /\ Len(w) \in Nat /\ Len(w) > 0
<1>1. w \in Seq(Chars \ Spaces) /\ w # <<>>
  BY ScanersAssumption
<1>2. Chars \ Spaces \subseteq Symbols
  BY DEF Symbols
<1>3. w \in Seq(Symbols)
  BY <1>1, <1>2, SeqMonotonic
<1> QED
  BY <1>1, <1>3

LEMMA RowTyped ==
  ASSUME NEW words \in {Keywords, Names}, NEW st \in Seq(Symbols)
  PROVE  IsRow(words, st) <=>
           st # Initial /\ \E w \in words : /\ Len(st) <= Len(w)
                                            /\ \A k \in 1 .. Len(st) : st[k] = w[k]
<1>1. \A w \in words : w \in Seq(Symbols)
  BY WordsTyped
<1>2. \A w \in words : IsPrefix(st, w) <=> /\ Len(st) <= Len(w)
                                           /\ \A k \in 1 .. Len(st) : st[k] = w[k]
  BY <1>1, PrefixIs
<1> QED
  BY <1>2 DEF IsRow

(* A row grows by characters of words only.                                *)
LEMMA RowSolid ==
  ASSUME NEW words \in {Keywords, Names}, NEW st \in Seq(Symbols),
         NEW c \in Symbols, IsRow(words, Append(st, c))
  PROVE  c \in Chars /\ c \notin Spaces /\ c # Nul
<1>1. /\ Append(st, c) \in Seq(Symbols) /\ Len(Append(st, c)) = Len(st) + 1
      /\ Append(st, c)[Len(st) + 1] = c /\ Len(st) \in Nat
  BY AppendProperties
<1>2. PICK w \in words : /\ Len(Append(st, c)) <= Len(w)
                         /\ \A k \in 1 .. Len(Append(st, c)) :
                              Append(st, c)[k] = w[k]
  BY <1>1, RowTyped
<1>3. Len(st) + 1 \in 1 .. Len(Append(st, c))
  BY <1>1
<1>4. w[Len(st) + 1] = c
  BY <1>1, <1>2, <1>3
<1>5. w \in Seq(Chars \ Spaces) /\ Len(w) \in Nat
  BY WordsTyped
<1>6. Len(st) + 1 \in 1 .. Len(w)
  BY <1>1, <1>2, <1>5
<1>7. c \in Chars \ Spaces
  BY <1>4, <1>5, <1>6, ElementOfSeq
<1> QED
  BY <1>7, ScanersAssumption

LEMMA FirstRow ==
  ASSUME NEW words \in {Keywords, Names}, NEW c \in Symbols
  PROVE  /\ c \in First_chars(words) <=> IsRow(words, <<c>>)
         /\ c \in First_chars(words) => c \in Chars /\ c \notin Spaces
<1>1. <<c>> \in Seq(Symbols) /\ Len(<<c>>) = 1 /\ <<c>>[1] = c
  OBVIOUS
<1>2. <<c>> # Initial
  BY <1>1 DEF Initial
<1>3. c \in First_chars(words) <=> \E w \in words : w[1] = c
  BY DEF First_chars
<1>4. \A w \in words : Len(w) \in Nat /\ Len(w) > 0 /\ w \in Seq(Chars \ Spaces)
  BY WordsTyped
<1>5. \A k \in 1 .. 1 : k = 1
  OBVIOUS
<1>6. IsRow(words, <<c>>) <=> \E w \in words : 1 <= Len(w) /\ w[1] = c
  <2>1. IsRow(words, <<c>>) <=>
          \E w \in words : /\ Len(<<c>>) <= Len(w)
                           /\ \A k \in 1 .. Len(<<c>>) : <<c>>[k] = w[k]
    BY <1>1, <1>2, RowTyped
  <2>2. \A w : (\A k \in 1 .. Len(<<c>>) : <<c>>[k] = w[k]) <=> w[1] = c
    BY <1>1, <1>5
  <2> QED
    BY <1>1, <2>1, <2>2
<1>7. \A w \in words : w[1] \in Chars /\ w[1] \notin Spaces
  <2>1. ASSUME NEW w \in words PROVE w[1] \in Chars \ Spaces
    BY <1>4, ElementOfSeq
  <2> QED
    BY <2>1
<1> QED
  BY <1>3, <1>4, <1>6, <1>7

LEMMA NamesApart ==
  ASSUME NEW st \in Seq(Symbols)
  PROVE  IsRow(Names, st) => st # Colon_read /\ st # Initial
<1>1. SUFFICES ASSUME IsRow(Names, st), st = Colon_read PROVE FALSE
  BY DEF IsRow
<1>2. PICK w \in Names : Len(st) <= Len(w) /\ \A k \in 1 .. Len(st) : st[k] = w[k]
  BY <1>1, RowTyped
<1>3. Len(st) = 1 /\ st[1] = ":"
  BY <1>1 DEF Colon_read
<1>4. w[1] = ":"
  BY <1>2, <1>3
<1> QED
  BY <1>4, ScanersAssumption

LEMMA ColonApart == ":" \notin First_chars(Names) /\ Initial # Colon_read
<1>1. Initial # Colon_read
  BY DEF Initial, Colon_read
<1> QED
  BY <1>1, ScanersAssumption DEF First_chars

(* As much as begins a word is read, and no more.                          *)
LEMMA WordOver ==
  ASSUME NEW words \in {Keywords, Names}, NEW code, NEW t \in Seq(Symbols),
         NEW i \in Nat \ {0}, NEW n \in Nat, i < n, n <= Len(t),
         NEW st, st = SubSeq(t, i, n - 1),
         IsRow(words, st), ~IsRow(words, Append(st, t[n]))
  PROVE  Word(t, words, code, i, Completed(words, code, st), n,
              IF st \in words THEN 0 ELSE 1)
<1>1. SubSeq(t, i, n) = Append(SubSeq(t, i, n - 1), t[n])
  BY StretchGrows
<1> QED
  BY <1>1 DEF Word

LEMMA RowRead ==
  ASSUME NEW t \in Seq(Symbols), NEW i \in Nat \ {0}, NEW n \in Nat,
         i < n, n <= Len(t) + 1
  PROVE  SubSeq(t, i, n - 1) \in Seq(Symbols)
BY Stretch

LEMMA KeywordStep ==
  ASSUME IInv, NEW c \in Chars, keyword_proc(c)
  PROVE  LexInv'
<1> DEFINE p == pcurrent_char
<1>0. /\ c \in Symbols /\ Reads(c) /\ automaton = "A_keyword"
      /\ scaner = "Main" /\ c # Nul
  BY DEF Symbols, keyword_proc, In
<1>1. /\ scaner \in Both /\ counted = FALSE /\ outside = FALSE
      /\ pc = "reading" /\ From \in Nat \ {0}
      /\ text' \in Seq(Symbols) /\ Len(text') \in Nat
      /\ p \in 1 .. Len(text') /\ p \in Nat /\ text'[p] = c
  BY <1>0, Place_of
<1>2. PICK b \in From .. Len(text') :
        /\ b \in 1 .. Len(text') /\ First(text', From, b) /\ Progress(text', b)
  BY <1>0, Underway
<1>3. KeywordRead(text', b)
  BY <1>0, <1>2, Automaton
<1>4. /\ scaner' = scaner /\ lexem_begin' = lexem_begin
      /\ automaton' = automaton /\ outside' = outside
  BY DEF keyword_proc, Enters_table, Follows_table, Keeps
<1>a. b + 1 \in Nat \ {0}
  BY <1>2
<1>b. /\ text'[b] = "%" /\ token = Token("Unknown", <<>>)
      /\ automaton = "A_keyword" /\ scaner = "Main"
  BY <1>3 DEF KeywordRead
<1>5. CASE state = Initial
  <2>1. Enters_table(Keywords, "Kw", c) /\ p = b + 1
    BY <1>3, <1>5 DEF keyword_proc, KeywordRead, IsRow
  <2>2. CASE c \in First_chars(Keywords)
    <3>1. /\ p' = p + 1 /\ pc' = "reading" /\ state' = <<c>>
          /\ token' = token /\ counted' = counted
      BY <1>1, <2>1, <2>2 DEF Enters_table, More
    <3>2. IsRow(Keywords, state')
      BY <1>0, <2>2, <3>1, FirstRow
    <3>3. state' = SubSeq(text', b + 1, p' - 1) /\ p' > b + 1
      BY <1>1, <2>1, <3>1, StretchOne
    <3>4. KeywordRead(text, b)'
      BY <1>4, <1>b, <3>1, <3>2, <3>3 DEF KeywordRead
    <3> QED
      BY <1>1, <1>2, <1>4, <3>1, <3>4, GoesOn DEF Progress
  <2>3. CASE c \notin First_chars(Keywords)
    <3>1. p' = p /\ pc' = "over" /\ counted' = TRUE /\ token' = token
      BY <2>1, <2>3 DEF Enters_table, Ends_before
    <3>2. Keyword(text', b, token', p', 1)
      BY <1>0, <1>1, <1>b, <2>1, <2>3, <3>1 DEF Keyword
    <3>3. Lexem(text', scaner, b, token', p', 1)
      BY <1>0, <3>2 DEF Lexem
    <3> QED
      BY <1>1, <1>2, <1>4, <3>1, <3>3, LexemOver, Told
  <2> QED
    BY <2>2, <2>3
<1>6. CASE state # Initial
  <2>1. /\ Follows_table(Keywords, "Kw", c) /\ IsRow(Keywords, state)
        /\ p > b + 1 /\ state = SubSeq(text', b + 1, p - 1)
    BY <1>3, <1>6 DEF keyword_proc, KeywordRead
  <2>2. state \in Seq(Symbols)
    BY <1>1, <1>a, <2>1, RowRead
  <2>3. CASE c \in Row(Keywords, state).symbols
    <3>1. /\ p' = p + 1 /\ pc' = "reading" /\ state' = Append(state, c)
          /\ token' = token /\ counted' = counted
      BY <1>1, <2>1, <2>3 DEF Follows_table, More
    <3>2. IsRow(Keywords, state')
      BY <2>3, <3>1, RowParts
    <3>3. state' = SubSeq(text', b + 1, p)
      BY <1>1, <1>a, <2>1, <3>1, StretchGrows
    <3>4. p' - 1 = p /\ p' > b + 1
      BY <1>1, <2>1, <3>1
    <3>5. KeywordRead(text, b)'
      BY <1>4, <1>b, <3>1, <3>2, <3>3, <3>4 DEF KeywordRead
    <3> QED
      BY <1>1, <1>2, <1>4, <3>1, <3>5, GoesOn DEF Progress
  <2>4. CASE c \notin Row(Keywords, state).symbols
    <3> DEFINE e == IF state \in Keywords THEN 0 ELSE 1
    <3>1. /\ p' = p /\ pc' = "over"
          /\ token' = Completed(Keywords, "Kw", state)
          /\ counted' = ~Row(Keywords, state).whole
      BY <2>1, <2>4 DEF Follows_table, Ends_before
    <3>2. ~IsRow(Keywords, Append(state, text'[p]))
      BY <1>1, <2>4, RowParts
    <3>a. b + 1 < p /\ p <= Len(text')
      BY <1>1, <1>2, <2>1
    <3>b. Word(text', Keywords, "Kw", b + 1, Completed(Keywords, "Kw", state),
               p, e)
      BY <1>1, <1>a, <2>1, <3>2, <3>a, WordOver
    <3>3. Word(text', Keywords, "Kw", b + 1, token', p', e)
      BY <3>1, <3>b
    <3>4. Lexem(text', scaner, b, token', p', e)
      BY <1>b, <3>3 DEF Lexem, Keyword
    <3>5. e = Errors'
      BY <3>1, RowErrors
    <3> HIDE DEF e
    <3> QED
      BY <1>1, <1>2, <1>4, <3>1, <3>4, <3>5, LexemOver
  <2> QED
    BY <2>3, <2>4
<1> QED
  BY <1>5, <1>6

LEMMA ClassStep ==
  ASSUME IInv, NEW c \in Chars, classes_proc(c)
  PROVE  LexInv'
<1> DEFINE p == pcurrent_char
<1>0. /\ c \in Symbols /\ Reads(c) /\ automaton = "A_class"
      /\ scaner = "Expr" /\ c # Nul
  BY DEF Symbols, classes_proc, In
<1>1. /\ scaner \in Both /\ counted = FALSE /\ outside = FALSE
      /\ pc = "reading" /\ From \in Nat \ {0}
      /\ text' \in Seq(Symbols) /\ Len(text') \in Nat
      /\ p \in 1 .. Len(text') /\ p \in Nat /\ text'[p] = c
  BY <1>0, Place_of
<1>2. PICK b \in From .. Len(text') :
        /\ b \in 1 .. Len(text') /\ First(text', From, b) /\ Progress(text', b)
  BY <1>0, Underway
<1>3. ClassRead(text', b)
  BY <1>0, <1>2, Automaton
<1>4. /\ scaner' = scaner /\ lexem_begin' = lexem_begin
      /\ automaton' = automaton /\ outside' = outside
  BY DEF classes_proc, Enters_table, Follows_table, Keeps
<1>a. b + 1 \in Nat \ {0} /\ b + 2 \in Nat \ {0}
  BY <1>2
<1>b. /\ text'[b] = "[" /\ token = Token("Character", <<"[">>)
      /\ automaton = "A_class" /\ scaner = "Expr"
  BY <1>3 DEF ClassRead
<1>c. /\ IsRow(Names, state) => state # Initial
      /\ Initial # Colon_read
  BY ColonApart DEF IsRow
<1>5. CASE state = Initial
  <2>1. p = b + 1
    BY <1>3, <1>5, <1>c DEF ClassRead
  <2>2. /\ token' = token /\ counted' = counted
        /\ IF c = ":" THEN More /\ state' = Colon_read
                      ELSE Ends_before /\ UNCHANGED state
    BY <1>5, <1>c DEF classes_proc
  <2>3. CASE c = ":"
    <3>1. p' = p + 1 /\ pc' = "reading" /\ state' = Colon_read
      BY <1>1, <2>2, <2>3 DEF More
    <3>2. ClassRead(text, b)'
      BY <1>1, <1>4, <1>b, <2>1, <2>2, <2>3, <3>1 DEF ClassRead
    <3> QED
      BY <1>1, <1>2, <1>4, <2>2, <3>1, <3>2, GoesOn DEF Progress
  <2>4. CASE c # ":"
    <3>1. p' = p /\ pc' = "over"
      BY <2>2, <2>4 DEF Ends_before
    <3>2. Class(text', b, token', p', 0)
      BY <1>0, <1>1, <1>b, <2>1, <2>2, <2>4, <3>1 DEF Class
    <3>3. Lexem(text', scaner, b, token', p', 0)
      BY <1>0, <3>2 DEF Lexem
    <3> QED
      BY <1>1, <1>2, <1>4, <2>2, <3>1, <3>3, LexemOver, Silent
  <2> QED
    BY <2>3, <2>4
<1>6. CASE state = Colon_read
  <2>1. Enters_table(Names, "Class", c) /\ p = b + 2 /\ text'[b + 1] = ":"
    BY <1>3, <1>6, <1>c DEF classes_proc, ClassRead
  <2>2. CASE c \in First_chars(Names)
    <3>1. /\ p' = p + 1 /\ pc' = "reading" /\ state' = <<c>>
          /\ token' = token /\ counted' = counted
      BY <1>1, <2>1, <2>2 DEF Enters_table, More
    <3>2. IsRow(Names, state')
      BY <1>0, <2>2, <3>1, FirstRow
    <3>3. state' = SubSeq(text', b + 2, p' - 1) /\ p' > b + 2
      BY <1>1, <2>1, <3>1, StretchOne
    <3>4. <<c>> \in Seq(Symbols)
      BY <1>0
    <3>5. state' # Colon_read
      BY <3>1, <3>2, <3>4, NamesApart
    <3>6. ClassRead(text, b)'
      BY <1>4, <1>b, <2>1, <3>1, <3>2, <3>3, <3>5 DEF ClassRead
    <3> QED
      BY <1>1, <1>2, <1>4, <3>1, <3>6, GoesOn DEF Progress
  <2>3. CASE c \notin First_chars(Names)
    <3>1. p' = p /\ pc' = "over" /\ counted' = TRUE /\ token' = token
      BY <2>1, <2>3 DEF Enters_table, Ends_before
    <3>2. Class(text', b, token', p', 1)
      BY <1>0, <1>1, <1>b, <2>1, <2>3, <3>1 DEF Class
    <3>3. Lexem(text', scaner, b, token', p', 1)
      BY <1>0, <3>2 DEF Lexem
    <3> QED
      BY <1>1, <1>2, <1>4, <3>1, <3>3, LexemOver, Told
  <2> QED
    BY <2>2, <2>3
<1>7. CASE state \notin {Initial, Colon_read}
  <2>1. /\ Follows_table(Names, "Class", c) /\ IsRow(Names, state)
        /\ p > b + 2 /\ state = SubSeq(text', b + 2, p - 1)
        /\ text'[b + 1] = ":"
    BY <1>3, <1>7 DEF classes_proc, ClassRead
  <2>2. state \in Seq(Symbols)
    BY <1>1, <1>a, <2>1, RowRead
  <2>3. CASE c \in Row(Names, state).symbols
    <3>1. /\ p' = p + 1 /\ pc' = "reading" /\ state' = Append(state, c)
          /\ token' = token /\ counted' = counted
      BY <1>1, <2>1, <2>3 DEF Follows_table, More
    <3>2. IsRow(Names, state')
      BY <2>3, <3>1, RowParts
    <3>3. state' = SubSeq(text', b + 2, p)
      BY <1>1, <1>a, <2>1, <3>1, StretchGrows
    <3>4. p' - 1 = p /\ p' > b + 2
      BY <1>1, <2>1, <3>1
    <3>a. Append(state, c) \in Seq(Symbols)
      BY <1>0, <2>2, AppendProperties
    <3>b. state' # Colon_read
      BY <3>1, <3>2, <3>a, NamesApart
    <3>5. ClassRead(text, b)'
      BY <1>4, <1>b, <2>1, <3>1, <3>2, <3>3, <3>4, <3>b DEF ClassRead
    <3> QED
      BY <1>1, <1>2, <1>4, <3>1, <3>5, GoesOn DEF Progress
  <2>4. CASE c \notin Row(Names, state).symbols
    <3> DEFINE e == IF state \in Names THEN 0 ELSE 1
    <3>1. /\ p' = p /\ pc' = "over"
          /\ token' = Completed(Names, "Class", state)
          /\ counted' = ~Row(Names, state).whole
      BY <2>1, <2>4 DEF Follows_table, Ends_before
    <3>2. ~IsRow(Names, Append(state, text'[p]))
      BY <1>1, <2>4, RowParts
    <3>a. b + 2 < p /\ p <= Len(text')
      BY <1>1, <1>2, <2>1
    <3>b. Word(text', Names, "Class", b + 2, Completed(Names, "Class", state),
               p, e)
      BY <1>1, <1>a, <2>1, <3>2, <3>a, WordOver
    <3>3. Word(text', Names, "Class", b + 2, token', p', e)
      BY <3>1, <3>b
    <3>c. p' <= Len(text')
      BY <3>1, <3>a
    <3>4. Class(text', b, token', p', e)
      BY <1>b, <2>1, <3>3, <3>c DEF Class
    <3>d. Lexem(text', scaner, b, token', p', e)
      BY <1>b, <3>4 DEF Lexem
    <3>5. e = Errors'
      BY <3>1, RowErrors
    <3> HIDE DEF e
    <3> QED
      BY <1>1, <1>2, <1>4, <3>1, <3>d, <3>5, LexemOver
  <2> QED
    BY <2>3, <2>4
<1> QED
  BY <1>5, <1>6, <1>7

LEMMA DelimiterStep ==
  ASSUME IInv, NEW c \in Chars, delimiter_proc(c)
  PROVE  LexInv'
<1> DEFINE p == pcurrent_char
<1>0. c \in Symbols /\ Reads(c) /\ automaton = "A_delimiter"
  BY DEF Symbols, delimiter_proc
<1>1. /\ scaner \in Both /\ counted = FALSE /\ outside = FALSE
      /\ pc = "reading" /\ From \in Nat \ {0}
      /\ text' \in Seq(Symbols) /\ Len(text') \in Nat
      /\ p \in 1 .. Len(text') /\ p \in Nat /\ text'[p] = c
  BY <1>0, Place_of
<1>2. PICK b \in From .. Len(text') :
        /\ b \in 1 .. Len(text') /\ First(text', From, b) /\ Progress(text', b)
  BY <1>0, Underway
<1>3. DelimiterRead(text', b)
  BY <1>0, <1>2, Automaton
<1>4. /\ scaner' = scaner /\ lexem_begin' = lexem_begin /\ p' = p + 1
      /\ pc' = "over" /\ token' = Token(Delimiter_code(scaner, c), <<>>)
      /\ counted' = counted /\ outside' = outside
  BY DEF delimiter_proc, Keeps, Ends_with
<1>5. Delimiter(text', scaner, b, token', p', 0)
  BY <1>1, <1>3, <1>4 DEF Delimiter, DelimiterRead
<1>6. Lexem(text', scaner, b, token', p', 0)
  BY <1>1, <1>5 DEF Lexem
<1> QED
  BY <1>1, <1>2, <1>4, <1>6, LexemOver, Silent

LEMMA CharStep ==
  ASSUME IInv, NEW c \in Chars, char_proc(c)
  PROVE  LexInv'
<1> DEFINE p == pcurrent_char
<1>0. /\ c \in Symbols /\ Reads(c) /\ automaton = "A_char" /\ scaner = "Expr"
  BY DEF Symbols, char_proc, In
<1>1. /\ scaner \in Both /\ counted = FALSE /\ outside = FALSE
      /\ pc = "reading" /\ From \in Nat \ {0}
      /\ text' \in Seq(Symbols) /\ Len(text') \in Nat
      /\ p \in 1 .. Len(text') /\ p \in Nat /\ text'[p] = c
  BY <1>0, Place_of
<1>2. PICK b \in From .. Len(text') :
        /\ b \in 1 .. Len(text') /\ First(text', From, b) /\ Progress(text', b)
  BY <1>0, Underway
<1>3. text'[b] = "\\" /\ p = b + 1
  BY <1>0, <1>2, Automaton DEF CharRead
<1>4. /\ scaner' = scaner /\ lexem_begin' = lexem_begin
      /\ counted' = counted /\ outside' = outside
  BY DEF char_proc, Keeps
<1>5. /\ pc' = "over"
      /\ \/ /\ c \in After_backslash /\ p' = p + 1
            /\ token' = Token("Character", <<IF c = "n" THEN "\n" ELSE c>>)
         \/ /\ c \notin After_backslash /\ p' = p
            /\ token' = Token("Character", <<"\\">>)
  BY DEF char_proc, Ends_with, Ends_before
<1>6. Escaped(text', b, token', p', 0)
  BY <1>1, <1>2, <1>3, <1>5 DEF Escaped
<1>7. Lexem(text', scaner, b, token', p', 0)
  BY <1>0, <1>6 DEF Lexem
<1> QED
  BY <1>1, <1>2, <1>4, <1>5, <1>7, LexemOver, Silent

-----------------------------------------------------------------------------
(* Literals.                                                               *)

(* A character is added: the quote after a quote, or another one.          *)
LEMMA TwiceGrows ==
  ASSUME NEW t \in Seq(Symbols), NEW i \in Nat \ {0}, NEW w, Twice(t, i, w),
         NEW c \in Chars, NEW n \in 1 .. Len(t), t[n] = c,
         n = i + Place(w, Len(w)) + (IF c = Quote THEN 1 ELSE 0),
         c = Quote => t[n - 1] = Quote
  PROVE  /\ Twice(t, i, Append(w, c))
         /\ n + 1 = i + Place(Append(w, c), Len(Append(w, c)))
<1> DEFINE v == Append(w, c)
           m == Len(w)
<1>1. /\ w \in Seq(Chars) /\ m \in Nat
  BY DEF Twice
<1>2. /\ v \in Seq(Chars) /\ Len(v) = m + 1 /\ v[m + 1] = c
      /\ \A k \in 1 .. m : v[k] = w[k]
  BY <1>1, AppendProperties
<1> HIDE DEF v, m
<1>3. Place(v, m) = Place(w, m) /\ Place(w, m) \in Nat
  BY <1>1, <1>2, PlaceSame, PlaceNat
<1>4. Place(v, m + 1) = Place(w, m) + (IF c = Quote THEN 2 ELSE 1)
  BY <1>1, <1>2, <1>3, PlaceNext
<1>5. /\ n = i + Place(v, m + 1) - 1 /\ n + 1 = i + Place(v, m + 1)
      /\ n \in Nat /\ i + Place(v, m + 1) <= Len(t) + 1
  <2>1. n = i + Place(w, m) + (IF c = Quote THEN 1 ELSE 0)
    BY DEF m
  <2> QED
    BY <1>3, <1>4, <2>1
<1>6. ASSUME NEW k \in 1 .. m + 1
      PROVE  /\ t[i + Place(v, k) - 1] = v[k]
             /\ v[k] = Quote => t[i + Place(v, k) - 2] = Quote
  <2>1. CASE k = m + 1
    <3>1. i + Place(v, k) - 1 = n /\ (c = Quote => i + Place(v, k) - 2 = n - 1)
      BY <1>3, <1>4, <1>5, <2>1
    <3> QED
      BY <1>2, <2>1, <3>1
  <2>2. CASE k \in 1 .. m
    <3>a. k \in Nat /\ \A j \in 1 .. k : v[j] = w[j]
      BY <1>1, <1>2, <2>2
    <3>1. Place(v, k) = Place(w, k)
      BY <3>a, PlaceSame
    <3>2. /\ t[i + Place(w, k) - 1] = w[k]
          /\ w[k] = Quote => t[i + Place(w, k) - 2] = Quote
      BY <2>2 DEF Twice, m
    <3> QED
      BY <1>2, <2>2, <3>1, <3>2
  <2> QED
    BY <1>1, <2>1, <2>2
<1>7. Twice(t, i, v)
  BY <1>2, <1>5, <1>6 DEF Twice
<1> QED
  BY <1>2, <1>5, <1>7 DEF v

LEMMA StringStep ==
  ASSUME IInv, NEW c \in Chars, string_proc(c)
  PROVE  LexInv'
<1> DEFINE p == pcurrent_char
<1>0. /\ c \in Symbols /\ Reads(c) /\ automaton = "A_string"
      /\ scaner = "Main" /\ c # Nul
  BY DEF Symbols, string_proc, In
<1>1. /\ scaner \in Both /\ counted = FALSE /\ outside = FALSE
      /\ pc = "reading" /\ From \in Nat \ {0}
      /\ text' \in Seq(Symbols) /\ Len(text') \in Nat
      /\ p \in 1 .. Len(text') /\ p \in Nat /\ text'[p] = c
  BY <1>0, Place_of
<1>2. PICK b \in From .. Len(text') :
        /\ b \in 1 .. Len(text') /\ First(text', From, b) /\ Progress(text', b)
  BY <1>0, Underway
<1>3. StringRead(text', b) /\ text'[b] = Quote
  BY <1>0, <1>2, Automaton DEF StringRead
<1>4. /\ scaner' = scaner /\ lexem_begin' = lexem_begin
      /\ automaton' = automaton /\ counted' = counted /\ outside' = outside
  BY DEF string_proc, Keeps
<1>a. b + 1 \in Nat \ {0} /\ b \in Nat
  BY <1>2
<1>b. Initial # String_body /\ Initial # End_string /\ String_body # End_string
  BY DEF Initial, String_body, End_string
<1>5. CASE state = Initial
  <2>1. /\ p' = p + 1 /\ pc' = "reading" /\ state' = String_body
        /\ buffer' = buffer
    BY <1>1, <1>5, <1>b DEF string_proc, More
  <2>2. p = b /\ buffer = <<>>
    BY <1>3, <1>5, <1>b DEF StringRead
  <2>3. Len(buffer) = 0 /\ Place(buffer, Len(buffer)) = 0
    BY <2>2, PlaceFirst
  <2>4. Twice(text', b + 1, buffer)
    BY <1>1, <1>2, <2>2, <2>3 DEF Twice
  <2>5. StringRead(text, b)'
    BY <1>0, <1>1, <1>3, <1>4, <2>1, <2>2, <2>3, <2>4 DEF StringRead
  <2> QED
    BY <1>1, <1>2, <1>4, <2>1, <2>5, GoesOn DEF Progress
<1>6. CASE state = String_body
  <2>1. Twice(text', b + 1, buffer) /\ p = b + 1 + Place(buffer, Len(buffer))
    BY <1>3, <1>6, <1>b DEF StringRead
  <2>a. Place(buffer, Len(buffer)) \in Nat
    <3>1. Len(buffer) \in Nat
      BY <2>1 DEF Twice
    <3> QED
      BY <3>1, PlaceNat
  <2>2. CASE c = Quote
    <3>1. /\ p' = p + 1 /\ pc' = "reading" /\ state' = End_string
          /\ buffer' = buffer
      BY <1>1, <1>6, <1>b, <2>2 DEF string_proc, More
    <3>2. p' = b + 2 + Place(buffer, Len(buffer)) /\ p' - 1 = p
      BY <1>1, <1>a, <2>1, <2>a, <3>1
    <3>3. StringRead(text, b)'
      BY <1>0, <1>1, <1>3, <1>4, <2>1, <2>2, <3>1, <3>2 DEF StringRead
    <3> QED
      BY <1>1, <1>2, <1>4, <3>1, <3>3, GoesOn DEF Progress
  <2>3. CASE c # Quote
    <3>1. /\ p' = p + 1 /\ pc' = "reading" /\ state' = String_body
          /\ buffer' = Append(buffer, c)
      BY <1>1, <1>6, <1>b, <2>3 DEF string_proc, More
    <3>2. p = (b + 1) + Place(buffer, Len(buffer))
              + (IF c = Quote THEN 1 ELSE 0)
      BY <1>1, <1>a, <2>1, <2>3, <2>a
    <3>3. /\ Twice(text', b + 1, buffer')
          /\ p' = b + 1 + Place(buffer', Len(buffer'))
      BY <1>1, <1>a, <2>1, <2>3, <3>1, <3>2, TwiceGrows
    <3>4. StringRead(text, b)'
      BY <1>0, <1>3, <1>4, <3>1, <3>3 DEF StringRead
    <3> QED
      BY <1>1, <1>2, <1>4, <3>1, <3>4, GoesOn DEF Progress
  <2> QED
    BY <2>2, <2>3
<1>7. CASE state = End_string
  <2>1. /\ Twice(text', b + 1, buffer) /\ text'[p - 1] = Quote
        /\ p = b + 2 + Place(buffer, Len(buffer))
    BY <1>3, <1>7, <1>b DEF StringRead
  <2>a. Place(buffer, Len(buffer)) \in Nat
    <3>1. Len(buffer) \in Nat
      BY <2>1 DEF Twice
    <3> QED
      BY <3>1, PlaceNat
  <2>2. CASE c = Quote
    <3>1. /\ p' = p + 1 /\ pc' = "reading" /\ state' = String_body
          /\ buffer' = Append(buffer, c)
      BY <1>1, <1>7, <1>b, <2>2 DEF string_proc, More
    <3>2. p = (b + 1) + Place(buffer, Len(buffer))
              + (IF c = Quote THEN 1 ELSE 0)
      BY <1>1, <1>a, <2>1, <2>2, <2>a
    <3>3. /\ Twice(text', b + 1, buffer')
          /\ p' = b + 1 + Place(buffer', Len(buffer'))
      BY <1>1, <1>a, <2>1, <2>2, <3>1, <3>2, TwiceGrows
    <3>4. StringRead(text, b)'
      BY <1>0, <1>3, <1>4, <3>1, <3>3 DEF StringRead
    <3> QED
      BY <1>1, <1>2, <1>4, <3>1, <3>4, GoesOn DEF Progress
  <2>3. CASE c # Quote
    <3>1. p' = p /\ pc' = "over" /\ token' = Token("String", buffer)
      BY <1>7, <1>b, <2>3 DEF string_proc, Ends_before
    <3>2. token'.val = buffer
      BY <3>1 DEF Token
    <3>3. Literal(text', b, token', p', 0)
      BY <1>1, <1>3, <2>1, <2>3, <3>1, <3>2 DEF Literal
    <3>4. Lexem(text', scaner, b, token', p', 0)
      BY <1>0, <3>3 DEF Lexem
    <3> QED
      BY <1>1, <1>2, <1>4, <3>1, <3>4, LexemOver, Silent
  <2> QED
    BY <2>2, <2>3
<1> QED
  BY <1>5, <1>6, <1>7 DEF string_proc

-----------------------------------------------------------------------------
(* The first character of a lexeme, and the spaces before it.              *)

(* No lexeme is begun: only spaces are read.                               *)
LEMMA BlankStart ==
  ASSUME IInv, NEW c \in Symbols, Reads(c), automaton = "A_start"
  PROVE  /\ state = Initial /\ token = None /\ buffer = <<>>
         /\ Blank(text', From, pcurrent_char)
<1>1. TypeOK /\ Ended /\ LexInv /\ pc = "reading" /\ Started(text)
  BY DEF IInv, LexInv, Reads
<1>2. /\ Extends(text, text') /\ From \in Nat \ {0}
      /\ pcurrent_char \in 1 .. Len(text) + 1
  BY <1>1, CharacterRead, Place_of DEF TypeOK
<1>3. /\ state = Initial /\ token = None /\ buffer = <<>>
      /\ Blank(text, From, pcurrent_char)
  BY <1>1, Automaton DEF Started
<1> QED
  BY <1>2, <1>3, BlankStays

LEMMA SkipStep ==
  ASSUME IInv, NEW c \in Chars, Skips(c)
  PROVE  LexInv'
<1> DEFINE p == pcurrent_char
<1>0. c \in Symbols /\ Reads(c) /\ automaton = "A_start" /\ c \in Spaces
  BY DEF Symbols, Skips
<1>1. /\ scaner \in Both /\ counted = FALSE /\ outside = FALSE
      /\ pc = "reading" /\ From \in Nat \ {0}
      /\ text' \in Seq(Symbols) /\ Len(text') \in Nat
      /\ p \in 1 .. Len(text') /\ p \in Nat /\ text'[p] = c
  BY <1>0, Place_of
<1>2. /\ p' = p + 1 /\ pc' = "reading" /\ From' = From /\ scaner' = scaner
      /\ automaton' = automaton /\ state' = state /\ token' = token
      /\ buffer' = buffer /\ counted' = FALSE /\ outside' = FALSE
  BY <1>1 DEF Skips, More, autVars, begVars, From
<1>3. /\ state = Initial /\ token = None /\ buffer = <<>>
      /\ Blank(text', From, p)
  BY <1>0, BlankStart
<1>4. \A k \in From .. p + 1 - 1 : k \in From .. p - 1 \/ k = p
  BY <1>1
<1>5. From <= p + 1 /\ \A k \in From .. p + 1 - 1 : text'[k] \in Spaces
  BY <1>0, <1>1, <1>3, <1>4 DEF Blank
<1>6. Blank(text', From', p')
  BY <1>1, <1>2, <1>5 DEF Blank
<1>7. token' = None /\ None = None'
  BY <1>2, <1>3 DEF None, Token
<1>8. Started(text)'
  BY <1>0, <1>2, <1>3, <1>6, <1>7 DEF Started
<1> QED
  BY <1>1, <1>2, <1>8 DEF LexInv

(* The first character is known now.                                       *)
LEMMA FirstFound ==
  ASSUME IInv, NEW c \in Chars, Reads(c), automaton = "A_start", c \notin Spaces
  PROVE  /\ pcurrent_char \in From .. Len(text')
         /\ First(text', From, pcurrent_char)
<1>0. c \in Symbols /\ c # Nul
  BY ScanersAssumption DEF Symbols
<1>1. Blank(text', From, pcurrent_char)
  BY <1>0, BlankStart
<1>2. /\ pcurrent_char \in 1 .. Len(text') /\ text'[pcurrent_char] = c
      /\ From \in Nat \ {0}
  BY <1>0, Place_of
<1> QED
  BY <1>0, <1>1, <1>2 DEF First, Blank

LEMMA StartMainStep ==
  ASSUME IInv, NEW c \in Chars, start_main(c)
  PROVE  LexInv'
<1> DEFINE p == pcurrent_char
<1>0. /\ c \in Symbols /\ Reads(c) /\ automaton = "A_start"
      /\ scaner = "Main" /\ c \notin Spaces
  BY DEF Symbols, start_main, In
<1>1. /\ scaner \in Both /\ counted = FALSE /\ outside = FALSE
      /\ pc = "reading" /\ From \in Nat \ {0}
      /\ text' \in Seq(Symbols) /\ Len(text') \in Nat
      /\ p \in 1 .. Len(text') /\ p \in Nat /\ text'[p] = c
  BY <1>0, Place_of
<1>2. PICK b \in From .. Len(text') : b = p /\ First(text', From, b)
  BY <1>0, FirstFound
<1>3. state = Initial /\ buffer = <<>>
  BY <1>0, BlankStart
<1>4. /\ scaner' = scaner /\ lexem_begin' = lexem_begin /\ state' = Initial
      /\ counted' = FALSE /\ outside' = FALSE /\ pc' = "reading"
  BY <1>1, <1>3 DEF start_main, Begins, More, Same
<1>a. b \in 1 .. Len(text') /\ b \in Nat /\ text'[b] = c
  BY <1>1, <1>2
<1>5. CASE c = "%" /\ Begins("A_keyword", Token("Unknown", <<>>)) /\ More
  <2>1. /\ automaton' = "A_keyword" /\ token' = Token("Unknown", <<>>)
        /\ p' = b + 1
    BY <1>2, <1>5 DEF Begins, More
  <2>2. KeywordRead(text, b)'
    BY <1>0, <1>4, <1>5, <1>a, <2>1 DEF KeywordRead
  <2> QED
    BY <1>1, <1>2, <1>4, <2>2, GoesOn DEF Progress
<1>6. CASE /\ c \in Letters /\ Begins("A_id", Token("Id", <<>>)) /\ More
           /\ buffer' = <<c>>
  <2>1. automaton' = "A_id" /\ token' = Token("Id", <<>>) /\ p' = b + 1
    BY <1>2, <1>6 DEF Begins, More
  <2>2. Name(text', b, b + 1) /\ SubSeq(text', b, b + 1 - 1) = <<c>>
    BY <1>1, <1>6, <1>a, NameStarts
  <2>3. IdRead(text, b)'
    BY <1>0, <1>4, <1>6, <1>a, <2>1, <2>2 DEF IdRead
  <2> QED
    BY <1>1, <1>2, <1>4, <2>3, GoesOn DEF Progress
<1>7. CASE /\ c \in Delimiters["Main"]
           /\ Begins("A_delimiter", Token("Unknown", <<>>)) /\ Same
  <2>1. automaton' = "A_delimiter" /\ p' = b
    BY <1>2, <1>7 DEF Begins, Same
  <2>2. DelimiterRead(text, b)'
    BY <1>0, <1>1, <1>4, <1>7, <1>a, <2>1 DEF DelimiterRead
  <2> QED
    BY <1>1, <1>2, <1>4, <2>2, GoesOn DEF Progress
<1>8. CASE /\ c = Quote /\ Begins("A_string", Token("String", <<>>)) /\ Same
           /\ buffer' = <<>>
  <2>1. automaton' = "A_string" /\ p' = b
    BY <1>2, <1>8 DEF Begins, Same
  <2>2. StringRead(text, b)'
    BY <1>0, <1>4, <1>8, <1>a, <2>1 DEF StringRead
  <2> QED
    BY <1>1, <1>2, <1>4, <2>2, GoesOn DEF Progress
<1>9. CASE /\ c \in Other \cup (Body \ Letters)
           /\ Begins("A_unknown", Token("Unknown", <<>>)) /\ More
  <2>1. /\ automaton' = "A_unknown" /\ token' = Token("Unknown", <<>>)
        /\ p' = b + 1
    BY <1>2, <1>9 DEF Begins, More
  <2>2. c \in Other \cup {"0"}
    BY <1>9, MainKinds
  <2>3. \A k \in b + 1 .. p' - 1 : text'[k] \in Other
    BY <1>a, <2>1
  <2>4. p' > b
    BY <1>a, <2>1
  <2>5. UnknownRead(text, b)'
    BY <1>0, <1>4, <1>a, <2>1, <2>2, <2>3, <2>4 DEF UnknownRead
  <2> QED
    BY <1>1, <1>2, <1>4, <2>5, GoesOn DEF Progress
<1> QED
  BY <1>5, <1>6, <1>7, <1>8, <1>9 DEF start_main

LEMMA StartExprStep ==
  ASSUME IInv, NEW c \in Chars, start_expr(c)
  PROVE  LexInv'
<1> DEFINE p == pcurrent_char
<1>0. /\ c \in Symbols /\ Reads(c) /\ automaton = "A_start"
      /\ scaner = "Expr" /\ c \notin Spaces
  BY DEF Symbols, start_expr, In
<1>1. /\ scaner \in Both /\ counted = FALSE /\ outside = FALSE
      /\ pc = "reading" /\ From \in Nat \ {0}
      /\ text' \in Seq(Symbols) /\ Len(text') \in Nat
      /\ p \in 1 .. Len(text') /\ p \in Nat /\ text'[p] = c
  BY <1>0, Place_of
<1>2. PICK b \in From .. Len(text') : b = p /\ First(text', From, b)
  BY <1>0, FirstFound
<1>3. state = Initial /\ buffer = <<>>
  BY <1>0, BlankStart
<1>4. /\ scaner' = scaner /\ lexem_begin' = lexem_begin /\ state' = Initial
      /\ counted' = FALSE /\ counted' = counted
      /\ outside' = FALSE /\ buffer' = <<>>
  BY <1>1, <1>3 DEF start_expr, Begins
<1>a. b \in 1 .. Len(text') /\ b \in Nat /\ text'[b] = c
  BY <1>1, <1>2
<1>5. CASE /\ c \in Delimiters["Expr"]
           /\ Begins("A_delimiter", Token("UnknownLexem", <<>>)) /\ Same
  <2>1. automaton' = "A_delimiter" /\ p' = b /\ pc' = "reading"
    BY <1>1, <1>2, <1>5 DEF Begins, Same
  <2>2. DelimiterRead(text, b)'
    BY <1>0, <1>1, <1>4, <1>5, <1>a, <2>1 DEF DelimiterRead
  <2> QED
    BY <1>1, <1>2, <1>4, <2>1, <2>2, GoesOn DEF Progress
<1>6. CASE c = "$" /\ Begins("A_action", Token("Action", <<>>)) /\ More
  <2>1. /\ automaton' = "A_action" /\ token' = Token("Action", <<>>)
        /\ p' = b + 1 /\ pc' = "reading"
    BY <1>1, <1>2, <1>6 DEF Begins, More
  <2>2. ActionRead(text, b)'
    BY <1>0, <1>4, <1>6, <1>a, <2>1 DEF ActionRead
  <2> QED
    BY <1>1, <1>2, <1>4, <2>1, <2>2, GoesOn DEF Progress
<1>7. CASE c = "[" /\ Begins("A_class", Token("Character", <<c>>)) /\ More
  <2>1. /\ automaton' = "A_class" /\ token' = Token("Character", <<"[">>)
        /\ p' = b + 1 /\ pc' = "reading"
    BY <1>1, <1>2, <1>7 DEF Begins, More
  <2>2. ClassRead(text, b)'
    BY <1>0, <1>4, <1>7, <1>a, <2>1 DEF ClassRead
  <2> QED
    BY <1>1, <1>2, <1>4, <2>1, <2>2, GoesOn DEF Progress
<1>8. CASE c = "\\" /\ Begins("A_char", Token("Character", <<>>)) /\ More
  <2>1. automaton' = "A_char" /\ p' = b + 1 /\ pc' = "reading"
    BY <1>1, <1>2, <1>8 DEF Begins, More
  <2>2. CharRead(text, b)'
    BY <1>0, <1>4, <1>8, <1>a, <2>1 DEF CharRead
  <2> QED
    BY <1>1, <1>2, <1>4, <2>1, <2>2, GoesOn DEF Progress
<1>9. CASE /\ c \notin Delimiters["Expr"] \cup {"$", "[", "\\"}
           /\ Begins("A_start", Token("Character", <<c>>)) /\ Ends_with
  <2>1. /\ token' = Token("Character", <<c>>)
        /\ p' = b + 1 /\ pc' = "over"
    BY <1>2, <1>9 DEF Begins, Ends_with
  <2>2. Plain(text', b, token', p', 0)
    BY <1>9, <1>a, <2>1 DEF Plain
  <2>3. Lexem(text', scaner, b, token', p', 0)
    BY <1>0, <2>2 DEF Lexem
  <2> QED
    BY <1>1, <1>2, <1>4, <2>1, <2>3, LexemOver, Silent
<1> QED
  BY <1>5, <1>6, <1>7, <1>8, <1>9 DEF start_expr

-----------------------------------------------------------------------------
(* The end of the text.                                                    *)

LEMMA NulApart ==
  /\ Nul \notin Body /\ Nul \notin Letters /\ Nul \notin Other
  /\ Nul # Quote /\ Nul # ":" /\ Nul \notin After_backslash
  /\ \A words \in {Keywords, Names} : \A st \in Seq(Symbols) :
       ~IsRow(words, Append(st, Nul))
<1>1. /\ Nul \notin Body /\ Nul \notin Letters
      /\ Nul # Quote /\ Nul # ":" /\ Nul \notin After_backslash
  BY Solid
<1>2. Nul \notin Other
  BY OtherSolid
<1>3. Nul \in Symbols
  BY DEF Symbols
<1> QED
  BY <1>1, <1>2, <1>3, RowSolid

(* The final procedure of an automaton with a table of words.              *)
LEMMA WordEnds ==
  ASSUME NEW words \in {Keywords, Names}, NEW code, NEW tokens,
         NEW t \in Seq(Symbols), NEW i \in Nat \ {0}, NEW n \in Nat,
         i < n, n <= Len(t), t[n] = Nul, state = SubSeq(t, i, n - 1),
         IsRow(words, state), Final_table(words, code, tokens),
         NEW errs, errs = IF state \in words THEN 0 ELSE 1
  PROVE  /\ Word(t, words, code, i, token', n, errs) /\ errs = Errors'
         /\ outside' = outside
<1>1. /\ token' = Completed(words, code, state)
      /\ counted' = ~Row(words, state).whole /\ outside' = outside
  BY DEF Final_table
<1>2. n <= Len(t) + 1 /\ state \in Seq(Symbols)
  BY RowRead
<1>3. ~IsRow(words, Append(state, t[n]))
  BY <1>2, NulApart
<1>4. Word(t, words, code, i, Completed(words, code, state), n, errs)
  BY <1>3, WordOver
<1> QED
  BY <1>1, <1>4, RowErrors

LEMMA FinalStep ==
  ASSUME IInv, finals
  PROVE  LexInv'
<1> DEFINE p == pcurrent_char
<1>0. Nul \in Symbols /\ Reads(Nul) /\ Final_proc
  BY DEF Symbols, finals
<1>1. /\ scaner \in Both /\ counted = FALSE /\ outside = FALSE
      /\ pc = "reading" /\ From \in Nat \ {0}
      /\ text' \in Seq(Symbols) /\ Len(text') \in Nat
      /\ p \in 1 .. Len(text') /\ p \in Nat /\ text'[p] = Nul
  BY <1>0, Place_of
<1>2. /\ scaner' = scaner /\ lexem_begin' = lexem_begin /\ p' = p
      /\ pc' = "over" /\ From' = From /\ p' <= Len(text')
  BY <1>1 DEF finals, Keeps, Ends_before, From
<1>3. CASE automaton = "A_start"
  <2>1. token' = token /\ counted' = counted /\ outside' = outside
    BY <1>0, <1>3 DEF Final_proc
  <2>2. token = None /\ Blank(text', From, p)
    BY <1>0, <1>3, BlankStart
  <2>3. Meets(text', scaner, From, token', p', 0)
    BY <1>1, <1>2, <2>1, <2>2 DEF Meets
  <2> QED
    BY <1>1, <1>2, <2>1, <2>3, IsOver, Silent
<1>4. CASE automaton # "A_start"
  <2>1. PICK b \in From .. Len(text') :
          b \in 1 .. Len(text') /\ First(text', From, b) /\ Progress(text', b)
    BY <1>0, <1>4, Underway
  <2>a. /\ b \in Nat /\ b + 1 \in Nat \ {0} /\ b + 2 \in Nat \ {0}
        /\ text'[b] # Nul
    BY <2>1 DEF First
  <2>2. CASE automaton = "A_unknown"
    <3>1. token' = token /\ counted' = counted /\ outside' = outside
      BY <1>0, <2>2 DEF Final_proc
    <3>2. UnknownRead(text', b)
      BY <2>1, <2>2, Automaton
    <3>3. p' \in b + 1 .. Len(text')
      BY <1>1, <1>2, <2>a, <3>2 DEF UnknownRead
    <3>4. Unknown(text', b, token', p', 0)
      BY <1>1, <1>2, <3>1, <3>2, <3>3, NulApart DEF Unknown, UnknownRead
    <3>5. Lexem(text', scaner, b, token', p', 0)
      BY <3>2, <3>4 DEF Lexem, UnknownRead
    <3> QED
      BY <1>1, <1>2, <2>1, <3>1, <3>5, LexemOver, Silent
  <2>3. CASE automaton = "A_id"
    <3>1. /\ token' = Token(token.code, buffer)
          /\ counted' = counted /\ outside' = outside
      BY <1>0, <2>3 DEF Final_proc
    <3>2. IdRead(text', b)
      BY <2>1, <2>3, Automaton
    <3>3. token.code = "Id"
      BY <3>2 DEF IdRead, Token
    <3>4. Id(text', b, token', p', 0)
      BY <1>1, <1>2, <3>1, <3>2, <3>3, NulApart DEF Id, IdRead
    <3>5. Lexem(text', scaner, b, token', p', 0)
      BY <3>2, <3>4 DEF Lexem, IdRead
    <3> QED
      BY <1>1, <1>2, <2>1, <3>1, <3>5, LexemOver, Silent
  <2>4. CASE automaton = "A_action"
    <3>1. /\ token' = Token(token.code, buffer)
          /\ counted' = counted /\ outside' = outside
      BY <1>0, <2>4 DEF Final_proc
    <3>2. ActionRead(text', b) /\ text'[b] = "$" /\ scaner = "Expr"
      BY <2>1, <2>4, Automaton DEF ActionRead
    <3>3. token.code = "Action"
      BY <3>2 DEF ActionRead, Token
    <3>4. Action(text', b, token', p', 0)
      <4>1. CASE state = Initial /\ p = b + 1 /\ buffer = <<>>
        BY <1>1, <1>2, <3>1, <3>2, <3>3, <4>1, NulApart DEF Action
      <4>2. CASE Name(text', b + 1, p) /\ buffer = SubSeq(text', b + 1, p - 1)
        BY <1>1, <1>2, <3>1, <3>2, <3>3, <4>2, NulApart DEF Action
      <4> QED
        BY <3>2, <4>1, <4>2 DEF ActionRead
    <3>5. Lexem(text', scaner, b, token', p', 0)
      BY <3>2, <3>4 DEF Lexem
    <3> QED
      BY <1>1, <1>2, <2>1, <3>1, <3>5, LexemOver, Silent
  <2>5. CASE automaton = "A_string"
    <3>1. /\ token' = Token("String", buffer) /\ token'.val = buffer
          /\ counted' = (state # End_string) /\ outside' = outside
      BY <1>0, <2>5 DEF Final_proc, Token
    <3>2. StringRead(text', b) /\ text'[b] = Quote /\ scaner = "Main"
      BY <2>1, <2>5, Automaton DEF StringRead
    <3>3. CASE state = Initial /\ p = b
      BY <1>1, <2>a, <3>3
    <3>4. CASE /\ state = String_body /\ Twice(text', b + 1, buffer)
               /\ p = b + 1 + Place(buffer, Len(buffer))
      <4>1. counted' = TRUE
        BY <3>1, <3>4 DEF String_body, End_string
      <4>2. Literal(text', b, token', p', 1)
        BY <1>1, <1>2, <3>1, <3>2, <3>4 DEF Literal
      <4>3. Lexem(text', scaner, b, token', p', 1)
        BY <3>2, <4>2 DEF Lexem
      <4> QED
        BY <1>1, <1>2, <2>1, <3>1, <4>1, <4>3, LexemOver, Told
    <3>5. CASE /\ state = End_string /\ Twice(text', b + 1, buffer)
               /\ p = b + 2 + Place(buffer, Len(buffer))
               /\ text'[p - 1] = Quote
      <4>1. counted' = counted
        BY <1>1, <3>1, <3>5
      <4>2. Literal(text', b, token', p', 0)
        BY <1>1, <1>2, <3>1, <3>2, <3>5, NulApart DEF Literal
      <4>3. Lexem(text', scaner, b, token', p', 0)
        BY <3>2, <4>2 DEF Lexem
      <4> QED
        BY <1>1, <1>2, <2>1, <3>1, <4>1, <4>3, LexemOver, Silent
    <3> QED
      BY <3>2, <3>3, <3>4, <3>5 DEF StringRead
  <2>6. CASE automaton = "A_char"
    <3>1. /\ token' = Token("Character", <<"\\">>)
          /\ counted' = counted /\ outside' = outside
      BY <1>0, <2>6 DEF Final_proc
    <3>2. CharRead(text', b)
      BY <2>1, <2>6, Automaton
    <3>3. Escaped(text', b, token', p', 0)
      BY <1>1, <1>2, <3>1, <3>2, NulApart DEF Escaped, CharRead
    <3>4. Lexem(text', scaner, b, token', p', 0)
      BY <3>2, <3>3 DEF Lexem, CharRead
    <3> QED
      BY <1>1, <1>2, <2>1, <3>1, <3>4, LexemOver, Silent
  <2>7. CASE automaton = "A_keyword"
    <3>1. PICK tokens : Final_table(Keywords, "Kw", tokens)
      BY <1>0, <2>7 DEF Final_proc
    <3>2. KeywordRead(text', b) /\ text'[b] = "%" /\ scaner = "Main"
      BY <2>1, <2>7, Automaton DEF KeywordRead
    <3>3. CASE IsRow(Keywords, state)
      <4> DEFINE e == IF state \in Keywords THEN 0 ELSE 1
      <4>1. b + 1 < p /\ p <= Len(text') /\ state = SubSeq(text', b + 1, p - 1)
        BY <1>1, <2>a, <3>2, <3>3 DEF KeywordRead, IsRow
      <4>2. /\ Word(text', Keywords, "Kw", b + 1, token', p, e)
            /\ e = Errors' /\ outside' = outside
        BY <1>1, <2>a, <3>1, <3>3, <4>1, WordEnds
      <4> HIDE DEF e
      <4>3. Lexem(text', scaner, b, token', p', e)
        BY <1>2, <3>2, <4>2 DEF Lexem, Keyword
      <4> QED
        BY <1>1, <1>2, <2>1, <4>2, <4>3, LexemOver
    <3>4. CASE ~IsRow(Keywords, state)
      <4>1. outside' = TRUE /\ p = b + 1
        BY <3>1, <3>2, <3>4 DEF Final_table, Read_outside, KeywordRead
      <4>2. ReadOutside'
        BY <1>1, <1>2, <2>1, <3>2, <4>1 DEF ReadOutside, Ahead
      <4> QED
        BY <1>1, <1>2, <4>1, <4>2 DEF LexInv
    <3> QED
      BY <3>3, <3>4
  <2>8. CASE automaton = "A_class"
    <3>1. PICK tokens : Final_table(Names, "Class", tokens)
      BY <1>0, <2>8 DEF Final_proc
    <3>2. ClassRead(text', b) /\ text'[b] = "[" /\ scaner = "Expr"
      BY <2>1, <2>8, Automaton DEF ClassRead
    <3>3. CASE IsRow(Names, state)
      <4> DEFINE e == IF state \in Names THEN 0 ELSE 1
      <4>a. state # Initial
        BY <3>3 DEF IsRow
      <4>b. state # Colon_read
        <5>1. Colon_read \in Seq(Symbols) \/ state # Colon_read
          <6>1. state = Colon_read => text'[b + 1] = ":" /\ p = b + 2
            BY <3>2, <4>a DEF ClassRead
          <6>2. b + 1 \in 1 .. Len(text') \/ state # Colon_read
            BY <1>1, <2>a, <6>1
          <6>3. state = Colon_read => ":" \in Symbols
            BY <1>1, <6>1, <6>2, ElementOfSeq
          <6> QED
            BY <6>3 DEF Colon_read
        <5> QED
          BY <3>3, <5>1, NamesApart
      <4>1. /\ b + 2 < p /\ p <= Len(text') /\ text'[b + 1] = ":"
            /\ state = SubSeq(text', b + 2, p - 1)
        BY <1>1, <2>a, <3>2, <4>a, <4>b DEF ClassRead
      <4>2. /\ Word(text', Names, "Class", b + 2, token', p, e)
            /\ e = Errors' /\ outside' = outside
        BY <1>1, <2>a, <3>1, <3>3, <4>1, WordEnds
      <4> HIDE DEF e
      <4>3. Class(text', b, token', p', e)
        BY <1>2, <3>2, <4>1, <4>2 DEF Class
      <4>4. Lexem(text', scaner, b, token', p', e)
        BY <3>2, <4>3 DEF Lexem
      <4> QED
        BY <1>1, <1>2, <2>1, <4>2, <4>4, LexemOver
    <3>4. CASE ~IsRow(Names, state)
      <4>1. outside' = TRUE
        BY <3>1, <3>4 DEF Final_table, Read_outside
      <4>2. p = b + 1 \/ (p = b + 2 /\ text'[b + 1] = ":")
        BY <3>2, <3>4 DEF ClassRead
      <4>3. ReadOutside'
        BY <1>1, <1>2, <2>1, <3>2, <4>2 DEF ReadOutside, Ahead
      <4> QED
        BY <1>1, <1>2, <4>1, <4>3 DEF LexInv
    <3> QED
      BY <3>3, <3>4
  <2> QED
    BY <1>0, <1>4, <2>2, <2>3, <2>4, <2>5, <2>6, <2>7, <2>8 DEF Final_proc
<1> QED
  BY <1>3, <1>4

-----------------------------------------------------------------------------
(* Between two lexemes.                                                    *)

LEMMA CallStep ==
  ASSUME IInv, NEW s \in Both, current_lexem(s)
  PROVE  TypeOK' /\ Ended' /\ LexInv'
<1>1. TypeOK /\ Ended
  BY DEF IInv
<1>2. /\ pc' = "reading" /\ scaner' = s /\ automaton' = "A_start"
      /\ state' = Initial /\ token' = None /\ buffer' = <<>>
      /\ counted' = FALSE /\ outside' = FALSE
      /\ lexem_begin' = [lexem_begin EXCEPT ![s] = pcurrent_char]
      /\ text' = text /\ pcurrent_char' = pcurrent_char
      /\ current_line' = current_line /\ lexem_begin_line' = lexem_begin_line
  BY DEF current_lexem, locVars
<1>3. Ended'
  BY <1>1, <1>2 DEF Ended
<1>4. lexem_begin' \in [Both -> 1 .. Len(text') + 1]
  BY <1>1, <1>2 DEF TypeOK
<1>5. TypeOK'
  BY <1>1, <1>2, <1>4 DEF TypeOK
<1>6. From' = pcurrent_char
  BY <1>1, <1>2 DEF From, TypeOK
<1>7. Blank(text, From, pcurrent_char)'
  BY <1>1, <1>2, <1>6 DEF Blank, TypeOK
<1>8. None = None'
  BY DEF None, Token
<1>9. Started(text)'
  BY <1>2, <1>7, <1>8 DEF Started
<1> QED
  BY <1>2, <1>3, <1>5, <1>9 DEF LexInv

(* A lexeme has a character at least.                                      *)
LEMMA LexemLong ==
  ASSUME NEW t \in Seq(Symbols), NEW s, NEW b \in 1 .. Len(t),
         NEW tok, NEW n \in Nat, NEW errs, Lexem(t, s, b, tok, n, errs)
  PROVE  b < n
<1>1. Id(t, b, tok, n, errs) => b < n
  BY DEF Id, Name
<1>2. Keyword(t, b, tok, n, errs) => b < n
  BY DEF Keyword, Word
<1>3. Unknown(t, b, tok, n, errs) => b < n
  BY DEF Unknown
<1>4. Action(t, b, tok, n, errs) => b < n
  BY DEF Action, Name
<1>5. Class(t, b, tok, n, errs) => b < n
  BY DEF Class, Word
<1>6. Escaped(t, b, tok, n, errs) => b < n
  BY DEF Escaped
<1>7. Plain(t, b, tok, n, errs) => b < n
  BY DEF Plain
<1>8. Delimiter(t, s, b, tok, n, errs) => b < n
  BY DEF Delimiter
<1>9. ASSUME Literal(t, b, tok, n, errs) PROVE b < n
  <2>1. Twice(t, b + 1, tok.val)
    BY <1>9 DEF Literal
  <2>2. Len(tok.val) \in Nat
    BY <2>1 DEF Twice
  <2>3. Place(tok.val, Len(tok.val)) \in Nat
    BY <2>2, PlaceNat
  <2> QED
    BY <1>9, <2>3 DEF Literal
<1> QED
  BY <1>1, <1>2, <1>3, <1>4, <1>5, <1>6, <1>7, <1>8, <1>9 DEF Lexem

LEMMA FromBefore ==
  ASSUME TypeOK, LexInv, pc = "over", scaner \in Both
  PROVE  From <= pcurrent_char
<1>1. /\ text \in Seq(Symbols) /\ From \in Nat \ {0} /\ pcurrent_char \in Nat
      /\ Len(text) \in Nat
  BY DEF TypeOK, From, Symbols
<1>2. CASE outside
  <2>1. ReadOutside
    BY <1>2 DEF LexInv
  <2> QED
    BY <1>1, <2>1 DEF ReadOutside
<1>3. CASE ~outside
  <2>1. Meets(text, scaner, From, token, pcurrent_char, Errors)
    BY <1>3 DEF LexInv
  <2>2. CASE Blank(text, From, pcurrent_char)
    BY <2>2 DEF Blank
  <2>3. CASE \E b \in From .. Len(text) :
               Lexem(text, scaner, b, token, pcurrent_char, Errors)
    <3>1. PICK b \in From .. Len(text) :
                 Lexem(text, scaner, b, token, pcurrent_char, Errors)
      BY <2>3
    <3>2. b \in 1 .. Len(text)
      BY <1>1
    <3>3. b < pcurrent_char
      BY <1>1, <3>1, <3>2, LexemLong
    <3> QED
      BY <1>1, <3>2, <3>3
  <2> QED
    BY <2>1, <2>2, <2>3 DEF Meets
<1> QED
  BY <1>2, <1>3

LEMMA BackStep ==
  ASSUME IInv, back
  PROVE  TypeOK' /\ Ended' /\ LexInv'
<1>1. TypeOK /\ Ended
  BY DEF IInv
<1>2. /\ pc' = "back" /\ scaner' = scaner /\ scaner \in Both
      /\ pcurrent_char' = lexem_begin[scaner]
      /\ current_line' = lexem_begin_line[scaner]
      /\ text' = text /\ counted' = counted /\ outside' = outside
      /\ lexem_begin' = lexem_begin /\ lexem_begin_line' = lexem_begin_line
  BY DEF back, autVars, begVars
<1>3. Ended'
  BY <1>1, <1>2 DEF Ended
<1>4. pcurrent_char' \in 1 .. Len(text') + 1 /\ current_line' \in Nat
  BY <1>1, <1>2 DEF TypeOK
<1>5. From \in Nat \ {0} /\ From = pcurrent_char'
  BY <1>1, <1>2 DEF From, TypeOK
<1>a. From <= pcurrent_char /\ pcurrent_char \in Nat
  BY <1>1, <1>2, FromBefore DEF IInv, TypeOK, back
<1>c. pcurrent_char' \in Nat /\ pcurrent_char' <= pcurrent_char
  BY <1>5, <1>a
<1>d. \A m, n \in Nat : m <= n => 1 .. m - 1 \subseteq 1 .. n - 1
  OBVIOUS
<1>b. 1 .. pcurrent_char' - 1 \subseteq 1 .. pcurrent_char - 1
  BY <1>a, <1>c, <1>d
<1>6. \A k \in 1 .. pcurrent_char' - 1 : text'[k] # Nul
  BY <1>1, <1>2, <1>b DEF TypeOK
<1> QED
  BY <1>1, <1>2, <1>3, <1>4, <1>6 DEF TypeOK, LexInv

-----------------------------------------------------------------------------
(* The invariant, on every text.                                           *)

LEMMA InitInv == Init => IInv
<1> SUFFICES ASSUME Init PROVE IInv
  OBVIOUS
<1>1. Len(text) = 0 /\ text \in Seq(Chars \cup {Nul}) /\ MaxText \in Nat
  BY ScanersAssumption DEF Init
<1>2. TypeOK
  <2>1. /\ pcurrent_char \in 1 .. Len(text) + 1 /\ Len(text) <= MaxText + 1
        /\ \A k \in 1 .. pcurrent_char - 1 : text[k] # Nul
    BY <1>1 DEF Init
  <2>2. /\ lexem_begin \in [Both -> 1 .. Len(text) + 1]
        /\ lexem_begin_line \in [Both -> Nat]
    BY <1>1 DEF Init
  <2> QED
    BY <1>1, <2>1, <2>2 DEF Init, TypeOK
<1>3. Ended
  BY <1>1 DEF Ended
<1>4. LexInv
  BY Zenon DEF Init, LexInv, Both
<1> QED
  BY <1>2, <1>3, <1>4 DEF IInv

(* What a step of an automaton leaves to the types.                        *)
LEMMA ProcTypes ==
  ASSUME IInv, NEW c \in Symbols, Reads(c),
         \/ pcurrent_char' = pcurrent_char
         \/ pcurrent_char' = pcurrent_char + 1 /\ c # Nul,
         current_line' \in Nat, pc' \in {"reading", "over"},
         scaner' = scaner, lexem_begin' = lexem_begin,
         lexem_begin_line' \in [Both -> Nat],
         counted' \in BOOLEAN, outside' \in BOOLEAN
  PROVE  TypeOK' /\ Ended'
BY TypeStep DEF IInv

LEMMA Keeping ==
  ASSUME IInv, NEW c \in Symbols, Reads(c), Keeps,
         \/ pcurrent_char' = pcurrent_char
         \/ pcurrent_char' = pcurrent_char + 1 /\ c # Nul,
         pc' \in {"reading", "over"},
         counted' \in BOOLEAN, outside' \in BOOLEAN
  PROVE  TypeOK' /\ Ended'
<1>1. /\ scaner' = scaner /\ lexem_begin' = lexem_begin
      /\ current_line' \in Nat /\ lexem_begin_line' \in [Both -> Nat]
  BY DEF Keeps, IInv, TypeOK
<1> QED
  BY <1>1, ProcTypes

LEMMA Flags ==
  ASSUME IInv
  PROVE  counted \in BOOLEAN /\ outside \in BOOLEAN
BY DEF IInv, TypeOK

LEMMA ProcStep ==
  ASSUME IInv, NEW c \in Chars, Proc(c)
  PROVE  IInv'
<1>0. c \in Symbols /\ c # Nul /\ counted \in BOOLEAN /\ outside \in BOOLEAN
  BY ScanersAssumption, Flags DEF Symbols
<1>a. Reads(c) /\ pc = "reading"
  BY DEF Proc, Skips, start_main, start_expr, unknown_proc, id_proc,
         action_begin, keyword_proc, classes_proc, delimiter_proc, char_proc,
         string_proc, Reads
<1>1. CASE Skips(c)
  <2>1. /\ pcurrent_char' = pcurrent_char + 1 /\ pc' = pc /\ scaner' = scaner
        /\ lexem_begin' = lexem_begin /\ lexem_begin_line' = lexem_begin_line
        /\ counted' = counted /\ outside' = outside
    BY <1>1 DEF Skips, More, autVars, begVars
  <2>2. current_line' \in Nat /\ lexem_begin_line' \in [Both -> Nat]
    BY <1>1, <2>1 DEF Skips, IInv, TypeOK
  <2>3. TypeOK' /\ Ended'
    BY <1>0, <1>a, <2>1, <2>2, ProcTypes
  <2> QED
    BY <1>1, <2>3, SkipStep DEF IInv
<1>2. CASE start_main(c) \/ start_expr(c)
  <2>1. PICK a, tok : Begins(a, tok)
    BY <1>2 DEF start_main, start_expr
  <2>2. /\ scaner' = scaner /\ lexem_begin' = lexem_begin
        /\ counted' = counted /\ outside' = outside
        /\ current_line' \in Nat /\ lexem_begin_line' \in [Both -> Nat]
    BY <2>1 DEF Begins, IInv, TypeOK
  <2>3. /\ pcurrent_char' = pcurrent_char \/ pcurrent_char' = pcurrent_char + 1
        /\ pc' \in {"reading", "over"}
    BY <1>2, <1>a DEF start_main, start_expr, More, Same, Ends_with
  <2>4. TypeOK' /\ Ended'
    BY <1>0, <1>a, <2>2, <2>3, ProcTypes
  <2> QED
    BY <1>2, <2>4, StartMainStep, StartExprStep DEF IInv
<1>3. CASE \/ unknown_proc(c) \/ id_proc(c) \/ action_begin(c)
           \/ delimiter_proc(c) \/ char_proc(c) \/ string_proc(c)
  <2>1. Keeps /\ counted' \in BOOLEAN /\ outside' \in BOOLEAN
    BY <1>0, <1>3 DEF unknown_proc, id_proc, action_begin, delimiter_proc,
                      char_proc, string_proc
  <2>2. /\ pcurrent_char' = pcurrent_char \/ pcurrent_char' = pcurrent_char + 1
        /\ pc' \in {"reading", "over"}
    BY <1>3, <1>a DEF unknown_proc, id_proc, action_begin, delimiter_proc,
                      char_proc, string_proc, More, Ends_with, Ends_before
  <2>3. TypeOK' /\ Ended'
    BY <1>0, <1>a, <2>1, <2>2, Keeping
  <2> QED
    BY <1>3, <2>3, UnknownStep, IdStep, ActionStep, DelimiterStep, CharStep,
       StringStep DEF IInv
<1>4. CASE keyword_proc(c) \/ classes_proc(c)
  <2>1. Keeps /\ counted' \in BOOLEAN /\ outside' \in BOOLEAN
    BY <1>0, <1>4 DEF keyword_proc, classes_proc, Enters_table, Follows_table
  <2>2. /\ pcurrent_char' = pcurrent_char \/ pcurrent_char' = pcurrent_char + 1
        /\ pc' \in {"reading", "over"}
    BY <1>4, <1>a DEF keyword_proc, classes_proc, Enters_table, Follows_table,
                      More, Ends_before
  <2>3. TypeOK' /\ Ended'
    BY <1>0, <1>a, <2>1, <2>2, Keeping
  <2> QED
    BY <1>4, <2>3, KeywordStep, ClassStep DEF IInv
<1> QED
  BY <1>1, <1>2, <1>3, <1>4 DEF Proc

LEMMA Step ==
  ASSUME IInv, Next
  PROVE  IInv'
<1>1. ASSUME NEW s \in Both, current_lexem(s) PROVE IInv'
  BY <1>1, CallStep DEF IInv
<1>2. CASE back
  BY <1>2, BackStep DEF IInv
<1>3. CASE finals
  <2>1. Nul \in Symbols /\ Reads(Nul)
    BY <1>3 DEF finals, Symbols
  <2>2. counted' \in BOOLEAN /\ outside' \in BOOLEAN
    BY <1>3, Flags DEF finals, Final_proc, Final_table, Read_outside
  <2>3. Keeps /\ pcurrent_char' = pcurrent_char /\ pc' = "over"
    BY <1>3 DEF finals, Ends_before
  <2>4. TypeOK' /\ Ended'
    BY <2>1, <2>2, <2>3, Keeping
  <2> QED
    BY <1>3, <2>4, FinalStep DEF IInv
<1> QED
  BY <1>1, <1>2, <1>3, ProcStep DEF Next

LEMMA Stutter ==
  ASSUME IInv, UNCHANGED vars
  PROVE  IInv'
<1>1. TypeOK' /\ Ended'
  BY DEF IInv, TypeOK, Ended, vars, locVars, begVars, autVars
<1>2. /\ From' = From /\ Errors' = Errors
  BY DEF From, Errors, vars, locVars, begVars, autVars
<1>3. /\ Started(text)' <=> Started(text)
      /\ ReadOutside' <=> ReadOutside
  BY <1>2 DEF vars, locVars, begVars, autVars, Started, ReadOutside, Ahead,
              Progress, IdRead, ActionRead, KeywordRead, ClassRead,
              DelimiterRead, CharRead, UnknownRead, StringRead, None, Token
<1>4. LexInv'
  BY <1>2, <1>3 DEF IInv, LexInv, vars, locVars, begVars, autVars
<1> QED
  BY <1>1, <1>4 DEF IInv

(* What each automaton has read, and what the lexeme is that is over.      *)
THEOREM Invariant == Spec => []IInv
<1>1. IInv /\ [Next]_vars => IInv'
  BY Step, Stutter
<1> QED
  BY InitInv, <1>1, PTL DEF Spec

(* The types of both scanners; the end of the text is never passed.        *)
THEOREM TypeCorrect == Spec => []TypeOK
<1>1. IInv => TypeOK
  BY DEF IInv
<1> QED
  BY Invariant, <1>1, PTL

-----------------------------------------------------------------------------
(* The number of the line.                                                 *)

LEMMA LineStep ==
  ASSUME IInv, LineInv, Next
  PROVE  LineInv'
<1>1. ASSUME NEW s \in Both, current_lexem(s) PROVE LineInv'
  BY <1>1 DEF current_lexem, LineInv, InLexem
<1>2. CASE back
  BY <1>2 DEF back, LineInv, InLexem
<1>3. ASSUME Keeps, pc = "reading", automaton # "A_start" PROVE LineInv'
  BY <1>3 DEF Keeps, LineInv, InLexem
<1>4. CASE finals
  <2>1. Keeps /\ pc = "reading" /\ Reads(Nul) /\ pc' = "over"
    BY <1>4 DEF finals, Reads, Ends_before
  <2>2. CASE automaton = "A_start"
    <3>1. token' = token
      BY <1>4, <2>2 DEF finals, Final_proc
    <3>2. token = None
      BY <2>1, <2>2, BlankStart DEF Symbols
    <3> QED
      BY <2>1, <3>1, <3>2 DEF LineInv, InLexem, None, Token
  <2> QED
    BY <1>3, <2>1, <2>2
<1>5. ASSUME NEW c \in Chars, Proc(c) PROVE LineInv'
  <2>1. CASE Skips(c)
    BY <2>1 DEF Skips, Reads, More, autVars, LineInv, InLexem
  <2>2. CASE start_main(c) \/ start_expr(c)
    <3>1. PICK a, tok : Begins(a, tok)
      BY <2>2 DEF start_main, start_expr
    <3>2. scaner \in Both /\ lexem_begin_line \in [Both -> Nat]
      BY <2>2 DEF start_main, start_expr, In, IInv, TypeOK, Both
    <3> QED
      BY <3>1, <3>2 DEF Begins, LineInv
  <2>3. CASE \/ unknown_proc(c) \/ id_proc(c) \/ action_begin(c)
             \/ delimiter_proc(c) \/ char_proc(c) \/ string_proc(c)
    BY <1>3, <2>3 DEF unknown_proc, id_proc, action_begin, delimiter_proc,
                      char_proc, string_proc, Reads, In
  <2>4. CASE keyword_proc(c) \/ classes_proc(c)
    BY <1>3, <2>4 DEF keyword_proc, classes_proc, Enters_table, Follows_table,
                      Reads, In
  <2> QED
    BY <1>5, <2>1, <2>2, <2>3, <2>4 DEF Proc
<1> QED
  BY <1>1, <1>2, <1>4, <1>5 DEF Next

LEMMA LineAlways == Spec => [](IInv /\ LineInv)
<1>1. Init => LineInv
  BY DEF Init, LineInv, InLexem, Both
<1>2. LineInv /\ UNCHANGED vars => LineInv'
  BY DEF LineInv, InLexem, vars, locVars, autVars, begVars
<1>3. IInv /\ LineInv /\ [Next]_vars => LineInv'
  BY <1>2, LineStep
<1> QED
  BY Invariant, <1>1, <1>3, PTL DEF Spec

(* The newlines of t before its place n.                                   *)
Before(t, n) == Cardinality({k \in 1 .. n - 1 : t[k] = "\n"})

LEMMA BeforeFinite ==
  ASSUME NEW t, NEW n \in Nat
  PROVE  /\ IsFiniteSet({k \in 1 .. n - 1 : t[k] = "\n"})
         /\ Before(t, n) \in Nat
<1>1. IsFiniteSet(1 .. n - 1)
  BY FS_Interval
<1>2. IsFiniteSet({k \in 1 .. n - 1 : t[k] = "\n"})
  BY <1>1, FS_Subset
<1> QED
  BY <1>2, FS_CardinalityType DEF Before

LEMMA BeforeStays ==
  ASSUME NEW t, NEW u, Extends(t, u), NEW n \in 1 .. Len(t) + 1
  PROVE  Before(u, n) = Before(t, n)
<1>1. \A k \in 1 .. n - 1 : u[k] = t[k]
  BY DEF Extends
<1>2. {k \in 1 .. n - 1 : u[k] = "\n"} = {k \in 1 .. n - 1 : t[k] = "\n"}
  BY <1>1
<1> QED
  BY <1>2 DEF Before

LEMMA BeforeNext ==
  ASSUME NEW t, NEW n \in Nat \ {0}
  PROVE  Before(t, n + 1) = Before(t, n) + (IF t[n] = "\n" THEN 1 ELSE 0)
<1> DEFINE B(m) == {k \in 1 .. m - 1 : t[k] = "\n"}
<1>0. IsFiniteSet(B(n)) /\ Cardinality(B(n)) \in Nat
  BY BeforeFinite DEF Before
<1>1. CASE t[n] = "\n"
  <2>1. B(n + 1) = B(n) \cup {n} /\ n \notin B(n)
    BY <1>1
  <2>2. Cardinality(B(n + 1)) = Cardinality(B(n)) + 1
    BY <1>0, <2>1, FS_AddElement
  <2> QED
    BY <1>1, <2>2 DEF Before
<1>2. CASE t[n] # "\n"
  <2>1. B(n + 1) = B(n)
    BY <1>2
  <2> HIDE DEF B
  <2>2. Cardinality(B(n + 1)) = Cardinality(B(n)) + 0
    BY <1>0, <2>1
  <2> QED
    BY <1>2, <2>2 DEF Before, B
<1> QED
  BY <1>1, <1>2

LEMMA Right ==
  /\ LineRight <=> current_line = 1 + Before(text, pcurrent_char)
  /\ LineRight' <=> current_line' = 1 + Before(text', pcurrent_char')
BY DEF LineRight, Newlines, Before

(* A character that is no newline does not matter.                         *)
LEMMA LineKept ==
  ASSUME TypeOK, Ended, NEW c \in Symbols, Reads(c), LineRight,
         current_line' = current_line,
         \/ pcurrent_char' = pcurrent_char
         \/ pcurrent_char' = pcurrent_char + 1 /\ c # "\n"
  PROVE  LineRight'
<1>1. /\ Extends(text, text') /\ text'[pcurrent_char] = c
      /\ pcurrent_char \in 1 .. Len(text) + 1 /\ pcurrent_char \in Nat \ {0}
      /\ Len(text) \in Nat
  BY CharacterRead DEF TypeOK, Extends
<1>2. Before(text', pcurrent_char) = Before(text, pcurrent_char)
  BY <1>1, BeforeStays
<1>3. Before(text, pcurrent_char) \in Nat
  BY <1>1, BeforeFinite
<1>4. current_line = 1 + Before(text, pcurrent_char)
  BY Right
<1>5. CASE pcurrent_char' = pcurrent_char
  BY <1>2, <1>4, <1>5, Right
<1>6. CASE pcurrent_char' = pcurrent_char + 1 /\ c # "\n"
  <2>1. Before(text', pcurrent_char + 1) = Before(text', pcurrent_char) + 0
    BY <1>1, <1>6, BeforeNext
  <2>2. current_line' = 1 + Before(text', pcurrent_char')
    BY <1>2, <1>3, <1>4, <1>6, <2>1
  <2> QED
    BY <2>2, Right
<1> QED
  BY <1>5, <1>6

LEMMA LineSkipped ==
  ASSUME TypeOK, Ended, NEW c \in Chars, Skips(c), LineRight
  PROVE  LineRight'
<1>0. c \in Symbols /\ Reads(c)
  BY DEF Symbols, Skips
<1>1. /\ Extends(text, text') /\ text'[pcurrent_char] = c
      /\ pcurrent_char \in 1 .. Len(text) + 1 /\ pcurrent_char \in Nat \ {0}
      /\ Len(text) \in Nat
  BY <1>0, CharacterRead DEF TypeOK, Extends
<1>2. Before(text', pcurrent_char) = Before(text, pcurrent_char)
  BY <1>1, BeforeStays
<1>3. Before(text, pcurrent_char) \in Nat
  BY <1>1, BeforeFinite
<1>4. current_line = 1 + Before(text, pcurrent_char)
  BY Right
<1>5. Before(text', pcurrent_char + 1)
      = Before(text', pcurrent_char) + (IF c = "\n" THEN 1 ELSE 0)
  BY <1>1, BeforeNext
<1>6. /\ pcurrent_char' = pcurrent_char + 1
      /\ current_line' = current_line + (IF c = "\n" THEN 1 ELSE 0)
  BY DEF Skips, More
<1>7. current_line' = 1 + Before(text', pcurrent_char')
  BY <1>2, <1>3, <1>4, <1>5, <1>6
<1> QED
  BY <1>7, Right

LEMMA LineBack ==
  ASSUME TypeOK, LexInv, LineInv, back, LineRight, token.code # "None",
         ~(Newlines(lexem_begin[scaner], pcurrent_char - 1) > 0)
  PROVE  LineRight'
<1>1. /\ current_line = lexem_begin_line[scaner] /\ text' = text
      /\ current_line' = current_line /\ pcurrent_char' = From
      /\ scaner \in Both /\ pc = "over"
  BY DEF back, LineInv, InLexem, From
<1>2. /\ From <= pcurrent_char /\ pcurrent_char \in Nat \ {0}
      /\ From \in Nat \ {0}
  BY <1>1, FromBefore DEF TypeOK, From
<1> DEFINE B == {k \in From .. pcurrent_char - 1 : text[k] = "\n"}
           A == {k \in 1 .. pcurrent_char - 1 : text[k] = "\n"}
<1>a. pcurrent_char \in Nat
  BY <1>2
<1>b. IsFiniteSet(A)
  BY <1>a, BeforeFinite
<1>3. B \subseteq A /\ IsFiniteSet(A)
  BY <1>2, <1>b
<1>4. IsFiniteSet(B)
  BY <1>3, FS_Subset
<1>5. Cardinality(B) \in Nat /\ ~(Cardinality(B) > 0)
  BY <1>4, FS_CardinalityType DEF Newlines, From
<1>6. B = {}
  BY <1>4, <1>5, FS_EmptySet
<1>7. A = {k \in 1 .. From - 1 : text[k] = "\n"}
  BY <1>2, <1>6
<1>8. Before(text, pcurrent_char) = Before(text, From)
  BY <1>7 DEF Before
<1> QED
  BY <1>1, <1>8, Right

(* A newline ends a lexeme, unless it is in a literal.                     *)
LEMMA NewlineApart ==
  /\ "\n" \notin Body \cup Letters /\ "\n" \notin Other
  /\ "\n" \notin Delimiters["Main"] /\ "\n" \notin Delimiters["Expr"]
  /\ "\n" \in Spaces /\ "\n" \notin After_backslash /\ "\n" # ":"
<1>1. "\n" \in Spaces /\ "\n" \in Spaces \cup {Nul}
  BY Zenon DEF Spaces
<1>2. /\ "\n" \notin Body \cup Letters
      /\ "\n" \notin Delimiters["Main"] /\ "\n" \notin Delimiters["Expr"]
      /\ "\n" \notin After_backslash
  BY <1>1, Solid
<1>3. "\n" \notin Other
  BY <1>1, OtherSolid
<1> QED
  BY <1>1, <1>2, <1>3

LEMMA RowAdvance ==
  ASSUME NEW words \in {Keywords, Names}, NEW code, NEW c \in Symbols,
         \/ Enters_table(words, code, c)
         \/ Follows_table(words, code, c) /\ state \in Seq(Symbols)
  PROVE  /\ current_line' = current_line
         /\ \/ pcurrent_char' = pcurrent_char
            \/ pcurrent_char' = pcurrent_char + 1 /\ c # "\n"
<1>1. CASE Enters_table(words, code, c)
  <2>1. c \in First_chars(words) => c # "\n"
    BY FirstRow, NewlineApart
  <2> QED
    BY <1>1, <2>1 DEF Enters_table, Keeps, More, Ends_before
<1>2. CASE Follows_table(words, code, c) /\ state \in Seq(Symbols)
  <2>1. ASSUME c \in Row(words, state).symbols PROVE c # "\n"
    <3>1. IsRow(words, Append(state, c))
      BY <2>1, RowParts
    <3> QED
      BY <1>2, <3>1, RowSolid, NewlineApart
  <2> QED
    BY <1>2, <2>1 DEF Follows_table, Keeps, More, Ends_before
<1> QED
  BY <1>1, <1>2

(* What is read in the tables of words is text.                            *)
LEMMA StateTyped ==
  ASSUME IInv, NEW c \in Symbols, Reads(c),
         automaton = "A_keyword" \/ (automaton = "A_class" /\ state # Colon_read)
  PROVE  state \in Seq(Symbols)
<1> DEFINE p == pcurrent_char
<1>1. /\ text' \in Seq(Symbols) /\ Len(text') \in Nat
      /\ p \in 1 .. Len(text') /\ p \in Nat
  BY Place_of
<1>2. PICK b \in From .. Len(text') :
        b \in 1 .. Len(text') /\ Progress(text', b)
  BY Underway
<1>a. b + 1 \in Nat \ {0} /\ b + 2 \in Nat \ {0} /\ p <= Len(text') + 1
  BY <1>1, <1>2
<1>3. Initial \in Seq(Symbols)
  BY DEF Initial
<1>4. CASE automaton = "A_keyword"
  <2>1. \/ state = Initial
        \/ p > b + 1 /\ state = SubSeq(text', b + 1, p - 1)
    BY <1>2, <1>4, Automaton DEF KeywordRead
  <2> QED
    BY <1>1, <1>3, <1>a, <2>1, RowRead
<1>5. CASE automaton = "A_class" /\ state # Colon_read
  <2>1. \/ state = Initial
        \/ p > b + 2 /\ state = SubSeq(text', b + 2, p - 1)
    BY <1>2, <1>5, Automaton DEF ClassRead
  <2> QED
    BY <1>1, <1>3, <1>a, <2>1, RowRead
<1> QED
  BY <1>4, <1>5

LEMMA ProcLine ==
  ASSUME IInv, NEW c \in Chars, Proc(c), LineRight
  PROVE  \/ LineRight'
         \/ automaton = "A_string" /\ text'[pcurrent_char] = "\n"
<1>0. c \in Symbols /\ TypeOK /\ Ended
  BY DEF Symbols, IInv
<1>a. Reads(c)
  BY DEF Proc, Skips, start_main, start_expr, unknown_proc, id_proc,
         action_begin, keyword_proc, classes_proc, delimiter_proc, char_proc,
         string_proc
<1>b. SUFFICES ASSUME ~Skips(c)
               PROVE  /\ current_line' = current_line
                      /\ \/ pcurrent_char' = pcurrent_char
                         \/ /\ pcurrent_char' = pcurrent_char + 1
                            /\ c # "\n" \/ automaton = "A_string"
  <2>1. text'[pcurrent_char] = c
    BY <1>0, <1>a, CharacterRead
  <2> QED
    BY <1>0, <1>a, <2>1, LineKept, LineSkipped
<1>1. CASE start_main(c) \/ start_expr(c)
  <2>1. c # "\n"
    BY <1>1, NewlineApart DEF start_main, start_expr
  <2>2. current_line' = current_line
    BY <1>1 DEF start_main, start_expr, Begins
  <2> QED
    BY <1>1, <2>1, <2>2 DEF start_main, start_expr, More, Same, Ends_with
<1>2. CASE unknown_proc(c) \/ id_proc(c)
  BY <1>2, NewlineApart DEF unknown_proc, id_proc, Keeps, More, Ends_before
<1>3. CASE action_begin(c)
  BY <1>3, NewlineApart DEF action_begin, Keeps, More, Ends_before
<1>4. CASE char_proc(c)
  BY <1>4, NewlineApart DEF char_proc, Keeps, Ends_with, Ends_before
<1>5. CASE string_proc(c)
  BY <1>5 DEF string_proc, Keeps, More, Ends_before, In
<1>6. CASE delimiter_proc(c)
  <2>1. automaton = "A_delimiter"
    BY <1>6 DEF delimiter_proc
  <2>2. PICK b \in From .. Len(text') : Progress(text', b)
    BY <1>0, <1>a, <2>1, Underway
  <2>3. /\ scaner \in Both /\ text'[pcurrent_char] \in Delimiters[scaner]
    BY <2>1, <2>2, Automaton DEF DelimiterRead
  <2>4. c # "\n"
    BY <1>0, <1>a, <2>3, CharacterRead, NewlineApart DEF Both
  <2> QED
    BY <1>6, <2>4 DEF delimiter_proc, Keeps, Ends_with
<1>7. CASE keyword_proc(c)
  <2>1. state \in Seq(Symbols)
    BY <1>0, <1>7, <1>a, StateTyped DEF keyword_proc, In
  <2> QED
    BY <1>0, <1>7, <2>1, RowAdvance DEF keyword_proc
<1>8. CASE classes_proc(c)
  <2>1. CASE state = Initial
    BY <1>8, <2>1, NewlineApart, ColonApart DEF classes_proc, Keeps, More,
                                                 Ends_before
  <2>2. CASE state = Colon_read
    BY <1>0, <1>8, <2>2, RowAdvance, ColonApart DEF classes_proc
  <2>3. CASE state \notin {Initial, Colon_read}
    <3>1. state \in Seq(Symbols)
      BY <1>0, <1>8, <1>a, <2>3, StateTyped DEF classes_proc, In
    <3> QED
      BY <1>0, <1>8, <2>3, <3>1, RowAdvance DEF classes_proc
  <2> QED
    BY <2>1, <2>2, <2>3
<1> QED
  BY <1>b, <1>1, <1>2, <1>3, <1>4, <1>5, <1>6, <1>7, <1>8 DEF Proc

(* On every text, the number of the line stays right but where a literal   *)
(* has a newline, where what is given back has one, or where the end of    *)
(* the text is given back (Location, Scaner::back).                        *)
THEOREM LinesAlwaysCounted == Spec => LinesCounted
<1> DEFINE Kept == LineRight =>
       \/ LineRight'
       \/ automaton = "A_string" /\ text'[pcurrent_char] = "\n"
       \/ pc' = "back" /\ (token.code = "None"
                           \/ Newlines(lexem_begin[scaner], pcurrent_char - 1) > 0)
<1>1. ASSUME IInv, LineInv, Next, LineRight PROVE Kept
  <2>1. ASSUME NEW s \in Both, current_lexem(s) PROVE LineRight'
    BY <1>1, <2>1, Right DEF current_lexem, locVars
  <2>2. CASE \E c \in Chars : Proc(c)
    BY <1>1, <2>2, ProcLine
  <2>3. CASE finals
    <3>1. /\ Nul \in Symbols /\ Reads(Nul) /\ current_line' = current_line
          /\ pcurrent_char' = pcurrent_char
      BY <2>3 DEF finals, Keeps, Ends_before, Symbols
    <3>2. LineRight'
      BY <1>1, <3>1, LineKept DEF IInv
    <3> QED
      BY <3>2
  <2>4. CASE back
    <3>1. pc' = "back"
      BY <2>4 DEF back
    <3> QED
      BY <1>1, <2>4, <3>1, LineBack DEF IInv
  <2> QED
    BY <1>1, <2>1, <2>2, <2>3, <2>4 DEF Next
<1>2. ASSUME UNCHANGED vars, LineRight PROVE LineRight'
  BY <1>2, Right DEF vars, locVars
<1>3. IInv /\ LineInv /\ [Next]_vars => [Kept]_vars
  BY <1>1, <1>2
<1> QED
  BY LineAlways, <1>3, PTL DEF Spec, LinesCounted

-----------------------------------------------------------------------------
(* What the lexemes are that are over.                                     *)

LEMMA BeginIs ==
  ASSUME NEW b \in From .. Len(text), text[b] \notin Spaces,
         From \in Nat \ {0}, Len(text) \in Nat,
         \A k \in From .. b - 1 : text[k] \in Spaces
  PROVE  Begin = b
<1> DEFINE P(x) == /\ text[x] \notin Spaces
                   /\ \A k \in From .. x - 1 : text[k] \in Spaces
<1>1. ASSUME NEW x \in From .. Len(text), P(x) PROVE x = b
  <2>1. x < b => x \in From .. b - 1
    OBVIOUS
  <2>2. b < x => b \in From .. x - 1
    OBVIOUS
  <2> QED
    BY <1>1, <2>1, <2>2
<1>2. P(b)
  OBVIOUS
<1> HIDE DEF P
<1>3. (CHOOSE x \in From .. Len(text) : P(x)) = b
  BY <1>1, <1>2
<1> QED
  BY <1>3 DEF P, Begin, From

(* What is spelled, character by character.                                *)
LEMMA SpelledIs ==
  ASSUME TypeOK, Begin \in 1 .. Len(text), Begin <= pcurrent_char
  PROVE  /\ Spelled \in Seq(Symbols) /\ Len(Spelled) = pcurrent_char - Begin
         /\ \A k \in 1 .. pcurrent_char - Begin :
              Spelled[k] = text[Begin + k - 1]
         /\ Len(text) \in Nat /\ Begin \in Nat /\ pcurrent_char \in Nat
         /\ pcurrent_char <= Len(text) + 1
<1>1. /\ text \in Seq(Symbols) /\ Len(text) \in Nat
      /\ pcurrent_char \in 1 .. Len(text) + 1
      /\ Begin \in Nat \ {0} /\ pcurrent_char - 1 \in Nat
      /\ Begin <= (pcurrent_char - 1) + 1 /\ pcurrent_char - 1 <= Len(text)
  BY DEF TypeOK, Symbols
<1> DEFINE j == pcurrent_char - 1
<1>2. /\ SubSeq(text, Begin, j) \in Seq(Symbols)
      /\ Len(SubSeq(text, Begin, j)) = j + 1 - Begin
      /\ \A k \in 1 .. j + 1 - Begin : SubSeq(text, Begin, j)[k] = text[Begin + k - 1]
  BY <1>1, Stretch
<1>3. j + 1 - Begin = pcurrent_char - Begin
  BY <1>1
<1> QED
  BY <1>1, <1>2, <1>3 DEF Spelled

LEMMA RowMeant ==
  ASSUME NEW words \in {Keywords, Names}, NEW st \in Seq(Symbols),
         IsRow(words, st)
  PROVE  /\ Row(words, st).meant \in words
         /\ IsPrefix(st, Row(words, st).meant)
         /\ st \in words <=> st = Row(words, st).meant
<1>1. Row(words, st).meant = IF st \in words THEN st
                             ELSE CHOOSE w \in words : IsPrefix(st, w)
  BY DEF Row
<1>2. \E w \in words : IsPrefix(st, w)
  BY DEF IsRow
<1>3. CASE st \in words
  <2>1. IsPrefix(st, st)
    BY PrefixIs
  <2> QED
    BY <1>1, <1>3, <2>1
<1>4. CASE st \notin words
  <2>1. LET w == CHOOSE w \in words : IsPrefix(st, w)
        IN w \in words /\ IsPrefix(st, w)
    BY <1>2
  <2> QED
    BY <1>1, <1>4, <2>1
<1> QED
  BY <1>3, <1>4

LEMMA TokenParts ==
  ASSUME NEW code, NEW val
  PROVE  Token(code, val).code = code /\ Token(code, val).val = val
BY DEF Token

LEMMA SpellsWord ==
  ASSUME TypeOK, Begin \in 1 .. Len(text), NEW words \in {Keywords, Names},
         NEW code, NEW lead \in Seq(Symbols), Len(lead) > 0,
         Word(text, words, code, Begin + Len(lead), token, pcurrent_char, Errors),
         \A k \in 1 .. Len(lead) : text[Begin + k - 1] = lead[k]
  PROVE  Spells_word(words, lead) /\ token.code = code
<1> DEFINE p == pcurrent_char
           b == Begin
           m == Len(lead)
           st == SubSeq(text, b + m, p - 1)
           read == SubSeq(Spelled, m + 1, Len(Spelled))
<1>1. /\ b \in Nat \ {0} /\ m \in Nat \ {0} /\ b + m \in Nat \ {0}
      /\ text \in Seq(Symbols) /\ Len(text) \in Nat /\ p \in Nat \ {0}
  BY DEF TypeOK, Symbols
<1>2. /\ b + m < p /\ p <= Len(text) /\ IsRow(words, st)
      /\ ~IsRow(words, SubSeq(text, b + m, p))
      /\ token = Completed(words, code, st)
      /\ Errors = IF st \in words THEN 0 ELSE 1
  BY DEF Word
<1>3. /\ Spelled \in Seq(Symbols) /\ Len(Spelled) = p - b
      /\ \A k \in 1 .. p - b : Spelled[k] = text[b + k - 1]
  BY <1>1, <1>2, SpelledIs
<1>4. IsPrefix(lead, Spelled)
  <2>1. \A k \in 1 .. m : lead[k] = Spelled[k]
    BY <1>1, <1>2, <1>3
  <2>2. m <= Len(Spelled)
    BY <1>1, <1>2, <1>3
  <2> QED
    BY <1>3, <2>1, <2>2, PrefixIs
<1>5. /\ st \in Seq(Symbols) /\ Len(st) = p - b - m
      /\ \A k \in 1 .. p - b - m : st[k] = text[b + m + k - 1]
  <2>1. p - 1 \in Nat /\ b + m <= (p - 1) + 1 /\ p - 1 <= Len(text)
        /\ (p - 1) + 1 - (b + m) = p - b - m
    BY <1>1, <1>2
  <2> HIDE DEF b, p, m
  <2> QED
    BY <1>1, <2>1, Stretch
<1>6. /\ read \in Seq(Symbols) /\ Len(read) = p - b - m
      /\ \A k \in 1 .. p - b - m : read[k] = Spelled[m + 1 + k - 1]
  <2>1. /\ m + 1 \in Nat \ {0} /\ Len(Spelled) \in Nat
        /\ m + 1 <= Len(Spelled) + 1 /\ Len(Spelled) <= Len(Spelled)
        /\ Len(Spelled) + 1 - (m + 1) = p - b - m
    BY <1>1, <1>2, <1>3
  <2> HIDE DEF b, p, m
  <2> QED
    BY <1>3, <2>1, Stretch, SMTT(30)
<1>7. read = st
  <2>1. \A k \in 1 .. p - b - m : /\ m + 1 + k - 1 \in 1 .. p - b
                                 /\ b + (m + 1 + k - 1) - 1 = b + m + k - 1
    BY <1>1, <1>2
  <2>2. \A k \in 1 .. p - b - m : read[k] = st[k]
    BY <1>3, <1>5, <1>6, <2>1
  <2> HIDE DEF read, st
  <2> QED
    BY <1>5, <1>6, <2>2, SeqEqual
<1> HIDE DEF read, st
<1>8. token.val = Row(words, st).meant /\ token.code = code
  BY <1>2, TokenParts DEF Completed
<1>9. read # <<>>
  <2>1. Len(read) > 0
    BY <1>1, <1>2, <1>6
  <2> QED
    BY <2>1
<1>10. /\ IsPrefix(read, token.val) /\ token.val \in words
       /\ st \in words <=> read = token.val
  BY <1>2, <1>5, <1>7, <1>8, RowMeant
<1>11. counted <=> read # token.val
  <2>1. counted <=> st \notin words
    BY <1>2 DEF Errors, TypeOK
  <2> QED
    BY <1>10, <2>1
<1>12. ~Begins_any(words, Append(read, Ahead))
  <2>1. SubSeq(text, b + m, p) = Append(st, Ahead)
    <3>1. b + m <= p /\ p \in Nat /\ p <= Len(text)
      BY <1>1, <1>2
    <3> HIDE DEF b, m
    <3>2. SubSeq(text, b + m, p) = Append(SubSeq(text, b + m, p - 1), text[p])
      BY <1>1, <3>1, StretchGrows
    <3> QED
      BY <3>2 DEF st, Ahead
  <2>a. Ahead \in Symbols
    BY <1>1, <1>2, ElementOfSeq DEF Ahead
  <2>2. Append(st, Ahead) # Initial
    BY <1>5, <2>a, AppendProperties DEF Initial
  <2>3. ~\E w \in words : IsPrefix(Append(st, Ahead), w)
    BY <1>2, <2>1, <2>2 DEF IsRow
  <2> QED
    BY <1>7, <2>3 DEF Begins_any
<1> QED
  BY <1>4, <1>8, <1>9, <1>10, <1>11, <1>12 DEF Spells_word, read

LEMMA NulSolid == Nul \notin Spaces
BY Zenon DEF Nul, Spaces

(* A lexeme that is over is none, or begins where it is said to begin.     *)
LEMMA OverAt ==
  ASSUME IInv, pc = "over", scaner \in Both, ~outside
  PROVE  \/ token = None /\ ~counted /\ Ahead = Nul /\ Spelled = <<>>
         \/ /\ Begin \in 1 .. Len(text) /\ Begin < pcurrent_char
            /\ text[Begin] \notin Spaces \cup {Nul}
            /\ Lexem(text, scaner, Begin, token, pcurrent_char, Errors)
<1> DEFINE n == pcurrent_char
<1>1. /\ TypeOK /\ text \in Seq(Symbols) /\ Len(text) \in Nat
      /\ n \in 1 .. Len(text) + 1 /\ From \in Nat \ {0} /\ counted \in BOOLEAN
  BY DEF IInv, TypeOK, Symbols, From
<1>2. Meets(text, scaner, From, token, n, Errors)
  BY DEF IInv, LexInv
<1>3. CASE /\ Blank(text, From, n) /\ n <= Len(text) /\ text[n] = Nul
           /\ token = None /\ Errors = 0
  <2>1. n \in From .. Len(text) /\ n \in Nat \ {0} /\ n - 1 \in Nat
    BY <1>1, <1>3 DEF Blank
  <2>2. text[n] \notin Spaces
    BY <1>3, NulSolid
  <2>3. \A k \in From .. n - 1 : text[k] \in Spaces
    BY <1>3 DEF Blank
  <2>4. Begin = n
    BY <1>1, <2>1, <2>2, <2>3, BeginIs
  <2>5. Spelled \in Seq(Symbols) /\ Len(Spelled) = n - n
    BY <1>1, <2>1, <2>4, SpelledIs
  <2>6. Spelled = <<>>
    BY <1>1, <2>5
  <2> QED
    BY <1>1, <1>3, <2>6 DEF Ahead, Errors
<1>4. CASE \E b \in From .. Len(text) :
             First(text, From, b) /\ Lexem(text, scaner, b, token, n, Errors)
  <2>1. PICK b \in From .. Len(text) :
             First(text, From, b) /\ Lexem(text, scaner, b, token, n, Errors)
    BY <1>4
  <2>2. /\ text[b] \notin Spaces \cup {Nul} /\ b \in 1 .. Len(text)
        /\ \A k \in From .. b - 1 : text[k] \in Spaces
    BY <1>1, <2>1 DEF First
  <2>3. Begin = b
    BY <1>1, <2>1, <2>2, BeginIs
  <2>4. b < n
    BY <1>1, <2>1, <2>2, LexemLong
  <2> QED
    BY <2>1, <2>2, <2>3, <2>4
<1> QED
  BY <1>2, <1>3, <1>4 DEF Meets

(* Names, after m characters of the lexeme.                                *)
LEMMA SpellsName ==
  ASSUME TypeOK, Begin \in 1 .. Len(text), NEW m \in {0, 1},
         Name(text, Begin + m, pcurrent_char), Ahead \notin Body, ~counted,
         token.val = SubSeq(text, Begin + m, pcurrent_char - 1),
         NEW s \in Seq(Symbols), Len(s) = pcurrent_char - Begin - m,
         \A k \in 1 .. Len(s) : s[k] = text[Begin + m + k - 1]
  PROVE  Spells_name(s, Letters)
<1> DEFINE p == pcurrent_char
           i == Begin + m
           st == SubSeq(text, i, p - 1)
<1>1. /\ text \in Seq(Symbols) /\ Len(text) \in Nat
      /\ i \in Nat \ {0} /\ p \in Nat /\ Begin \in Nat
  BY DEF TypeOK, Symbols
<1>2. i < p /\ p <= Len(text) + 1 /\ text[i] \in Letters
  BY DEF Name
<1>3. \A k \in i .. p - 1 : text[k] \in Body
  BY DEF Name
<1>4. Len(s) = p - i /\ Len(s) > 0
  BY <1>1, <1>2
<1>5. \A k \in 1 .. Len(s) : s[k] = text[i + k - 1]
  OBVIOUS
<1> HIDE DEF i, st
<1>6. /\ st \in Seq(Symbols) /\ Len(st) = p - i
      /\ \A k \in 1 .. p - i : st[k] = text[i + k - 1]
  <2>1. p - 1 \in Nat /\ i <= (p - 1) + 1 /\ p - 1 <= Len(text)
        /\ (p - 1) + 1 - i = p - i
    BY <1>1, <1>2
  <2> QED
    BY <1>1, <2>1, Stretch DEF st
<1>7. s = st
  <2>1. \A k \in 1 .. Len(s) : s[k] = st[k]
    BY <1>4, <1>5, <1>6
  <2> QED
    BY <1>4, <1>6, <2>1, SeqEqual
<1>8. token.val = s
  BY <1>7 DEF st, i
<1>9. s # <<>> /\ s[1] \in Letters
  <2>1. 1 \in 1 .. Len(s) /\ i + 1 - 1 = i
    BY <1>1, <1>4
  <2> QED
    BY <1>2, <1>4, <1>5, <2>1
<1>10. Range(s) \subseteq Body
  <2>1. \A k \in 1 .. Len(s) : i + k - 1 \in i .. p - 1
    BY <1>1, <1>4
  <2>2. \A k \in 1 .. Len(s) : s[k] \in Body
    BY <1>3, <1>5, <2>1
  <2>3. DOMAIN s = 1 .. Len(s)
    OBVIOUS
  <2> QED
    BY <2>2, <2>3 DEF Range
<1> QED
  BY <1>8, <1>9, <1>10 DEF Spells_name

(* Lexemes of one or two characters.                                       *)
LEMMA SpelledShort ==
  ASSUME TypeOK, Begin \in 1 .. Len(text)
  PROVE  /\ pcurrent_char = Begin + 1 => /\ Spelled = <<text[Begin]>>
                                         /\ Len(Spelled) = 1
                                         /\ Spelled[1] = text[Begin]
         /\ pcurrent_char = Begin + 2 =>
              /\ Spelled = <<text[Begin], text[Begin + 1]>>
              /\ Len(Spelled) = 2 /\ Spelled[1] = text[Begin]
              /\ Spelled[2] = text[Begin + 1]
<1>1. /\ text \in Seq(Symbols) /\ Len(text) \in Nat /\ Begin \in Nat
      /\ pcurrent_char <= Len(text) + 1
  BY DEF TypeOK, Symbols
<1>2. CASE pcurrent_char = Begin + 1
  <2>1. SubSeq(text, Begin, Begin) = <<text[Begin]>>
    BY <1>1, StretchOne
  <2>2. pcurrent_char - 1 = Begin
    BY <1>1, <1>2
  <2>3. Spelled = <<text[Begin]>>
    BY <2>1, <2>2 DEF Spelled
  <2> QED
    BY <1>1, <1>2, <2>3
<1>3. CASE pcurrent_char = Begin + 2
  <2>1. /\ Spelled \in Seq(Symbols) /\ Len(Spelled) = pcurrent_char - Begin
        /\ \A k \in 1 .. pcurrent_char - Begin :
              Spelled[k] = text[Begin + k - 1]
    BY <1>1, <1>3, SpelledIs
  <2>2. pcurrent_char - Begin = 2 /\ Begin + 1 - 1 = Begin /\ Begin + 2 - 1 = Begin + 1
        /\ 1 \in 1 .. 2 /\ 2 \in 1 .. 2
    BY <1>1, <1>3
  <2>3. Len(Spelled) = 2
    BY <2>1, <2>2
  <2>4. Spelled[1] = text[Begin]
    BY <2>1, <2>2
  <2>5. Spelled[2] = text[Begin + 1]
    BY <2>1, <2>2
  <2> HIDE DEF Spelled
  <2>6. Spelled = <<text[Begin], text[Begin + 1]>>
    <3> DEFINE u == <<text[Begin], text[Begin + 1]>>
    <3>1. Begin + 1 \in 1 .. Len(text)
      BY <1>1, <1>3
    <3>2. text[Begin] \in Symbols /\ text[Begin + 1] \in Symbols
      BY <1>1, <3>1, ElementOfSeq
    <3>3. u \in Seq(Symbols) /\ Len(u) = 2 /\ u[1] = text[Begin] /\ u[2] = text[Begin + 1]
      BY <3>2
    <3>4. \A k \in 1 .. 2 : k = 1 \/ k = 2
      OBVIOUS
    <3> HIDE DEF u
    <3>5. \A k \in 1 .. 2 : Spelled[k] = u[k]
      BY <2>4, <2>5, <3>3, <3>4
    <3>6. Spelled = u
      BY <2>1, <2>3, <3>3, <3>5, SeqEqual
    <3> QED
      BY <3>6 DEF u
  <2> QED
    BY <1>1, <1>3, <2>3, <2>4, <2>5, <2>6
<1> QED
  BY <1>1, <1>2, <1>3

LEMMA NoErrors ==
  ASSUME TypeOK
  PROVE  /\ Errors = 0 <=> ~counted
         /\ Errors = 1 <=> counted
BY DEF TypeOK, Errors

LEMMA IdReads ==
  ASSUME TypeOK, Begin \in 1 .. Len(text), Begin < pcurrent_char,
         Id(text, Begin, token, pcurrent_char, Errors)
  PROVE  token.code = "Id" /\ Spells_name(Spelled, Letters)
<1>1. /\ Name(text, Begin, pcurrent_char) /\ Ahead \notin Body /\ ~counted
      /\ token.code = "Id"
      /\ token.val = SubSeq(text, Begin, pcurrent_char - 1)
  BY TokenParts, NoErrors DEF Id, Ahead
<1>2. Begin + 0 = Begin /\ pcurrent_char - Begin - 0 = pcurrent_char - Begin
  BY DEF TypeOK
<1>3. /\ Spelled \in Seq(Symbols) /\ Len(Spelled) = pcurrent_char - Begin
      /\ \A k \in 1 .. pcurrent_char - Begin :
           Spelled[k] = text[Begin + k - 1]
  BY SpelledIs DEF TypeOK
<1>4. \A k \in 1 .. Len(Spelled) : Spelled[k] = text[Begin + 0 + k - 1]
  BY <1>2, <1>3
<1> HIDE DEF Spelled
<1>5. Spells_name(Spelled, Letters)
  BY <1>1, <1>2, <1>3, <1>4, SpellsName
<1> QED
  BY <1>1, <1>5

LEMMA KeywordReads ==
  ASSUME TypeOK, Begin \in 1 .. Len(text), Begin < pcurrent_char,
         Keyword(text, Begin, token, pcurrent_char, Errors)
  PROVE  \/ token.code = "Kw" /\ Spells_word(Keywords, <<"%">>)
         \/ /\ token.code = "Unknown" /\ Spelled = <<"%">>
            /\ Ahead \notin First_chars(Keywords) /\ counted
<1>0. text[Begin] = "%" /\ Begin \in Nat /\ text \in Seq(Symbols) /\ Len(text) \in Nat
  BY DEF Keyword, TypeOK, Symbols
<1>1. CASE Word(text, Keywords, "Kw", Begin + 1, token, pcurrent_char, Errors)
  <2>1. text[Begin] \in Symbols
    BY <1>0, ElementOfSeq
  <2>a. PICK lead : lead = <<"%">>
    OBVIOUS
  <2>2. lead \in Seq(Symbols) /\ Len(lead) = 1 /\ lead[1] = "%"
    BY <1>0, <2>1, <2>a
  <2>3. \A k \in 1 .. Len(lead) : text[Begin + k - 1] = lead[k]
    BY <1>0, <2>2
  <2>4. Word(text, Keywords, "Kw", Begin + Len(lead), token, pcurrent_char,
             Errors)
    BY <1>1, <2>2
  <2>b. Len(lead) > 0 /\ Keywords \in {Keywords, Names}
    BY <2>2
  <2>5. Spells_word(Keywords, lead) /\ token.code = "Kw"
    BY <2>2, <2>3, <2>4, <2>b, SpellsWord
  <2> QED
    BY <2>5, <2>a
<1>2. CASE ~Word(text, Keywords, "Kw", Begin + 1, token, pcurrent_char, Errors)
  <2>1. /\ pcurrent_char = Begin + 1 /\ token = Token("Unknown", <<>>)
        /\ text[pcurrent_char] \notin First_chars(Keywords) /\ Errors = 1
    BY <1>2 DEF Keyword
  <2>2. Spelled = <<"%">>
    <3>1. Spelled = <<text[Begin]>>
      BY <2>1, SpelledShort
    <3> QED
      BY <1>0, <3>1
  <2>3. token.code = "Unknown" /\ counted
    BY <2>1, TokenParts, NoErrors
  <2>4. Ahead \notin First_chars(Keywords)
    BY <2>1 DEF Ahead
  <2> QED
    BY <2>2, <2>3, <2>4
<1> QED
  BY <1>1, <1>2

LEMMA UnknownReads ==
  ASSUME TypeOK, Begin \in 1 .. Len(text), Begin < pcurrent_char,
         Unknown(text, Begin, token, pcurrent_char, Errors)
  PROVE  /\ token.code = "Unknown"
         /\ Range(Tail(Spelled)) \subseteq Other /\ Ahead \notin Other
         /\ Spelled[1] \in Other \cup {"0"} /\ ~counted
<1>1. /\ Spelled \in Seq(Symbols) /\ Len(Spelled) = pcurrent_char - Begin
      /\ \A k \in 1 .. pcurrent_char - Begin :
           Spelled[k] = text[Begin + k - 1]
      /\ pcurrent_char \in Nat /\ Begin \in Nat
  BY SpelledIs DEF TypeOK
<1>2. /\ text[Begin] \in Other \cup {"0"} /\ Ahead \notin Other
      /\ \A k \in Begin + 1 .. pcurrent_char - 1 : text[k] \in Other
      /\ token = Token("Unknown", <<>>) /\ Errors = 0
  BY DEF Unknown, Ahead
<1> HIDE DEF Spelled
<1>3. Spelled # <<>> /\ 1 \in 1 .. pcurrent_char - Begin /\ Begin + 1 - 1 = Begin
  BY <1>1
<1>4. Spelled[1] = text[Begin]
  BY <1>1, <1>3
<1>5. /\ Tail(Spelled) \in Seq(Symbols)
      /\ Len(Tail(Spelled)) = pcurrent_char - Begin - 1
      /\ \A k \in 1 .. pcurrent_char - Begin - 1 : Tail(Spelled)[k] = Spelled[k + 1]
  BY <1>1, <1>3, HeadTailProperties
<1>6. \A k \in 1 .. pcurrent_char - Begin - 1 :
        /\ k + 1 \in 1 .. pcurrent_char - Begin
        /\ Begin + (k + 1) - 1 \in Begin + 1 .. pcurrent_char - 1
  BY <1>1
<1>7. \A k \in 1 .. pcurrent_char - Begin - 1 : Tail(Spelled)[k] \in Other
  BY <1>1, <1>2, <1>5, <1>6
<1>8. DOMAIN Tail(Spelled) = 1 .. pcurrent_char - Begin - 1
  BY <1>5
<1>9. Range(Tail(Spelled)) \subseteq Other
  BY <1>7, <1>8 DEF Range
<1> QED
  BY <1>2, <1>4, <1>9, TokenParts, NoErrors

LEMMA DoublesAt ==
  ASSUME NEW t, NEW i \in Nat \ {0}, NEW w, Twice(t, i, w),
         NEW s \in Seq(Symbols), Len(s) = Place(w, Len(w)),
         \A k \in 1 .. Len(s) : s[k] = t[i + k - 1]
  PROVE  Doubles(s, w)
<1>1. w \in Seq(Chars) /\ Len(w) \in Nat
  BY DEF Twice
<1>2. ASSUME NEW k \in 1 .. Len(w)
      PROVE  s[Place(w, k)] = w[k] /\ (w[k] = Quote => s[Place(w, k) - 1] = Quote)
  <2>1. /\ Place(w, k) \in 1 .. Place(w, Len(w)) /\ Place(w, Len(w)) \in Nat
        /\ w[k] = Quote => Place(w, k) >= 2
    BY <1>1, PlaceWithin
  <2>2. /\ t[i + Place(w, k) - 1] = w[k]
        /\ w[k] = Quote => t[i + Place(w, k) - 2] = Quote
    BY DEF Twice
  <2>3. PICK m : m = Place(w, k)
    OBVIOUS
  <2>4. s[m] = t[i + m - 1]
    BY <2>1, <2>3
  <2>5. ASSUME w[k] = Quote PROVE s[m - 1] = t[i + m - 2]
    <3>1. m - 1 \in 1 .. Len(s) /\ i + (m - 1) - 1 = i + m - 2
      BY <2>1, <2>3, <2>5
    <3> QED
      BY <3>1
  <2> QED
    BY <2>2, <2>3, <2>4, <2>5
<1> QED
  BY <1>2 DEF Doubles

LEMMA LiteralReads ==
  ASSUME TypeOK, Begin \in 1 .. Len(text), Begin < pcurrent_char,
         Literal(text, Begin, token, pcurrent_char, Errors)
  PROVE  /\ token.code = "String" /\ Spelled[1] = Quote
         /\ \/ /\ Len(Spelled) > 1 /\ Last(Spelled) = Quote
               /\ Doubles(SubSeq(Spelled, 2, Len(Spelled) - 1), token.val)
               /\ Ahead # Quote /\ ~counted
            \/ Doubles(Tail(Spelled), token.val) /\ Ahead = Nul /\ counted
<1> DEFINE p == pcurrent_char
           b == Begin
<1>1. /\ Spelled \in Seq(Symbols) /\ Len(Spelled) = p - b
      /\ \A k \in 1 .. p - b : Spelled[k] = text[b + k - 1]
      /\ p \in Nat /\ b \in Nat
  BY SpelledIs DEF TypeOK
<1>2. PICK w : w = token.val
  OBVIOUS
<1>3. /\ text[b] = Quote /\ token = Token("String", w) /\ Twice(text, b + 1, w)
      /\ \/ /\ p = b + 2 + Place(w, Len(w))
            /\ text[p - 1] = Quote /\ text[p] # Quote /\ Errors = 0
         \/ /\ p = b + 1 + Place(w, Len(w))
            /\ text[p] = Nul /\ Errors = 1
  BY <1>2 DEF Literal
<1>4. PICK m : m = Place(w, Len(w))
  OBVIOUS
<1>5. m \in Nat /\ b + 1 \in Nat \ {0}
  <2>1. Twice(text, b + 1, w) /\ Len(w) \in Nat
    BY <1>3 DEF Twice
  <2>2. Place(w, Len(w)) \in Nat
    BY <2>1, PlaceNat
  <2> QED
    BY <1>1, <1>4, <2>2
<1> HIDE DEF Spelled, b
<1>6. token.code = "String"
  BY <1>3, TokenParts
<1>7. Spelled # <<>> /\ 1 \in 1 .. p - b /\ b + 1 - 1 = b
  BY <1>1 DEF b
<1>8. Spelled[1] = Quote
  BY <1>1, <1>3, <1>7
<1>9. CASE p = b + 2 + m /\ text[p - 1] = Quote /\ text[p] # Quote /\ Errors = 0
  <2>1. Len(Spelled) = m + 2 /\ Len(Spelled) - 1 = m + 1 /\ p - b = m + 2
    BY <1>1, <1>5, <1>9
  <2>2. Last(Spelled) = Quote
    <3>1. m + 2 \in 1 .. p - b /\ b + (m + 2) - 1 = p - 1
      BY <1>1, <1>5, <1>9
    <3>2. Spelled[m + 2] = text[p - 1]
      BY <1>1, <3>1
    <3> QED
      BY <1>9, <2>1, <3>2 DEF Last
  <2>3. PICK s : s = SubSeq(Spelled, 2, m + 1)
    OBVIOUS
  <2>4. /\ s \in Seq(Symbols) /\ Len(s) = m
        /\ \A k \in 1 .. m : s[k] = Spelled[k + 1]
    <3>1. /\ 2 \in Nat \ {0} /\ m + 1 \in Nat /\ 2 <= (m + 1) + 1
          /\ m + 1 <= Len(Spelled) /\ (m + 1) + 1 - 2 = m
      BY <1>5, <2>1
    <3>2. /\ s \in Seq(Symbols) /\ Len(s) = m
          /\ \A k \in 1 .. m : s[k] = Spelled[2 + k - 1]
      BY <1>1, <2>3, <3>1, Stretch, SMTT(30)
    <3>3. \A k \in 1 .. m : 2 + k - 1 = k + 1
      BY <1>5
    <3> QED
      BY <3>2, <3>3
  <2>5. \A k \in 1 .. m : k + 1 \in 1 .. p - b /\ b + (k + 1) - 1 = (b + 1) + k - 1
    BY <1>1, <1>5, <2>1
  <2>6. \A k \in 1 .. m : s[k] = text[(b + 1) + k - 1]
    BY <1>1, <2>4, <2>5
  <2>7. Doubles(s, w)
    <3>1. Len(s) = Place(w, Len(w)) /\ Twice(text, b + 1, w)
      BY <1>3, <1>4, <2>4
    <3>2. \A k \in 1 .. Len(s) : s[k] = text[(b + 1) + k - 1]
      BY <2>4, <2>6
    <3>3. PICK i : i = b + 1
      OBVIOUS
    <3>4. i \in Nat \ {0} /\ s \in Seq(Symbols)
      BY <1>5, <2>4, <3>3
    <3> QED
      BY <3>1, <3>2, <3>3, <3>4, DoublesAt
  <2>8. Ahead # Quote /\ ~counted
    BY <1>9, NoErrors DEF Ahead
  <2>9. Len(Spelled) > 1
    BY <1>5, <2>1
  <2> QED
    BY <1>2, <1>6, <1>8, <2>1, <2>2, <2>3, <2>7, <2>8, <2>9
<1>10. CASE p = b + 1 + m /\ text[p] = Nul /\ Errors = 1
  <2>1. Len(Spelled) = m + 1 /\ p - b = m + 1
    BY <1>1, <1>5, <1>10
  <2>2. PICK s : s = Tail(Spelled)
    OBVIOUS
  <2>3. /\ s \in Seq(Symbols) /\ Len(s) = m
        /\ \A k \in 1 .. m : s[k] = Spelled[k + 1]
    <3>1. /\ s \in Seq(Symbols) /\ Len(s) = Len(Spelled) - 1
          /\ \A k \in 1 .. Len(s) : s[k] = Spelled[k + 1]
      BY <1>1, <1>7, <2>2, HeadTailProperties
    <3> QED
      BY <1>5, <2>1, <3>1
  <2>4. \A k \in 1 .. m : k + 1 \in 1 .. p - b /\ b + (k + 1) - 1 = (b + 1) + k - 1
    BY <1>1, <1>5, <2>1
  <2>5. \A k \in 1 .. m : s[k] = text[(b + 1) + k - 1]
    BY <1>1, <2>3, <2>4
  <2>6. Doubles(s, w)
    <3>1. Len(s) = Place(w, Len(w)) /\ Twice(text, b + 1, w)
      BY <1>3, <1>4, <2>3
    <3>2. \A k \in 1 .. Len(s) : s[k] = text[(b + 1) + k - 1]
      BY <2>3, <2>5
    <3>3. PICK i : i = b + 1
      OBVIOUS
    <3>4. i \in Nat \ {0} /\ s \in Seq(Symbols)
      BY <1>5, <2>3, <3>3
    <3> QED
      BY <3>1, <3>2, <3>3, <3>4, DoublesAt
  <2>7. Ahead = Nul /\ counted
    BY <1>10, NoErrors DEF Ahead
  <2> QED
    BY <1>2, <1>6, <1>8, <2>2, <2>6, <2>7
<1> QED
  BY <1>3, <1>4, <1>9, <1>10

LEMMA ActionReads ==
  ASSUME TypeOK, Begin \in 1 .. Len(text), Begin < pcurrent_char,
         Action(text, Begin, token, pcurrent_char, Errors)
  PROVE  /\ token.code = "Action"
         /\ \/ Spelled[1] = "$" /\ Spells_name(Tail(Spelled), Letters)
            \/ /\ Spelled = <<"$">> /\ token.val = <<>> /\ Ahead \notin Letters
               /\ counted <=> Ahead # Nul
<1> DEFINE p == pcurrent_char
           b == Begin
<1>1. /\ Spelled \in Seq(Symbols) /\ Len(Spelled) = p - b
      /\ \A k \in 1 .. p - b : Spelled[k] = text[b + k - 1]
      /\ p \in Nat /\ b \in Nat /\ text[b] = "$"
  BY SpelledIs DEF TypeOK, Action
<1>2. CASE /\ Name(text, b + 1, p) /\ text[p] \notin Body
           /\ token = Token("Action", SubSeq(text, b + 1, p - 1)) /\ Errors = 0
  <2>1. /\ token.code = "Action" /\ token.val = SubSeq(text, b + 1, p - 1)
        /\ Ahead \notin Body /\ ~counted
    BY <1>2, TokenParts, NoErrors DEF Ahead
  <2> HIDE DEF Spelled
  <2>2. Spelled # <<>> /\ 1 \in 1 .. p - b /\ b + 1 - 1 = b
    BY <1>1
  <2>3. Spelled[1] = "$"
    BY <1>1, <2>2
  <2>4. PICK s : s = Tail(Spelled)
    OBVIOUS
  <2>5. /\ s \in Seq(Symbols) /\ Len(s) = p - b - 1
        /\ \A k \in 1 .. Len(s) : s[k] = Spelled[k + 1]
    BY <1>1, <2>2, <2>4, HeadTailProperties
  <2>6. \A k \in 1 .. Len(s) : k + 1 \in 1 .. p - b /\ b + (k + 1) - 1 = b + 1 + k - 1
    BY <1>1, <2>5
  <2>7. \A k \in 1 .. Len(s) : s[k] = text[b + 1 + k - 1]
    BY <1>1, <2>5, <2>6
  <2>8. Spells_name(s, Letters)
    BY <1>2, <2>1, <2>5, <2>7, SpellsName
  <2> QED
    BY <2>1, <2>3, <2>4, <2>8
<1>3. CASE /\ p = b + 1 /\ text[p] \notin Letters
           /\ token = Token("Action", <<>>)
           /\ Errors = IF text[p] = Nul THEN 0 ELSE 1
  <2>1. token.code = "Action" /\ token.val = <<>> /\ Ahead \notin Letters
    BY <1>3, TokenParts DEF Ahead
  <2>2. counted <=> Ahead # Nul
    BY <1>3, NoErrors DEF Ahead
  <2>3. Spelled = <<text[b]>>
    BY <1>3, SpelledShort
  <2>4. Spelled = <<"$">>
    BY <1>1, <2>3
  <2> QED
    BY <2>1, <2>2, <2>4
<1> QED
  BY <1>2, <1>3 DEF Action

(* What the character of an expression is spelled.                         *)
Spells_character ==
  \/ /\ Len(Spelled) = 1 /\ Spelled = token.val /\ ~counted
     /\ Spelled[1] \notin Delimiters["Expr"] \cup {"$"}
     /\ (Spelled[1] = "[") => (Ahead # ":")
     /\ (Spelled[1] = "\\") => (Ahead \notin After_backslash)
  \/ /\ Spelled = <<"[", ":">> /\ token.val = <<"[">>
     /\ Ahead \notin First_chars(Names) /\ counted
  \/ /\ Len(Spelled) = 2 /\ Spelled[1] = "\\" /\ ~counted
     /\ Spelled[2] \in After_backslash
     /\ token.val = <<IF Spelled[2] = "n" THEN "\n" ELSE Spelled[2]>>

LEMMA ClassReads ==
  ASSUME TypeOK, Begin \in 1 .. Len(text), Begin < pcurrent_char,
         Class(text, Begin, token, pcurrent_char, Errors)
  PROVE  \/ token.code = "Class" /\ Spells_word(Names, <<"[", ":">>)
         \/ token.code = "Character" /\ Spells_character
<1>0. /\ text[Begin] = "[" /\ Begin \in Nat /\ text \in Seq(Symbols)
      /\ Len(text) \in Nat /\ pcurrent_char <= Len(text)
  BY DEF Class, TypeOK, Symbols
<1>1. CASE /\ pcurrent_char = Begin + 1 /\ text[pcurrent_char] \notin {":", Nul}
           /\ token = Token("Character", <<"[">>) /\ Errors = 0
  <2>1. /\ Len(Spelled) = 1 /\ Spelled[1] = "[" /\ Spelled = <<text[Begin]>>
    BY <1>0, <1>1, SpelledShort
  <2>2. Spelled = <<"[">> /\ token.code = "Character" /\ token.val = <<"[">>
    BY <1>0, <1>1, <2>1, TokenParts
  <2>3. ~counted /\ Ahead # ":"
    BY <1>1, NoErrors DEF Ahead
  <2>4. "[" \notin Delimiters["Expr"] \cup {"$"} /\ "[" # "\\"
    BY ExprKinds
  <2> QED
    BY <2>1, <2>2, <2>3, <2>4 DEF Spells_character
<1>2. CASE /\ pcurrent_char = Begin + 2 /\ text[Begin + 1] = ":"
           /\ text[pcurrent_char] \notin First_chars(Names) \cup {Nul}
           /\ token = Token("Character", <<"[">>) /\ Errors = 1
  <2>1. Spelled = <<text[Begin], text[Begin + 1]>>
    BY <1>2, SpelledShort
  <2>2. Spelled = <<"[", ":">>
    BY <1>0, <1>2, <2>1
  <2>3. token.code = "Character" /\ token.val = <<"[">>
    BY <1>2, TokenParts
  <2>4. counted /\ Ahead \notin First_chars(Names)
    BY <1>2, NoErrors DEF Ahead
  <2> QED
    BY <2>2, <2>3, <2>4 DEF Spells_character
<1>3. CASE /\ text[Begin + 1] = ":"
           /\ Word(text, Names, "Class", Begin + 2, token, pcurrent_char, Errors)
  <2>a. PICK lead : lead = <<"[", ":">>
    OBVIOUS
  <2>b. Begin + 1 \in 1 .. Len(text)
    <3>1. Begin + 2 < pcurrent_char
      BY <1>3 DEF Word
    <3>2. pcurrent_char \in Nat
      BY DEF TypeOK
    <3> QED
      BY <1>0, <3>1, <3>2
  <2>1. text[Begin] \in Symbols /\ text[Begin + 1] \in Symbols
    BY <1>0, <2>b, ElementOfSeq
  <2>2. lead \in Seq(Symbols) /\ Len(lead) = 2 /\ lead[1] = "[" /\ lead[2] = ":"
    BY <1>0, <1>3, <2>1, <2>a
  <2>c. \A k \in 1 .. 2 : k = 1 \/ k = 2
    OBVIOUS
  <2>d. Begin + 1 - 1 = Begin /\ Begin + 2 - 1 = Begin + 1
    BY <1>0
  <2>3. \A k \in 1 .. Len(lead) : text[Begin + k - 1] = lead[k]
    <3>1. text[Begin + 1 - 1] = lead[1] /\ text[Begin + 2 - 1] = lead[2]
      BY <1>0, <1>3, <2>2, <2>d
    <3> QED
      BY <2>2, <2>c, <3>1
  <2>4. Word(text, Names, "Class", Begin + Len(lead), token, pcurrent_char,
             Errors)
    BY <1>3, <2>2
  <2>e. Len(lead) > 0 /\ Names \in {Keywords, Names}
    BY <2>2
  <2>5. Spells_word(Names, lead) /\ token.code = "Class"
    BY <2>2, <2>3, <2>4, <2>e, SpellsWord
  <2> QED
    BY <2>5, <2>a
<1> QED
  BY <1>1, <1>2, <1>3 DEF Class

LEMMA EscapedReads ==
  ASSUME TypeOK, Begin \in 1 .. Len(text), Begin < pcurrent_char,
         Escaped(text, Begin, token, pcurrent_char, Errors)
  PROVE  token.code = "Character" /\ Spells_character
<1>0. text[Begin] = "\\" /\ Errors = 0
  BY DEF Escaped
<1>1. CASE /\ pcurrent_char = Begin + 2 /\ text[Begin + 1] \in After_backslash
           /\ token = Token("Character",
                            <<IF text[Begin + 1] = "n" THEN "\n" ELSE text[Begin + 1]>>)
  <2>1. Len(Spelled) = 2 /\ Spelled[1] = "\\" /\ Spelled[2] = text[Begin + 1]
    BY <1>0, <1>1, SpelledShort
  <2>2. /\ token.code = "Character"
        /\ token.val = <<IF Spelled[2] = "n" THEN "\n" ELSE Spelled[2]>>
    BY <1>1, <2>1, TokenParts
  <2>3. ~counted
    BY <1>0, NoErrors
  <2> QED
    BY <1>1, <2>1, <2>2, <2>3 DEF Spells_character
<1>2. CASE /\ pcurrent_char = Begin + 1
           /\ text[pcurrent_char] \notin After_backslash
           /\ token = Token("Character", <<"\\">>)
  <2>1. Len(Spelled) = 1 /\ Spelled[1] = "\\" /\ Spelled = <<text[Begin]>>
    BY <1>0, <1>2, SpelledShort
  <2>2. Spelled = <<"\\">> /\ token.code = "Character" /\ token.val = <<"\\">>
    BY <1>0, <1>2, <2>1, TokenParts
  <2>3. ~counted /\ Ahead \notin After_backslash
    BY <1>0, <1>2, NoErrors DEF Ahead
  <2>4. "\\" \notin Delimiters["Expr"] \cup {"$"} /\ "\\" # "["
    BY ExprKinds
  <2> QED
    BY <2>1, <2>2, <2>3, <2>4 DEF Spells_character
<1> QED
  BY <1>1, <1>2 DEF Escaped

LEMMA PlainReads ==
  ASSUME TypeOK, Begin \in 1 .. Len(text), Begin < pcurrent_char,
         Plain(text, Begin, token, pcurrent_char, Errors)
  PROVE  token.code = "Character" /\ Spells_character
<1>1. /\ text[Begin] \notin Delimiters["Expr"] \cup {"$", "[", "\\"}
      /\ pcurrent_char = Begin + 1
      /\ token = Token("Character", <<text[Begin]>>) /\ Errors = 0
  BY DEF Plain
<1>2. /\ Len(Spelled) = 1 /\ Spelled[1] = text[Begin]
      /\ Spelled = <<text[Begin]>>
  BY <1>1, SpelledShort
<1>3. token.code = "Character" /\ token.val = <<text[Begin]>> /\ ~counted
  BY <1>1, TokenParts, NoErrors
<1> QED
  BY <1>1, <1>2, <1>3 DEF Spells_character

(* The codes of delimiters are those of no other lexeme.                   *)
LEMMA DelimiterCodes ==
  ASSUME NEW c
  PROVE  /\ Delimiter_code("Main", c) = c
         /\ c \in Delimiters["Main"] =>
              c \notin {"None", "Id", "Kw", "String", "Unknown"}
         /\ c \in Delimiters["Expr"] => Delimiter_code("Expr", c) \notin
              {"None", "Action", "Class", "Character"}
<1>1. Delimiter_code("Main", c) = c
  BY Zenon DEF Delimiter_code
<1>2. c \in Delimiters["Main"] => c \notin {"None", "Id", "Kw", "String", "Unknown"}
  BY Zenon DEF Delimiters, Both
<1>3. c \in Delimiters["Expr"] => c \notin {"None", "Action", "Class", "Character"}
  BY Zenon DEF Delimiters, Both
<1>4. /\ "Begin_expression" \notin {"None", "Action", "Class", "Character"}
      /\ "End_expression" \notin {"None", "Action", "Class", "Character"}
  BY Zenon
<1>5. Delimiter_code("Expr", c) \in {"Begin_expression", "End_expression", c}
  BY Zenon DEF Delimiter_code
<1> QED
  BY <1>1, <1>2, <1>3, <1>4, <1>5, Zenon

LEMMA DelimiterReads ==
  ASSUME TypeOK, Begin \in 1 .. Len(text), Begin < pcurrent_char,
         NEW s, Delimiter(text, s, Begin, token, pcurrent_char, Errors)
  PROVE  /\ Len(Spelled) = 1 /\ ~counted /\ Spelled = <<Spelled[1]>>
         /\ Spelled[1] \in Delimiters[s]
         /\ token.code = Delimiter_code(s, Spelled[1])
<1>1. /\ text[Begin] \in Delimiters[s] /\ pcurrent_char = Begin + 1
      /\ token = Token(Delimiter_code(s, text[Begin]), <<>>) /\ Errors = 0
  BY DEF Delimiter
<1>2. /\ Len(Spelled) = 1 /\ Spelled[1] = text[Begin]
      /\ Spelled = <<text[Begin]>>
  BY <1>1, SpelledShort
<1>3. token.code = Delimiter_code(s, text[Begin]) /\ ~counted
  BY <1>1, TokenParts, NoErrors
<1> QED
  BY <1>1, <1>2, <1>3

LEMMA OutsideReads ==
  ASSUME IInv, pc = "over", outside
  PROVE  Ahead = Nul /\ Spelled \in {<<"%">>, <<"[">>, <<"[", ":">>}
<1>1. /\ TypeOK /\ Len(text) \in Nat /\ From \in Nat \ {0} /\ scaner \in Both
      /\ pcurrent_char \in Nat
  BY DEF IInv, LexInv, TypeOK, From
<1>2. ReadOutside
  BY <1>1 DEF IInv, LexInv
<1>3. PICK b \in From .. Len(text) :
        /\ First(text, From, b)
        /\ \/ scaner = "Main" /\ text[b] = "%" /\ pcurrent_char = b + 1
           \/ scaner = "Expr" /\ text[b] = "[" /\ pcurrent_char = b + 1
           \/ /\ scaner = "Expr" /\ text[b] = "[" /\ text[b + 1] = ":"
              /\ pcurrent_char = b + 2
  BY <1>2 DEF ReadOutside
<1>4. Begin = b /\ b \in 1 .. Len(text)
  BY <1>1, <1>3, BeginIs DEF First
<1>5. /\ pcurrent_char = b + 1 => Spelled = <<text[b]>>
      /\ pcurrent_char = b + 2 => Spelled = <<text[b], text[b + 1]>>
  BY <1>1, <1>4, SpelledShort
<1>6. CASE text[b] = "%" /\ pcurrent_char = b + 1
  BY <1>2, <1>5, <1>6 DEF ReadOutside
<1>7. CASE text[b] = "[" /\ pcurrent_char = b + 1
  BY <1>2, <1>5, <1>7 DEF ReadOutside
<1>8. CASE text[b] = "[" /\ text[b + 1] = ":" /\ pcurrent_char = b + 2
  BY <1>2, <1>5, <1>8 DEF ReadOutside
<1> QED
  BY <1>3, <1>6, <1>7, <1>8

LEMMA MainRead ==
  ASSUME IInv
  PROVE  MainReads
<1> SUFFICES ASSUME Over("Main") PROVE MainReads
  BY DEF MainReads
<1>1. /\ pc = "over" /\ scaner = "Main" /\ ~outside /\ scaner \in Both /\ TypeOK
  BY DEF Over, Both, IInv
<1>2. CASE token = None /\ ~counted /\ Ahead = Nul /\ Spelled = <<>>
  <2>1. token.code = "None"
    BY <1>2, TokenParts DEF None
  <2> QED
    BY <1>2, <2>1 DEF MainReads
<1>3. CASE /\ Begin \in 1 .. Len(text) /\ Begin < pcurrent_char
           /\ Lexem(text, "Main", Begin, token, pcurrent_char, Errors)
  <2>1. CASE Id(text, Begin, token, pcurrent_char, Errors)
    <3>1. token.code = "Id" /\ Spells_name(Spelled, Letters)
      BY <1>1, <1>3, <2>1, IdReads
    <3> QED
      BY <3>1 DEF MainReads
  <2>2. CASE Keyword(text, Begin, token, pcurrent_char, Errors)
    <3>1. \/ token.code = "Kw" /\ Spells_word(Keywords, <<"%">>)
          \/ /\ token.code = "Unknown" /\ Spelled = <<"%">>
             /\ Ahead \notin First_chars(Keywords) /\ counted
      BY <1>1, <1>3, <2>2, KeywordReads
    <3>2. CASE token.code = "Kw" /\ Spells_word(Keywords, <<"%">>)
      BY <3>2 DEF MainReads
    <3>3. CASE /\ token.code = "Unknown" /\ Spelled = <<"%">>
               /\ Ahead \notin First_chars(Keywords) /\ counted
      BY <3>3 DEF MainReads
    <3> QED
      BY <3>1, <3>2, <3>3
  <2>3. CASE Literal(text, Begin, token, pcurrent_char, Errors)
    <3>1. /\ token.code = "String" /\ Spelled[1] = Quote
          /\ \/ /\ Len(Spelled) > 1 /\ Last(Spelled) = Quote
                /\ Doubles(SubSeq(Spelled, 2, Len(Spelled) - 1), token.val)
                /\ Ahead # Quote /\ ~counted
             \/ Doubles(Tail(Spelled), token.val) /\ Ahead = Nul /\ counted
      BY <1>1, <1>3, <2>3, LiteralReads
    <3> QED
      BY <3>1 DEF MainReads
  <2>4. CASE Unknown(text, Begin, token, pcurrent_char, Errors)
    <3>1. /\ token.code = "Unknown"
          /\ Range(Tail(Spelled)) \subseteq Other /\ Ahead \notin Other
          /\ Spelled[1] \in Other \cup {"0"} /\ ~counted
      BY <1>1, <1>3, <2>4, UnknownReads
    <3> QED
      BY <3>1 DEF MainReads
  <2>5. CASE Delimiter(text, "Main", Begin, token, pcurrent_char, Errors)
    <3>1. /\ Len(Spelled) = 1 /\ ~counted /\ Spelled = <<Spelled[1]>>
          /\ Spelled[1] \in Delimiters["Main"]
          /\ token.code = Delimiter_code("Main", Spelled[1])
      BY <1>1, <1>3, <2>5, DelimiterReads
    <3>2. /\ token.code \notin {"None", "Id", "Kw", "String", "Unknown"}
          /\ token.code = Spelled[1]
      BY <3>1, DelimiterCodes
    <3> QED
      BY <3>1, <3>2 DEF MainReads
  <2> QED
    BY <1>3, <2>1, <2>2, <2>3, <2>4, <2>5 DEF Lexem
<1> QED
  BY <1>1, <1>2, <1>3, OverAt

LEMMA ExprRead ==
  ASSUME IInv
  PROVE  ExprReads
<1> SUFFICES ASSUME Over("Expr") PROVE ExprReads
  BY DEF ExprReads
<1>1. /\ pc = "over" /\ scaner = "Expr" /\ ~outside /\ scaner \in Both /\ TypeOK
  BY DEF Over, Both, IInv
<1>2. CASE token = None /\ ~counted /\ Ahead = Nul /\ Spelled = <<>>
  <2>1. token.code = "None"
    BY <1>2, TokenParts DEF None
  <2> QED
    BY <1>2, <2>1 DEF ExprReads
<1>3. ASSUME token.code = "Character", Spells_character PROVE ExprReads
  BY <1>3 DEF ExprReads, Spells_character
<1>4. CASE /\ Begin \in 1 .. Len(text) /\ Begin < pcurrent_char
           /\ Lexem(text, "Expr", Begin, token, pcurrent_char, Errors)
  <2>1. CASE Action(text, Begin, token, pcurrent_char, Errors)
    <3>1. /\ token.code = "Action"
          /\ \/ Spelled[1] = "$" /\ Spells_name(Tail(Spelled), Letters)
             \/ /\ Spelled = <<"$">> /\ token.val = <<>> /\ Ahead \notin Letters
                /\ counted <=> Ahead # Nul
      BY <1>1, <1>4, <2>1, ActionReads
    <3> QED
      BY <3>1 DEF ExprReads
  <2>2. CASE Class(text, Begin, token, pcurrent_char, Errors)
    <3>1. \/ token.code = "Class" /\ Spells_word(Names, <<"[", ":">>)
          \/ token.code = "Character" /\ Spells_character
      BY <1>1, <1>4, <2>2, ClassReads
    <3>2. CASE token.code = "Class" /\ Spells_word(Names, <<"[", ":">>)
      BY <3>2 DEF ExprReads
    <3> QED
      BY <1>3, <3>1, <3>2
  <2>3. CASE Escaped(text, Begin, token, pcurrent_char, Errors)
    BY <1>1, <1>3, <1>4, <2>3, EscapedReads
  <2>4. CASE Plain(text, Begin, token, pcurrent_char, Errors)
    BY <1>1, <1>3, <1>4, <2>4, PlainReads
  <2>5. CASE Delimiter(text, "Expr", Begin, token, pcurrent_char, Errors)
    <3>1. /\ Len(Spelled) = 1 /\ ~counted /\ Spelled = <<Spelled[1]>>
          /\ Spelled[1] \in Delimiters["Expr"]
          /\ token.code = Delimiter_code("Expr", Spelled[1])
      BY <1>1, <1>4, <2>5, DelimiterReads
    <3>2. token.code \notin {"None", "Action", "Class", "Character"}
      BY <3>1, DelimiterCodes
    <3> QED
      BY <3>1, <3>2 DEF ExprReads
  <2> QED
    BY <1>4, <2>1, <2>2, <2>3, <2>4, <2>5 DEF Lexem
<1> QED
  BY <1>1, <1>2, <1>4, OverAt

(* On every text, whatever is read and given back and by which scanner, a  *)
(* lexeme is what the text spells from the place of the Location, it is    *)
(* malformed exactly when a message was counted, and a table is read       *)
(* outside only at the end of the text (current_lexem of both scanners).   *)
THEOREM LexemsAlwaysRead == Spec => []LexemsRead
<1>1. ASSUME IInv PROVE LexemsRead
  <2>1. TablesIndexed
    BY <1>1, OutsideReads DEF TablesIndexed
  <2> QED
    BY <1>1, <2>1, MainRead, ExprRead DEF LexemsRead
<1> QED
  BY Invariant, <1>1, PTL

-----------------------------------------------------------------------------
(* What a text spells from a place is one lexeme, or none.                 *)

LEMMA FirstAlone ==
  ASSUME NEW t, Len(t) \in Nat, NEW a \in Nat, NEW b, NEW d,
         First(t, a, b), First(t, a, d)
  PROVE  b = d
<1>1. b \in Nat /\ d \in Nat
  BY DEF First
<1>2. ~ b < d
  <2>1. b < d => b \in a .. d - 1
    BY <1>1 DEF First
  <2> QED
    BY <2>1 DEF First
<1>3. ~ d < b
  <2>1. d < b => d \in a .. b - 1
    BY <1>1 DEF First
  <2> QED
    BY <2>1 DEF First
<1> QED
  BY <1>1, <1>2, <1>3

LEMMA NameAlone ==
  ASSUME NEW t, NEW i \in Nat, NEW n \in Nat, NEW m \in Nat,
         Name(t, i, n), t[n] \notin Body, Name(t, i, m), t[m] \notin Body
  PROVE  n = m
<1>1. ~ n < m
  BY DEF Name
<1>2. ~ m < n
  BY DEF Name
<1> QED
  BY <1>1, <1>2

(* What begins a word from a place on, its beginnings do.                  *)
LEMMA RowShorter ==
  ASSUME NEW t \in Seq(Symbols), NEW words \in {Keywords, Names},
         NEW i \in Nat \ {0}, NEW n \in Nat, NEW m \in Nat,
         i < n, n <= m, m <= Len(t) + 1, IsRow(words, SubSeq(t, i, m - 1))
  PROVE  IsRow(words, SubSeq(t, i, n - 1))
<1>1. /\ m - 1 \in Nat /\ i <= (m - 1) + 1 /\ m - 1 <= Len(t)
      /\ n - 1 \in Nat /\ i <= (n - 1) + 1 /\ n - 1 <= Len(t)
      /\ (m - 1) + 1 - i = m - i /\ (n - 1) + 1 - i = n - i
      /\ n - i > 0 /\ n - i <= m - i /\ n - i \in Nat /\ m - i \in Nat
  OBVIOUS
<1>2. PICK u : u = SubSeq(t, i, m - 1)
  OBVIOUS
<1>3. PICK v : v = SubSeq(t, i, n - 1)
  OBVIOUS
<1>4. /\ u \in Seq(Symbols) /\ Len(u) = m - i
      /\ \A k \in 1 .. m - i : u[k] = t[i + k - 1]
  BY <1>1, <1>2, Stretch
<1>5. /\ v \in Seq(Symbols) /\ Len(v) = n - i
      /\ \A k \in 1 .. n - i : v[k] = t[i + k - 1]
  BY <1>1, <1>3, Stretch
<1>6. PICK w \in words : Len(u) <= Len(w) /\ \A k \in 1 .. Len(u) : u[k] = w[k]
  BY <1>2, <1>4, RowTyped
<1>7. \A k \in 1 .. n - i : k \in 1 .. m - i
  BY <1>1
<1>8. \A k \in 1 .. n - i : v[k] = w[k]
  BY <1>4, <1>5, <1>6, <1>7
<1>9. Len(w) \in Nat
  BY WordsTyped
<1>10. Len(v) <= Len(w) /\ v # Initial
  <2>1. Len(v) <= Len(w) /\ Len(v) > 0
    BY <1>1, <1>4, <1>5, <1>6, <1>9
  <2> QED
    BY <2>1 DEF Initial
<1>11. IsRow(words, v)
  BY <1>5, <1>8, <1>10, RowTyped
<1> QED
  BY <1>3, <1>11

(* The first character of what begins a word.                              *)
LEMMA WordFirst ==
  ASSUME NEW t \in Seq(Symbols), NEW words \in {Keywords, Names}, NEW code,
         NEW i \in Nat \ {0}, NEW tok, NEW n \in Nat, NEW errs,
         Word(t, words, code, i, tok, n, errs)
  PROVE  t[i] \in First_chars(words) /\ t[i] # Nul
<1>1. i < n /\ n <= Len(t) /\ IsRow(words, SubSeq(t, i, n - 1))
  BY DEF Word
<1>2. i \in 1 .. Len(t) /\ i + 1 \in Nat /\ i < i + 1 /\ i + 1 <= n /\ n <= Len(t) + 1
      /\ (i + 1) - 1 = i
  BY <1>1
<1>3. PICK m : m = i + 1
  OBVIOUS
<1>4. IsRow(words, SubSeq(t, i, m - 1))
  BY <1>1, <1>2, <1>3, RowShorter
<1>5. SubSeq(t, i, i) = <<t[i]>> /\ t[i] \in Symbols
  BY <1>2, StretchOne, ElementOfSeq
<1>6. IsRow(words, <<t[i]>>)
  BY <1>2, <1>3, <1>4, <1>5
<1>7. t[i] \in First_chars(words) /\ t[i] \in Chars
  BY <1>5, <1>6, FirstRow
<1> QED
  BY <1>7, ScanersAssumption

LEMMA WordAlone ==
  ASSUME NEW t \in Seq(Symbols), NEW words \in {Keywords, Names}, NEW code,
         NEW i \in Nat \ {0}, NEW tok, NEW n \in Nat, NEW errs,
         NEW tok2, NEW m \in Nat, NEW errs2,
         Word(t, words, code, i, tok, n, errs),
         Word(t, words, code, i, tok2, m, errs2)
  PROVE  tok = tok2 /\ n = m
<1>1. ASSUME NEW x \in Nat, NEW y \in Nat, x < y, i < x, y <= Len(t),
             IsRow(words, SubSeq(t, i, y - 1)), ~IsRow(words, SubSeq(t, i, x))
      PROVE  FALSE
  <2>1. PICK z : z = x + 1
    OBVIOUS
  <2>2. z \in Nat /\ i < z /\ z <= y /\ y <= Len(t) + 1 /\ z - 1 = x
    BY <1>1, <2>1
  <2>3. IsRow(words, SubSeq(t, i, z - 1))
    BY <1>1, <2>2, RowShorter
  <2> QED
    BY <1>1, <2>2, <2>3
<1>2. /\ i < n /\ n <= Len(t) /\ i < m /\ m <= Len(t)
      /\ IsRow(words, SubSeq(t, i, n - 1)) /\ ~IsRow(words, SubSeq(t, i, n))
      /\ IsRow(words, SubSeq(t, i, m - 1)) /\ ~IsRow(words, SubSeq(t, i, m))
      /\ tok = Completed(words, code, SubSeq(t, i, n - 1))
      /\ tok2 = Completed(words, code, SubSeq(t, i, m - 1))
  BY DEF Word
<1>3. ~ n < m /\ ~ m < n
  BY <1>1, <1>2
<1>4. n = m
  BY <1>3
<1> QED
  BY <1>2, <1>4

(* The first character tells the kind of the lexeme.                       *)
LEMMA MainKindOf ==
  ASSUME NEW t, NEW b \in 1 .. Len(t), NEW tok, NEW n \in Nat, NEW errs,
         Len(t) \in Nat, Lexem(t, "Main", b, tok, n, errs)
  PROVE  /\ t[b] \in Letters => Id(t, b, tok, n, errs)
         /\ t[b] = "%" => Keyword(t, b, tok, n, errs)
         /\ t[b] = Quote => Literal(t, b, tok, n, errs)
         /\ t[b] \in Other \cup {"0"} => Unknown(t, b, tok, n, errs)
         /\ t[b] \in Delimiters["Main"] => Delimiter(t, "Main", b, tok, n, errs)
         /\ t[b] \in Letters \cup {"%", Quote, "0"} \cup Other \cup Delimiters["Main"]
<1>1. \/ Id(t, b, tok, n, errs) \/ Keyword(t, b, tok, n, errs)
      \/ Literal(t, b, tok, n, errs) \/ Unknown(t, b, tok, n, errs)
      \/ Delimiter(t, "Main", b, tok, n, errs)
  BY DEF Lexem
<1>2. Id(t, b, tok, n, errs) => t[b] \in Letters
  BY DEF Id, Name
<1>3. Keyword(t, b, tok, n, errs) => t[b] = "%"
  BY DEF Keyword
<1>4. Literal(t, b, tok, n, errs) => t[b] = Quote
  BY DEF Literal
<1>5. Unknown(t, b, tok, n, errs) => t[b] \in Other \cup {"0"}
  BY DEF Unknown
<1>6. Delimiter(t, "Main", b, tok, n, errs) => t[b] \in Delimiters["Main"]
  BY DEF Delimiter
<1>7. PICK c : c = t[b]
  OBVIOUS
<1>8. /\ c \in Letters => c \notin Delimiters["Main"] \cup Other \cup {"%", Quote, "0"}
      /\ c \in Delimiters["Main"] => c \notin Other \cup {"%", Quote, "0"}
      /\ c \in Other => c \notin {"%", Quote}
      /\ c = "%" => c # Quote
      /\ c = "0" => c \notin {"%", Quote}
  BY MainKinds
<1> QED
  BY <1>1, <1>2, <1>3, <1>4, <1>5, <1>6, <1>7, <1>8, Zenon

LEMMA ExprKindOf ==
  ASSUME NEW t, NEW b \in 1 .. Len(t), NEW tok, NEW n \in Nat, NEW errs,
         Lexem(t, "Expr", b, tok, n, errs)
  PROVE  /\ t[b] = "$" => Action(t, b, tok, n, errs)
         /\ t[b] = "[" => Class(t, b, tok, n, errs)
         /\ t[b] = "\\" => Escaped(t, b, tok, n, errs)
         /\ t[b] \in Delimiters["Expr"] => Delimiter(t, "Expr", b, tok, n, errs)
         /\ t[b] \notin Delimiters["Expr"] \cup {"$", "[", "\\"} =>
              Plain(t, b, tok, n, errs)
<1>1. \/ Action(t, b, tok, n, errs) \/ Class(t, b, tok, n, errs)
      \/ Escaped(t, b, tok, n, errs) \/ Plain(t, b, tok, n, errs)
      \/ Delimiter(t, "Expr", b, tok, n, errs)
  BY DEF Lexem
<1>2. Action(t, b, tok, n, errs) => t[b] = "$"
  BY DEF Action
<1>3. Class(t, b, tok, n, errs) => t[b] = "["
  BY DEF Class
<1>4. Escaped(t, b, tok, n, errs) => t[b] = "\\"
  BY DEF Escaped
<1>5. Plain(t, b, tok, n, errs) =>
        t[b] \notin Delimiters["Expr"] \cup {"$", "[", "\\"}
  BY DEF Plain
<1>6. Delimiter(t, "Expr", b, tok, n, errs) => t[b] \in Delimiters["Expr"]
  BY DEF Delimiter
<1>7. t[b] \in Delimiters["Expr"] => t[b] \notin {"$", "[", "\\"}
  BY ExprKinds
<1>8. "$" # "[" /\ "$" # "\\" /\ "[" # "\\"
  OBVIOUS
<1> QED
  BY <1>1, <1>2, <1>3, <1>4, <1>5, <1>6, <1>7, <1>8, Zenon

LEMMA MainAlone ==
  ASSUME NEW t \in Seq(Symbols), NEW b \in 1 .. Len(t), t[b] # Quote,
         NEW tok, NEW n \in Nat, NEW errs, Lexem(t, "Main", b, tok, n, errs),
         NEW tok2, NEW m \in Nat, NEW errs2, Lexem(t, "Main", b, tok2, m, errs2)
  PROVE  tok = tok2 /\ n = m
<1>1. /\ Len(t) \in Nat /\ b \in Nat \ {0} /\ b + 1 \in Nat \ {0}
      /\ Keywords \in {Keywords, Names}
  OBVIOUS
<1>2. CASE t[b] \in Letters
  <2>1. Id(t, b, tok, n, errs) /\ Id(t, b, tok2, m, errs2)
    BY <1>1, <1>2, MainKindOf
  <2>2. n = m
    BY <1>1, <2>1, NameAlone DEF Id
  <2> QED
    BY <2>1, <2>2 DEF Id
<1>3. CASE t[b] = "%"
  <2>1. Keyword(t, b, tok, n, errs) /\ Keyword(t, b, tok2, m, errs2)
    BY <1>1, <1>3, MainKindOf
  <2>2. CASE /\ Word(t, Keywords, "Kw", b + 1, tok, n, errs)
             /\ Word(t, Keywords, "Kw", b + 1, tok2, m, errs2)
    BY <1>1, <2>2, WordAlone
  <2>3. CASE /\ Word(t, Keywords, "Kw", b + 1, tok, n, errs)
             /\ ~Word(t, Keywords, "Kw", b + 1, tok2, m, errs2)
    <3>1. t[b + 1] \in First_chars(Keywords)
      BY <1>1, <2>3, WordFirst
    <3>2. t[b + 1] \notin First_chars(Keywords)
      BY <2>1, <2>3 DEF Keyword
    <3> QED
      BY <3>1, <3>2
  <2>4. CASE /\ ~Word(t, Keywords, "Kw", b + 1, tok, n, errs)
             /\ Word(t, Keywords, "Kw", b + 1, tok2, m, errs2)
    <3>1. t[b + 1] \in First_chars(Keywords)
      BY <1>1, <2>4, WordFirst
    <3>2. t[b + 1] \notin First_chars(Keywords)
      BY <2>1, <2>4 DEF Keyword
    <3> QED
      BY <3>1, <3>2
  <2>5. CASE /\ ~Word(t, Keywords, "Kw", b + 1, tok, n, errs)
             /\ ~Word(t, Keywords, "Kw", b + 1, tok2, m, errs2)
    BY <2>1, <2>5 DEF Keyword
  <2> QED
    BY <2>2, <2>3, <2>4, <2>5
<1>4. CASE t[b] \in Other \cup {"0"}
  <2>1. Unknown(t, b, tok, n, errs) /\ Unknown(t, b, tok2, m, errs2)
    BY <1>1, <1>4, MainKindOf
  <2>2. ~ n < m
    BY <1>1, <2>1 DEF Unknown
  <2>3. ~ m < n
    BY <1>1, <2>1 DEF Unknown
  <2>4. n = m
    BY <2>2, <2>3
  <2> QED
    BY <2>1, <2>4 DEF Unknown
<1>5. CASE t[b] \in Delimiters["Main"]
  <2>1. Delimiter(t, "Main", b, tok, n, errs) /\ Delimiter(t, "Main", b, tok2, m, errs2)
    BY <1>1, <1>5, MainKindOf
  <2> QED
    BY <2>1 DEF Delimiter
<1>6. t[b] \in Letters \cup {"%", Quote, "0"} \cup Other \cup Delimiters["Main"]
  BY <1>1, MainKindOf
<1> QED
  BY <1>2, <1>3, <1>4, <1>5, <1>6

LEMMA ExprAlone ==
  ASSUME NEW t \in Seq(Symbols), NEW b \in 1 .. Len(t),
         NEW tok, NEW n \in Nat, NEW errs, Lexem(t, "Expr", b, tok, n, errs),
         NEW tok2, NEW m \in Nat, NEW errs2, Lexem(t, "Expr", b, tok2, m, errs2)
  PROVE  tok = tok2 /\ n = m
<1>1. /\ Len(t) \in Nat /\ b \in Nat \ {0} /\ b + 1 \in Nat /\ b + 2 \in Nat \ {0}
      /\ Names \in {Keywords, Names}
  OBVIOUS
<1>2. CASE t[b] = "$"
  <2>1. Action(t, b, tok, n, errs) /\ Action(t, b, tok2, m, errs2)
    BY <1>2, ExprKindOf
  <2>2. \/ Name(t, b + 1, n) /\ t[n] \notin Body /\ t[b + 1] \in Letters
           /\ tok = Token("Action", SubSeq(t, b + 1, n - 1))
        \/ n = b + 1 /\ t[b + 1] \notin Letters /\ tok = Token("Action", <<>>)
    BY <2>1 DEF Action, Name
  <2>3. \/ Name(t, b + 1, m) /\ t[m] \notin Body /\ t[b + 1] \in Letters
           /\ tok2 = Token("Action", SubSeq(t, b + 1, m - 1))
        \/ m = b + 1 /\ t[b + 1] \notin Letters /\ tok2 = Token("Action", <<>>)
    BY <2>1 DEF Action, Name
  <2>4. CASE t[b + 1] \in Letters
    <3>1. n = m
      BY <1>1, <2>2, <2>3, <2>4, NameAlone
    <3> QED
      BY <2>2, <2>3, <2>4, <3>1
  <2>5. CASE t[b + 1] \notin Letters
    BY <2>2, <2>3, <2>5
  <2> QED
    BY <2>4, <2>5
<1>3. CASE t[b] = "["
  <2> DEFINE K(k, x, e) ==
         \/ k = b + 1 /\ t[b + 1] # ":" /\ x = Token("Character", <<"[">>)
         \/ /\ k = b + 2 /\ t[b + 1] = ":" /\ t[b + 2] \notin First_chars(Names)
            /\ x = Token("Character", <<"[">>)
         \/ /\ t[b + 1] = ":" /\ t[b + 2] \in First_chars(Names)
            /\ Word(t, Names, "Class", b + 2, x, k, e)
  <2>1. ASSUME NEW k \in Nat, NEW x, NEW e, Lexem(t, "Expr", b, x, k, e)
        PROVE  K(k, x, e)
    <3>1. Class(t, b, x, k, e)
      BY <1>3, <2>1, ExprKindOf
    <3>2. Word(t, Names, "Class", b + 2, x, k, e) => t[b + 2] \in First_chars(Names)
      BY <1>1, WordFirst
    <3> QED
      BY <3>1, <3>2 DEF Class
  <2>2. K(n, tok, errs) /\ K(m, tok2, errs2)
    BY <2>1
  <2>3. /\ Word(t, Names, "Class", b + 2, tok, n, errs)
        /\ Word(t, Names, "Class", b + 2, tok2, m, errs2)
        => tok = tok2 /\ n = m
    BY <1>1, WordAlone
  <2> QED
    BY <2>2, <2>3
<1>4. CASE t[b] = "\\"
  <2>1. Escaped(t, b, tok, n, errs) /\ Escaped(t, b, tok2, m, errs2)
    BY <1>4, ExprKindOf
  <2> QED
    BY <2>1 DEF Escaped
<1>5. CASE t[b] \in Delimiters["Expr"]
  <2>1. Delimiter(t, "Expr", b, tok, n, errs) /\ Delimiter(t, "Expr", b, tok2, m, errs2)
    BY <1>5, ExprKindOf
  <2> QED
    BY <2>1 DEF Delimiter
<1>6. CASE t[b] \notin Delimiters["Expr"] \cup {"$", "[", "\\"}
  <2>1. Plain(t, b, tok, n, errs) /\ Plain(t, b, tok2, m, errs2)
    BY <1>6, ExprKindOf
  <2> QED
    BY <2>1 DEF Plain
<1> QED
  BY <1>2, <1>3, <1>4, <1>5, <1>6

LEMMA BlankAlone ==
  ASSUME NEW t, Len(t) \in Nat, NEW a \in Nat, NEW n \in Nat, Blank(t, a, n),
         n <= Len(t), t[n] = Nul, NEW b, First(t, a, b)
  PROVE  FALSE
<1>1. b \in Nat /\ a <= b /\ b <= Len(t) /\ a <= n
  BY DEF First, Blank
<1>2. CASE b < n
  BY <1>1, <1>2 DEF First, Blank
<1>3. CASE b = n
  BY <1>3 DEF First
<1>4. CASE n < b
  BY <1>1, <1>4, NulSolid DEF First
<1> QED
  BY <1>1, <1>2, <1>3, <1>4

(* But for literals, what is met is told by the text.                      *)
LEMMA MeetsAlone ==
  ASSUME NEW t \in Seq(Symbols), NEW s \in Both, NEW a \in Nat \ {0},
         NEW tok, NEW n \in Nat, NEW errs, Meets(t, s, a, tok, n, errs),
         NEW tok2, NEW m \in Nat, NEW errs2, Meets(t, s, a, tok2, m, errs2),
         \A b \in a .. Len(t) : First(t, a, b) => ~(s = "Main" /\ t[b] = Quote)
  PROVE  tok = tok2 /\ n = m
<1> DEFINE E(x, k) == Blank(t, a, k) /\ k <= Len(t) /\ t[k] = Nul /\ x = None
           L(x, k, e) == \E b \in a .. Len(t) :
                           First(t, a, b) /\ Lexem(t, s, b, x, k, e)
<1>1. /\ E(tok, n) \/ L(tok, n, errs)
      /\ E(tok2, m) \/ L(tok2, m, errs2)
      /\ Len(t) \in Nat
  BY DEF Meets
<1>2. CASE E(tok, n) /\ E(tok2, m)
  <2>1. ~ n < m
    BY <1>2, NulSolid DEF Blank
  <2>2. ~ m < n
    BY <1>2, NulSolid DEF Blank
  <2> QED
    BY <1>2, <2>1, <2>2
<1>3. ASSUME NEW x, NEW k \in Nat, E(x, k), NEW y, NEW j, NEW e, L(y, j, e)
      PROVE  FALSE
  <2>1. PICK b \in a .. Len(t) : First(t, a, b)
    BY <1>3
  <2> QED
    BY <1>1, <1>3, <2>1, BlankAlone
<1>4. CASE L(tok, n, errs) /\ L(tok2, m, errs2)
  <2>1. PICK b \in a .. Len(t) : First(t, a, b) /\ Lexem(t, s, b, tok, n, errs)
    BY <1>4
  <2>2. PICK d \in a .. Len(t) : First(t, a, d) /\ Lexem(t, s, d, tok2, m, errs2)
    BY <1>4
  <2>3. b = d /\ b \in 1 .. Len(t)
    BY <1>1, <2>1, <2>2, FirstAlone
  <2>4. CASE s = "Main"
    <3>1. /\ t[b] # Quote /\ Lexem(t, "Main", b, tok, n, errs)
          /\ Lexem(t, "Main", b, tok2, m, errs2)
      BY <2>1, <2>2, <2>3, <2>4
    <3> QED
      BY <2>3, <3>1, MainAlone
  <2>5. CASE s = "Expr"
    <3>1. /\ Lexem(t, "Expr", b, tok, n, errs)
          /\ Lexem(t, "Expr", b, tok2, m, errs2)
      BY <2>1, <2>2, <2>3, <2>5
    <3> QED
      BY <2>3, <3>1, ExprAlone
  <2> QED
    BY <2>4, <2>5 DEF Both
<1> QED
  BY <1>1, <1>2, <1>3, <1>4

LEMMA LiteralMet ==
  ASSUME NEW t \in Seq(Symbols), NEW a \in Nat \ {0}, NEW tok, NEW n \in Nat,
         NEW errs, Meets(t, "Main", a, tok, n, errs),
         NEW b, First(t, a, b), t[b] = Quote
  PROVE  Literal(t, b, tok, n, errs)
<1>1. Len(t) \in Nat /\ a \in Nat
  OBVIOUS
<1>2. ~(Blank(t, a, n) /\ n <= Len(t) /\ t[n] = Nul)
  BY <1>1, BlankAlone
<1>3. PICK d \in a .. Len(t) : First(t, a, d) /\ Lexem(t, "Main", d, tok, n, errs)
  BY <1>2 DEF Meets
<1>4. d = b
  BY <1>1, <1>3, FirstAlone
<1>5. b \in 1 .. Len(t)
  BY <1>1, <1>3, <1>4
<1> QED
  BY <1>1, <1>3, <1>4, <1>5, MainKindOf

(* A literal is read up to the place q: what the next characters are.      *)
Partway(t, b, tok, n, errs, w, u, k, q) ==
  /\ Literal(t, b, tok, n, errs) /\ w = tok.val
  /\ u \in Seq(Chars) /\ k = Len(u)
  /\ \A j \in 1 .. k : j <= Len(w) /\ u[j] = w[j]
  /\ q = b + 1 + Place(u, k)

LEMMA LiteralNext ==
  ASSUME NEW t \in Seq(Symbols), NEW b \in Nat \ {0}, NEW tok, NEW n \in Nat,
         NEW errs, NEW w, NEW u, NEW k, NEW q,
         Partway(t, b, tok, n, errs, w, u, k, q)
  PROVE  /\ q \in Nat /\ k \in Nat /\ w \in Seq(Chars)
         /\ \/ k < Len(w) /\ w[k + 1] # Quote /\ t[q] = w[k + 1]
            \/ k < Len(w) /\ w[k + 1] = Quote /\ t[q] = Quote /\ t[q + 1] = Quote
            \/ w = u /\ t[q] = Quote /\ t[q + 1] # Quote /\ n = q + 1
            \/ w = u /\ t[q] = Nul /\ n = q
<1>0. /\ Literal(t, b, tok, n, errs) /\ w = tok.val
      /\ u \in Seq(Chars) /\ k = Len(u)
      /\ \A j \in 1 .. k : j <= Len(w) /\ u[j] = w[j]
      /\ q = b + 1 + Place(u, k)
  BY DEF Partway
<1>1. /\ Twice(t, b + 1, w) /\ w \in Seq(Chars) /\ Len(w) \in Nat
      /\ \/ /\ n = b + 2 + Place(w, Len(w))
            /\ t[n - 1] = Quote /\ t[n] # Quote
         \/ /\ n = b + 1 + Place(w, Len(w)) /\ t[n] = Nul
  BY <1>0 DEF Literal, Twice
<1>2. k \in Nat /\ k <= Len(w)
  <2>1. k \in Nat
    BY <1>0
  <2>2. k > 0 => k \in 1 .. k
    BY <2>1
  <2> QED
    BY <1>0, <1>1, <2>1, <2>2
<1>3. Place(w, k) = Place(u, k)
  BY <1>0, <1>2, PlaceSame
<1>4. PICK y : y = Place(w, k)
  OBVIOUS
<1>5. y \in Nat
  BY <1>2, <1>4, PlaceNat
<1>6. q \in Nat /\ q = b + 1 + y
  BY <1>0, <1>3, <1>4, <1>5
<1>7. CASE k < Len(w)
  <2>1. k + 1 \in 1 .. Len(w)
    BY <1>1, <1>2, <1>7
  <2>2. PICK x : x = Place(w, k + 1)
    OBVIOUS
  <2>3. x = y + (IF w[k + 1] = Quote THEN 2 ELSE 1)
    BY <1>2, <1>4, <2>2, PlaceNext
  <2>4. /\ t[b + 1 + x - 1] = w[k + 1]
        /\ w[k + 1] = Quote => t[b + 1 + x - 2] = Quote
    BY <1>1, <2>1, <2>2 DEF Twice
  <2>5. CASE w[k + 1] = Quote
    <3>1. b + 1 + x - 1 = q + 1 /\ b + 1 + x - 2 = q
      BY <1>5, <1>6, <2>3, <2>5
    <3> QED
      BY <1>1, <1>2, <1>6, <1>7, <2>4, <2>5, <3>1
  <2>6. CASE w[k + 1] # Quote
    <3>1. b + 1 + x - 1 = q
      BY <1>5, <1>6, <2>3, <2>6
    <3> QED
      BY <1>1, <1>2, <1>6, <1>7, <2>4, <2>6, <3>1
  <2> QED
    BY <2>5, <2>6
<1>8. CASE k = Len(w)
  <2>1. w = u
    BY <1>0, <1>1, <1>2, <1>8, SeqEqual
  <2>2. b + 2 + y = q + 1 /\ b + 1 + y = q /\ (q + 1) - 1 = q
    BY <1>5, <1>6
  <2> QED
    BY <1>1, <1>2, <1>4, <1>6, <1>8, <2>1, <2>2
<1> QED
  BY <1>1, <1>2, <1>7, <1>8

(* A table that is read outside is met by no lexeme.                       *)
LEMMA OutsideAlone ==
  ASSUME NEW t \in Seq(Symbols), NEW s, NEW a \in Nat \ {0}, NEW p \in Nat,
         t[p] = Nul, NEW b \in a .. Len(t), First(t, a, b),
         \/ s = "Main" /\ t[b] = "%" /\ p = b + 1
         \/ s = "Expr" /\ t[b] = "[" /\ p = b + 1
         \/ s = "Expr" /\ t[b] = "[" /\ t[b + 1] = ":" /\ p = b + 2,
         NEW tok, NEW n \in Nat, NEW errs, Meets(t, s, a, tok, n, errs)
  PROVE  FALSE
<1>1. Len(t) \in Nat
  OBVIOUS
<1>2. ~(Blank(t, a, n) /\ n <= Len(t) /\ t[n] = Nul)
  BY <1>1, BlankAlone
<1>3. PICK d \in a .. Len(t) :
        First(t, a, d) /\ Lexem(t, s, d, tok, n, errs)
  BY <1>2 DEF Meets
<1>4. d = b /\ b \in 1 .. Len(t) /\ b + 1 \in Nat \ {0} /\ b + 2 \in Nat \ {0}
  BY <1>1, <1>3, FirstAlone
<1>5. CASE s = "Main" /\ t[b] = "%" /\ p = b + 1
  <2>1. Keyword(t, b, tok, n, errs)
    BY <1>1, <1>3, <1>4, <1>5, MainKindOf
  <2>2. ~Word(t, Keywords, "Kw", b + 1, tok, n, errs)
    BY <1>1, <1>4, <1>5, WordFirst
  <2> QED
    BY <1>5, <2>1, <2>2 DEF Keyword
<1>6. CASE s = "Expr" /\ t[b] = "["
  <2>1. Class(t, b, tok, n, errs)
    BY <1>1, <1>3, <1>4, <1>6, ExprKindOf
  <2>2. ASSUME p = b + 2, t[b + 1] = ":"
        PROVE  ~Word(t, Names, "Class", b + 2, tok, n, errs)
    BY <1>1, <1>4, <2>2, WordFirst
  <2>3. Nul # ":"
    BY NulApart
  <2>4. \/ p = b + 1
        \/ p = b + 2 /\ t[b + 1] = ":"
    BY <1>6
  <2> QED
    BY <1>1, <1>4, <2>1, <2>2, <2>3, <2>4 DEF Class
<1> QED
  BY <1>5, <1>6

-----------------------------------------------------------------------------
(* What is given back is read again.                                       *)

LEMMA ProcFrame ==
  ASSUME NEW c \in Chars, Proc(c)
  PROVE  /\ c \in Symbols /\ Reads(c) /\ c # Nul
         /\ scaner' = scaner /\ lexem_begin' = lexem_begin
         /\ given' = given /\ outside' = outside
         /\ pc' \in {"reading", "over"}
<1>0. c \in Symbols /\ c # Nul
  BY ScanersAssumption DEF Symbols
<1>1. CASE Skips(c)
  BY <1>0, <1>1 DEF Skips, More, autVars, begVars, Reads
<1>2. CASE start_main(c) \/ start_expr(c)
  <2>1. PICK a, tok : Begins(a, tok)
    BY <1>2 DEF start_main, start_expr
  <2>2. Reads(c) /\ pc = "reading"
    BY <1>2 DEF start_main, start_expr, Reads
  <2>3. pc' \in {"reading", "over"}
    BY <1>2, <2>2 DEF start_main, start_expr, More, Same, Ends_with
  <2> QED
    BY <1>0, <2>1, <2>2, <2>3 DEF Begins
<1>3. CASE \/ unknown_proc(c) \/ id_proc(c) \/ action_begin(c)
           \/ delimiter_proc(c) \/ char_proc(c) \/ string_proc(c)
  BY <1>0, <1>3 DEF unknown_proc, id_proc, action_begin, delimiter_proc,
       char_proc, string_proc, More, Ends_with, Ends_before, Keeps, Reads
<1>4. CASE keyword_proc(c) \/ classes_proc(c)
  BY <1>0, <1>4 DEF keyword_proc, classes_proc, Enters_table, Follows_table,
                    More, Ends_before, Keeps, Reads
<1> QED
  BY <1>1, <1>2, <1>3, <1>4 DEF Proc

(* The lexeme that was given back is still there to be read.               *)
LEMMA SameKept ==
  ASSUME IInv, NEW c \in Symbols, Reads(c), Same_lexem,
         scaner' = scaner, lexem_begin' = lexem_begin, given' = given
  PROVE  /\ Same_lexem'
         /\ \E errs \in {0, 1} :
              Meets(text', scaner, From, given.token, given.next, errs)
<1>1. Extends(text, text') /\ From \in Nat \ {0}
  BY CharacterRead, Place_of DEF IInv
<1>2. PICK errs \in {0, 1} :
        Meets(text, scaner, From, given.token, given.next, errs)
  BY DEF Same_lexem
<1>3. given.next \in Nat
  BY DEF Same_lexem
<1>4. Meets(text', scaner, From, given.token, given.next, errs)
  BY <1>1, <1>2, <1>3, MeetsStays
<1>5. From' = From
  BY DEF From
<1>6. Same_lexem'
  BY <1>3, <1>4, <1>5 DEF Same_lexem
<1> QED
  BY <1>4, <1>6

(* It is over: what was read is what was given back.                       *)
LEMMA SameRead ==
  ASSUME IInv', scaner \in Both, pc' = "over", ~outside',
         scaner' = scaner, lexem_begin' = lexem_begin, given' = given,
         Same_lexem', From \in Nat \ {0},
         \A b \in From .. Len(text') :
           First(text', From, b) => ~(scaner = "Main" /\ text'[b] = Quote)
  PROVE  given.token = token' /\ given.next = pcurrent_char'
<1>1. From' = From /\ given.next \in Nat
  BY DEF From, Same_lexem
<1>2. PICK errs : Meets(text', scaner, From, given.token, given.next, errs)
  BY <1>1 DEF Same_lexem
<1>3. PICK errs2 : Meets(text', scaner, From, token', pcurrent_char', errs2)
  BY <1>1 DEF IInv, LexInv
<1>4. text' \in Seq(Symbols) /\ pcurrent_char' \in Nat
  BY DEF IInv, TypeOK, Symbols
<1> QED
  BY <1>1, <1>2, <1>3, <1>4, MeetsAlone

(* The lexeme is no literal.                                               *)
LEMMA NoLiteral ==
  ASSUME IInv, NEW c \in Symbols, Reads(c),
         automaton \notin {"A_start", "A_string"}, scaner = "Main",
         NEW b, First(text', From, b)
  PROVE  text'[b] # Quote
<1>1. PICK d \in From .. Len(text') :
        /\ d \in 1 .. Len(text') /\ From \in Nat \ {0}
        /\ First(text', From, d) /\ Progress(text', d)
  BY Underway
<1>2. Len(text') \in Nat
  BY Place_of
<1>3. d = b
  BY <1>1, <1>2, FirstAlone
<1>4. PICK e : e = text'[d]
  OBVIOUS
<1>5. \/ e \in Letters \/ e = "%" \/ e \in Other \cup {"0"}
      \/ e \in Delimiters["Main"]
  BY <1>1, <1>4 DEF Progress, IdRead, ActionRead, KeywordRead, ClassRead,
       DelimiterRead, CharRead, UnknownRead, StringRead, Name
<1>6. /\ e \in Letters => e # Quote
      /\ e \in Delimiters["Main"] => e # Quote
      /\ e \in Other => e # Quote
      /\ e = "%" => e # Quote
      /\ e = "0" => e # Quote
  BY MainKinds
<1> QED
  BY <1>3, <1>4, <1>5, <1>6

(* A literal that is being read again: it begins at b, it is w, and what   *)
(* is in the buffer of it ends before q; c comes next.                     *)
Retold(b, w, q, c) ==
  /\ w = given.token.val /\ given.token = Token("String", w)
  /\ text'[b] = Quote /\ text'[pcurrent_char] = c
  /\ q = b + 1 + Place(buffer, Len(buffer)) /\ q \in Nat
  /\ \/ state = Initial /\ pcurrent_char = b /\ buffer = <<>>
     \/ /\ buffer \in Seq(Chars) /\ w \in Seq(Chars)
        /\ \A j \in 1 .. Len(buffer) : j <= Len(w) /\ buffer[j] = w[j]
        /\ \/ state = String_body /\ pcurrent_char = q
           \/ /\ state = End_string /\ pcurrent_char = q + 1
              /\ text'[q] = Quote
        /\ LET k == Len(buffer)
           IN \/ k < Len(w) /\ w[k + 1] # Quote /\ text'[q] = w[k + 1]
              \/ /\ k < Len(w) /\ w[k + 1] = Quote
                 /\ text'[q] = Quote /\ text'[q + 1] = Quote
              \/ /\ w = buffer /\ text'[q] = Quote
                 /\ text'[q + 1] # Quote /\ given.next = q + 1
              \/ /\ w = buffer /\ text'[q] = Nul /\ given.next = q

LEMMA StringUnderway ==
  ASSUME IInv, AgainInv, given # Nobody, NEW c \in Symbols, Reads(c),
         automaton = "A_string",
         scaner' = scaner, lexem_begin' = lexem_begin, given' = given
  PROVE  \E b \in Nat \ {0} : \E w, q : Retold(b, w, q, c)
<1>1. Same_lexem /\ Same_literal
  BY DEF AgainInv
<1>2. PICK errs : Meets(text', scaner, From, given.token, given.next, errs)
  BY <1>1, SameKept
<1>3. PICK b \in From .. Len(text') :
        /\ b \in 1 .. Len(text') /\ From \in Nat \ {0}
        /\ First(text', From, b) /\ Progress(text', b)
  BY Underway
<1>4. StringRead(text', b)
  BY <1>3, Automaton
<1>5. /\ text' \in Seq(Symbols) /\ Len(text') \in Nat /\ text'[pcurrent_char] = c
      /\ pc = "reading" /\ given.next \in Nat /\ b \in Nat \ {0}
  <2>1. given.next \in Nat
    BY <1>1 DEF Same_lexem
  <2>2. b \in Nat \ {0}
    BY <1>3
  <2> QED
    BY <2>1, <2>2, Place_of
<1>6. text'[b] = Quote /\ scaner = "Main"
  BY <1>4 DEF StringRead
<1>7. Literal(text', b, given.token, given.next, errs)
  <2>1. PICK a : a = From
    OBVIOUS
  <2>2. /\ Meets(text', "Main", a, given.token, given.next, errs)
        /\ First(text', a, b) /\ a \in Nat \ {0}
    BY <1>2, <1>3, <1>6, <2>1
  <2> QED
    BY <1>5, <1>6, <2>2, LiteralMet
<1>8. PICK w : w = given.token.val
  OBVIOUS
<1>9. given.token = Token("String", w)
  BY <1>7, <1>8 DEF Literal
<1>10. CASE state = Initial /\ pcurrent_char = b /\ buffer = <<>>
  <2>1. PICK q : q = b + 1 + Place(buffer, Len(buffer))
    OBVIOUS
  <2>2. Len(buffer) \in Nat
    BY <1>10
  <2>a. Place(buffer, Len(buffer)) \in Nat
    BY <2>2, PlaceNat
  <2>3. q \in Nat
    BY <1>5, <2>1, <2>a
  <2> QED
    <3>1. Retold(b, w, q, c)
      BY <1>5, <1>6, <1>8, <1>9, <1>10, <2>1, <2>3
         DEF Retold
    <3> QED
      BY <1>5, <3>1
<1>11. CASE Twice(text', b + 1, buffer)
            /\ \/ /\ state = String_body
                  /\ pcurrent_char = b + 1 + Place(buffer, Len(buffer))
               \/ /\ state = End_string
                  /\ pcurrent_char = b + 2 + Place(buffer, Len(buffer))
                  /\ text'[pcurrent_char - 1] = Quote
  <2>1. PICK q : q = b + 1 + Place(buffer, Len(buffer))
    OBVIOUS
  <2>2. PICK k : k = Len(buffer)
    OBVIOUS
  <2>3. buffer \in Seq(Chars) /\ k \in Nat
    BY <1>11, <2>2 DEF Twice
  <2>4. \A j \in 1 .. k : j <= Len(w) /\ buffer[j] = w[j]
    BY <1>1, <1>5, <1>8, <2>2 DEF Same_literal
  <2>5. /\ q \in Nat /\ w \in Seq(Chars)
        /\ \/ k < Len(w) /\ w[k + 1] # Quote /\ text'[q] = w[k + 1]
           \/ /\ k < Len(w) /\ w[k + 1] = Quote
              /\ text'[q] = Quote /\ text'[q + 1] = Quote
           \/ /\ w = buffer /\ text'[q] = Quote /\ text'[q + 1] # Quote
              /\ given.next = q + 1
           \/ w = buffer /\ text'[q] = Nul /\ given.next = q
    <3>1. q = b + 1 + Place(buffer, k)
      BY <2>1, <2>2
    <3>2. Partway(text', b, given.token, given.next, errs, w, buffer, k, q)
      BY <1>7, <1>8, <2>2, <2>3, <2>4, <3>1 DEF Partway
    <3> QED
      BY <1>5, <3>2, LiteralNext
  <2>6. Place(buffer, Len(buffer)) \in Nat
    BY <2>2, <2>3, PlaceNat
  <2>7. \/ state = String_body /\ pcurrent_char = q
        \/ state = End_string /\ pcurrent_char = q + 1 /\ text'[q] = Quote
    <3>1. PICK x : x = Place(buffer, Len(buffer))
      OBVIOUS
    <3>2. x \in Nat /\ q = b + 1 + x /\ b + 2 + x = q + 1 /\ (b + 2 + x) - 1 = q
      BY <1>5, <2>1, <2>6, <3>1
    <3> QED
      BY <1>11, <2>1, <3>1, <3>2
  <2> QED
    <3>1. Retold(b, w, q, c)
      BY <1>5, <1>6, <1>8, <1>9, <2>1, <2>2, <2>3, <2>4, <2>5, <2>7
         DEF Retold
    <3> QED
      BY <1>5, <3>1
<1> QED
  BY <1>4, <1>10, <1>11 DEF StringRead

LEMMA StringAgain ==
  ASSUME IInv, AgainInv, given # Nobody, NEW c \in Chars, string_proc(c)
  PROVE  /\ Same_literal'
         /\ pc' = "over" => given.token = token' /\ given.next = pcurrent_char'
<1>0. /\ c \in Symbols /\ c # Nul /\ Reads(c) /\ automaton = "A_string"
      /\ scaner' = scaner /\ lexem_begin' = lexem_begin /\ given' = given
      /\ pc = "reading"
  BY ScanersAssumption DEF Symbols, string_proc, In, Keeps, Reads
<1>a. PICK b \in Nat \ {0} : \E w, q : Retold(b, w, q, c)
  BY <1>0, StringUnderway
<1>b. PICK w, q : Retold(b, w, q, c)
  BY <1>a
<1>1. /\ w = given.token.val /\ given.token = Token("String", w)
      /\ text'[b] = Quote /\ text'[pcurrent_char] = c
      /\ q = b + 1 + Place(buffer, Len(buffer)) /\ q \in Nat
      /\ \/ state = Initial /\ pcurrent_char = b /\ buffer = <<>>
         \/ /\ buffer \in Seq(Chars) /\ w \in Seq(Chars)
            /\ \A j \in 1 .. Len(buffer) : j <= Len(w) /\ buffer[j] = w[j]
            /\ \/ state = String_body /\ pcurrent_char = q
               \/ /\ state = End_string /\ pcurrent_char = q + 1
                  /\ text'[q] = Quote
            /\ LET k == Len(buffer)
               IN \/ k < Len(w) /\ w[k + 1] # Quote /\ text'[q] = w[k + 1]
                  \/ /\ k < Len(w) /\ w[k + 1] = Quote
                     /\ text'[q] = Quote /\ text'[q + 1] = Quote
                  \/ /\ w = buffer /\ text'[q] = Quote
                     /\ text'[q + 1] # Quote /\ given.next = q + 1
                  \/ /\ w = buffer /\ text'[q] = Nul /\ given.next = q
  BY <1>b DEF Retold
<1>2. Nul # Quote
  BY NulApart
<1>3. /\ String_body # Initial /\ End_string # Initial
      /\ String_body # End_string
  BY DEF String_body, End_string, Initial
<1>4. ASSUME \A j \in 1 .. Len(buffer') : j <= Len(w) /\ buffer'[j] = w[j]
      PROVE  Same_literal'
  BY <1>0, <1>1, <1>4 DEF Same_literal
<1>5. CASE state = Initial /\ pcurrent_char = b /\ buffer = <<>>
  <2>1. buffer' = <<>> /\ pc' = "reading"
    BY <1>0, <1>3, <1>5 DEF string_proc, More
  <2>2. \A j \in 1 .. Len(buffer') : j <= Len(w) /\ buffer'[j] = w[j]
    BY <2>1
  <2> QED
    BY <1>4, <2>1, <2>2
<1>6. CASE /\ buffer \in Seq(Chars) /\ w \in Seq(Chars)
           /\ \A j \in 1 .. Len(buffer) : j <= Len(w) /\ buffer[j] = w[j]
           /\ state # Initial
  <2>1. PICK k : k = Len(buffer)
    OBVIOUS
  <2>2. k \in Nat /\ Len(w) \in Nat
    BY <1>6, <2>1
  <2>3. ASSUME buffer' = Append(buffer, c), k < Len(w), w[k + 1] = c
        PROVE  Same_literal'
    <3>1. /\ Len(buffer') = k + 1 /\ buffer'[k + 1] = c
          /\ \A j \in 1 .. k : buffer'[j] = buffer[j]
      BY <1>6, <2>1, <2>3, AppendProperties
    <3>2. \A j \in 1 .. k + 1 : j \in 1 .. k \/ j = k + 1
      BY <2>2
    <3>3. \A j \in 1 .. k + 1 : j <= Len(w) /\ buffer'[j] = w[j]
      BY <1>6, <2>1, <2>2, <2>3, <3>1, <3>2
    <3> QED
      BY <1>4, <3>1, <3>3
  <2>4. ASSUME buffer' = buffer PROVE Same_literal'
    BY <1>4, <1>6, <2>4
  <2>5. \/ state = String_body /\ pcurrent_char = q
        \/ state = End_string /\ pcurrent_char = q + 1 /\ text'[q] = Quote
    BY <1>1, <1>6
  <2>6. \/ k < Len(w) /\ w[k + 1] # Quote /\ text'[q] = w[k + 1]
        \/ /\ k < Len(w) /\ w[k + 1] = Quote
           /\ text'[q] = Quote /\ text'[q + 1] = Quote
        \/ /\ w = buffer /\ text'[q] = Quote
           /\ text'[q + 1] # Quote /\ given.next = q + 1
        \/ w = buffer /\ text'[q] = Nul /\ given.next = q
    BY <1>1, <1>6, <2>1
  <2>7. CASE state = String_body /\ c = Quote
    <3>1. buffer' = buffer /\ pc' = "reading"
      BY <1>0, <1>3, <2>7 DEF string_proc, More
    <3> QED
      BY <2>4, <3>1
  <2>8. CASE state = String_body /\ c # Quote
    <3>1. buffer' = Append(buffer, c) /\ pc' = "reading"
      BY <1>0, <1>3, <2>8 DEF string_proc, More
    <3>2. text'[q] = c
      BY <1>1, <1>3, <2>5, <2>8
    <3>3. k < Len(w) /\ w[k + 1] = c
      BY <1>0, <2>6, <2>8, <3>2
    <3> QED
      BY <2>3, <3>1, <3>3
  <2>9. CASE state = End_string /\ c = Quote
    <3>1. buffer' = Append(buffer, c) /\ pc' = "reading"
      BY <1>0, <1>3, <2>9 DEF string_proc, More
    <3>2. text'[q] = Quote /\ text'[q + 1] = Quote
      BY <1>1, <1>3, <2>5, <2>9
    <3>3. k < Len(w) /\ w[k + 1] = c
      BY <1>2, <2>6, <2>9, <3>2
    <3> QED
      BY <2>3, <3>1, <3>3
  <2>10. CASE state = End_string /\ c # Quote
    <3>1. /\ buffer' = buffer /\ token' = Token("String", buffer)
          /\ pcurrent_char' = pcurrent_char
      BY <1>0, <1>3, <2>10 DEF string_proc, Ends_before
    <3>2. text'[q] = Quote /\ text'[q + 1] # Quote /\ pcurrent_char = q + 1
      BY <1>1, <1>3, <2>5, <2>10
    <3>3. w = buffer /\ given.next = q + 1
      BY <1>2, <2>6, <3>2
    <3> QED
      BY <1>1, <2>4, <3>1, <3>2, <3>3
  <2> QED
    BY <2>5, <2>7, <2>8, <2>9, <2>10
<1> QED
  BY <1>1, <1>3, <1>5, <1>6

(* The text ends in a literal that is read again.                          *)
LEMMA StringEndsAgain ==
  ASSUME IInv, AgainInv, given # Nobody, finals, automaton = "A_string"
  PROVE  given.token = token' /\ given.next = pcurrent_char'
<1>0. /\ Nul \in Symbols /\ Reads(Nul)
      /\ scaner' = scaner /\ lexem_begin' = lexem_begin /\ given' = given
      /\ pcurrent_char' = pcurrent_char /\ token' = Token("String", buffer)
  BY DEF finals, Final_proc, Ends_before, Keeps, Symbols
<1>a. PICK b \in Nat \ {0} : \E w, q : Retold(b, w, q, Nul)
  BY <1>0, StringUnderway
<1>b. PICK w, q : Retold(b, w, q, Nul)
  BY <1>a
<1>1. /\ w = given.token.val /\ given.token = Token("String", w)
      /\ text'[b] = Quote /\ text'[pcurrent_char] = Nul
      /\ q = b + 1 + Place(buffer, Len(buffer)) /\ q \in Nat
      /\ \/ state = Initial /\ pcurrent_char = b /\ buffer = <<>>
         \/ /\ buffer \in Seq(Chars) /\ w \in Seq(Chars)
            /\ \A j \in 1 .. Len(buffer) : j <= Len(w) /\ buffer[j] = w[j]
            /\ \/ state = String_body /\ pcurrent_char = q
               \/ /\ state = End_string /\ pcurrent_char = q + 1
                  /\ text'[q] = Quote
            /\ LET k == Len(buffer)
               IN \/ k < Len(w) /\ w[k + 1] # Quote /\ text'[q] = w[k + 1]
                  \/ /\ k < Len(w) /\ w[k + 1] = Quote
                     /\ text'[q] = Quote /\ text'[q + 1] = Quote
                  \/ /\ w = buffer /\ text'[q] = Quote
                     /\ text'[q + 1] # Quote /\ given.next = q + 1
                  \/ /\ w = buffer /\ text'[q] = Nul /\ given.next = q
  BY <1>b DEF Retold
<1>2. Nul # Quote
  BY NulApart
<1>3. PICK k : k = Len(buffer)
  OBVIOUS
<1>4. /\ buffer \in Seq(Chars) /\ w \in Seq(Chars)
      /\ \/ pcurrent_char = q
         \/ pcurrent_char = q + 1 /\ text'[q] = Quote
      /\ \/ k < Len(w) /\ w[k + 1] # Quote /\ text'[q] = w[k + 1]
         \/ /\ k < Len(w) /\ w[k + 1] = Quote
            /\ text'[q] = Quote /\ text'[q + 1] = Quote
         \/ /\ w = buffer /\ text'[q] = Quote
            /\ text'[q + 1] # Quote /\ given.next = q + 1
         \/ w = buffer /\ text'[q] = Nul /\ given.next = q
  BY <1>1, <1>2, <1>3
<1>5. k < Len(w) => w[k + 1] # Nul
  <2>1. k \in Nat /\ Len(w) \in Nat
    BY <1>3, <1>4
  <2>2. k < Len(w) => k + 1 \in 1 .. Len(w)
    BY <2>1
  <2>3. k < Len(w) => w[k + 1] \in Chars
    BY <1>4, <2>2, ElementOfSeq
  <2> QED
    BY <2>3, ScanersAssumption
<1>6. w = buffer /\ given.next = pcurrent_char
  <2>1. CASE pcurrent_char = q
    BY <1>1, <1>2, <1>4, <1>5, <2>1
  <2>2. CASE pcurrent_char = q + 1 /\ text'[q] = Quote
    BY <1>1, <1>2, <1>4, <2>2
  <2> QED
    BY <1>4, <2>1, <2>2
<1> QED
  BY <1>0, <1>1, <1>6

(* An automaton other than that of literals.                               *)
LEMMA OtherAgain ==
  ASSUME IInv, AgainInv, given # Nobody, NEW c \in Chars, Proc(c), IInv',
         automaton # "A_string"
  PROVE  /\ Same_literal'
         /\ pc' = "over" => given.token = token' /\ given.next = pcurrent_char'
<1>0. /\ c \in Symbols /\ Reads(c) /\ c # Nul
      /\ scaner' = scaner /\ lexem_begin' = lexem_begin
      /\ given' = given /\ outside' = outside
  BY ProcFrame
<1>1. scaner \in Both /\ From \in Nat \ {0} /\ ~outside /\ ~outside'
  BY <1>0, Place_of
<1>2. automaton' = "A_string" => buffer' = <<>>
  <2>1. CASE Skips(c)
    BY <2>1 DEF Skips, autVars
  <2>2. CASE start_main(c)
    BY <2>2 DEF start_main, Begins
  <2>3. CASE start_expr(c)
    BY <2>3 DEF start_expr
  <2>4. CASE \/ unknown_proc(c) \/ id_proc(c) \/ action_begin(c)
             \/ delimiter_proc(c) \/ char_proc(c) \/ string_proc(c)
    <3>1. automaton' = automaton
      BY <2>4 DEF unknown_proc, id_proc, action_begin, delimiter_proc,
                  char_proc, string_proc, Keeps
    <3> QED
      BY <3>1
  <2>5. CASE keyword_proc(c) \/ classes_proc(c)
    <3>1. automaton' = automaton
      BY <2>5 DEF keyword_proc, classes_proc, Enters_table, Follows_table, Keeps
    <3> QED
      BY <3>1
  <2> QED
    BY <2>1, <2>2, <2>3, <2>4, <2>5, ProcFrame DEF Proc
<1>3. Same_literal'
  BY <1>2 DEF Same_literal
<1>4. ASSUME pc' = "over" PROVE given.token = token' /\ given.next = pcurrent_char'
  <2>1. Same_lexem'
    BY <1>0, SameKept DEF AgainInv
  <2>2. automaton = "A_start" => scaner = "Expr"
    <3>1. CASE Skips(c)
      BY <1>0, <1>4, <3>1 DEF Skips, More, Reads
    <3>2. CASE start_main(c)
      BY <1>0, <1>4, <3>2 DEF start_main, More, Same, Reads
    <3>3. CASE start_expr(c)
      BY <3>3 DEF start_expr, In
    <3>4. CASE \/ unknown_proc(c) \/ id_proc(c) \/ action_begin(c)
               \/ delimiter_proc(c) \/ char_proc(c) \/ string_proc(c)
               \/ keyword_proc(c) \/ classes_proc(c)
      BY <3>4 DEF unknown_proc, id_proc, action_begin, delimiter_proc,
                  char_proc, string_proc, keyword_proc, classes_proc, In
    <3> QED
      BY <3>1, <3>2, <3>3, <3>4 DEF Proc
  <2>3. ASSUME NEW b \in From .. Len(text'), First(text', From, b),
               scaner = "Main"
        PROVE  text'[b] # Quote
    BY <1>0, <2>2, <2>3, NoLiteral
  <2> QED
    BY <1>0, <1>1, <1>4, <2>1, <2>3, SameRead
<1> QED
  BY <1>3, <1>4

LEMMA ProcAgain ==
  ASSUME IInv, AgainInv, NEW c \in Chars, Proc(c), IInv'
  PROVE  AgainInv'
<1>0. /\ c \in Symbols /\ Reads(c) /\ c # Nul
      /\ scaner' = scaner /\ lexem_begin' = lexem_begin
      /\ given' = given /\ outside' = outside
      /\ pc' \in {"reading", "over"}
  BY ProcFrame
<1>1. CASE given = Nobody
  BY <1>0, <1>1 DEF AgainInv
<1>2. CASE given # Nobody
  <2>1. Same_lexem'
    BY <1>0, <1>2, SameKept DEF AgainInv
  <2>2. ~outside'
    BY <1>0, Place_of
  <2>3. /\ Same_literal'
        /\ pc' = "over" => given.token = token' /\ given.next = pcurrent_char'
    <3>1. CASE automaton = "A_string"
      <4>1. string_proc(c)
        BY <3>1 DEF Proc, Skips, start_main, start_expr, unknown_proc, id_proc,
             action_begin, keyword_proc, classes_proc, delimiter_proc,
             char_proc, In
      <4> QED
        BY <1>2, <4>1, StringAgain
    <3> QED
      BY <1>2, <3>1, OtherAgain
  <2> QED
    BY <1>0, <2>1, <2>2, <2>3 DEF AgainInv
<1> QED
  BY <1>1, <1>2

LEMMA FinalAgain ==
  ASSUME IInv, AgainInv, finals, IInv'
  PROVE  AgainInv'
<1>0. /\ Nul \in Symbols /\ Reads(Nul) /\ pc' = "over"
      /\ scaner' = scaner /\ lexem_begin' = lexem_begin /\ given' = given
  BY DEF finals, Ends_before, Keeps, Symbols
<1>1. CASE given = Nobody
  BY <1>0, <1>1 DEF AgainInv
<1>2. CASE given # Nobody
  <2>1. /\ Same_lexem'
        /\ \E errs \in {0, 1} :
             Meets(text', scaner, From, given.token, given.next, errs)
    BY <1>0, <1>2, SameKept DEF AgainInv
  <2>2. scaner \in Both /\ From \in Nat \ {0} /\ From' = From
    BY <1>0, Place_of DEF From
  <2>3. ASSUME outside' PROVE FALSE
    <3>1. ReadOutside' /\ text' \in Seq(Symbols) /\ pcurrent_char' \in Nat
      BY <1>0, <2>2, <2>3 DEF IInv, LexInv, TypeOK, Symbols
    <3>2. PICK errs : Meets(text', scaner, From, given.token, given.next, errs)
      BY <2>1
    <3>3. given.next \in Nat
      BY <2>1, <1>0 DEF Same_lexem
    <3>4. text'[pcurrent_char'] = Nul
      BY <3>1 DEF ReadOutside, Ahead
    <3>5. PICK b \in From .. Len(text') :
            /\ First(text', From, b)
            /\ \/ scaner = "Main" /\ text'[b] = "%" /\ pcurrent_char' = b + 1
               \/ scaner = "Expr" /\ text'[b] = "[" /\ pcurrent_char' = b + 1
               \/ /\ scaner = "Expr" /\ text'[b] = "[" /\ text'[b + 1] = ":"
                  /\ pcurrent_char' = b + 2
      BY <1>0, <2>2, <3>1 DEF ReadOutside
    <3> QED
      BY <2>2, <3>1, <3>2, <3>3, <3>4, <3>5, OutsideAlone
  <2>4. given.token = token' /\ given.next = pcurrent_char'
    <3>1. CASE automaton = "A_string"
      BY <1>2, <3>1, StringEndsAgain
    <3>2. CASE automaton # "A_string"
      <4>1. ASSUME NEW b \in From .. Len(text'), First(text', From, b),
                   scaner = "Main"
            PROVE  text'[b] # Quote
        <5>1. CASE automaton = "A_start"
          <6>1. /\ Extends(text, text') /\ pcurrent_char \in 1 .. Len(text')
                /\ text'[pcurrent_char] = Nul
            BY <1>0, CharacterRead DEF IInv
          <6>2. Blank(text, From, pcurrent_char)
            BY <1>0, <5>1, Automaton DEF IInv, LexInv, Started, Reads
          <6>3. pcurrent_char \in 1 .. Len(text) + 1
            BY DEF IInv, TypeOK
          <6>4. Blank(text', From, pcurrent_char)
            BY <2>2, <6>1, <6>2, <6>3, BlankStays
          <6>5. Len(text') \in Nat /\ pcurrent_char <= Len(text')
                /\ pcurrent_char \in Nat
            BY <1>0, <6>1, Place_of
          <6> QED
            BY <2>2, <4>1, <6>1, <6>4, <6>5, BlankAlone
        <5>2. CASE automaton # "A_start"
          BY <1>0, <3>2, <4>1, <5>2, NoLiteral
        <5> QED
          BY <5>1, <5>2
      <4> QED
        BY <1>0, <2>1, <2>2, <2>3, <4>1, SameRead
    <3> QED
      BY <3>1, <3>2
  <2>5. Same_literal'
    BY <1>0 DEF Same_literal
  <2> QED
    BY <1>0, <2>1, <2>3, <2>4, <2>5 DEF AgainInv
<1> QED
  BY <1>1, <1>2

LEMMA BackAgain ==
  ASSUME IInv, AgainInv, back
  PROVE  AgainInv'
<1>0. /\ pc = "over" /\ pc' = "back" /\ scaner \in Both
      /\ scaner' = scaner /\ text' = text
      /\ lexem_begin' = lexem_begin /\ pcurrent_char' = lexem_begin[scaner]
      /\ given' = IF outside THEN Nobody
              ELSE [scaner |-> scaner, token |-> token, next |-> pcurrent_char]
  BY DEF back, begVars
<1>1. CASE outside
  BY <1>0, <1>1 DEF AgainInv
<1>2. CASE ~outside
  <2>1. Meets(text, scaner, From, token, pcurrent_char, Errors)
    BY <1>0, <1>2 DEF IInv, LexInv
  <2>2. Errors \in {0, 1} /\ pcurrent_char \in Nat
    BY DEF Errors, IInv, TypeOK
  <2>3. /\ given'.scaner = scaner /\ given'.token = token
        /\ given'.next = pcurrent_char
        /\ given' = [scaner |-> scaner, token |-> token, next |-> pcurrent_char]
    BY <1>0, <1>2
  <2>4. From' = From
    BY <1>0 DEF From
  <2>5. Same_lexem'
    BY <1>0, <2>1, <2>2, <2>3, <2>4 DEF Same_lexem
  <2>6. Same_literal'
    BY <1>0 DEF Same_literal
  <2> QED
    BY <1>0, <2>5, <2>6 DEF AgainInv, From
<1> QED
  BY <1>1, <1>2

LEMMA CallAgain ==
  ASSUME IInv, AgainInv, NEW s \in Both, current_lexem(s)
  PROVE  AgainInv'
<1>0. /\ pc' = "reading" /\ scaner' = s /\ automaton' = "A_start"
      /\ lexem_begin' = [lexem_begin EXCEPT ![s] = pcurrent_char]
      /\ given' = IF pc = "back" /\ scaner = s THEN given ELSE Nobody
      /\ text' = text
  BY DEF current_lexem, locVars
<1>1. CASE ~(pc = "back" /\ scaner = s) \/ given = Nobody
  BY <1>0, <1>1 DEF AgainInv
<1>2. CASE pc = "back" /\ scaner = s /\ given # Nobody
  <2>1. given' = given /\ scaner' = scaner
    BY <1>0, <1>2
  <2>2. Same_lexem /\ pcurrent_char = From
    BY <1>2 DEF AgainInv
  <2>3. lexem_begin'[s] = pcurrent_char
    BY <1>0 DEF IInv, TypeOK
  <2>4. From' = From
    BY <1>0, <2>2, <2>3 DEF From
  <2>5. Same_lexem'
    BY <1>0, <2>1, <2>2, <2>4 DEF Same_lexem
  <2>6. Same_literal'
    BY <1>0 DEF Same_literal
  <2> QED
    BY <1>0, <2>5, <2>6 DEF AgainInv
<1> QED
  BY <1>1, <1>2

LEMMA AgainAlways == Spec => [](IInv /\ AgainInv)
<1>1. Init => AgainInv
  BY DEF Init, AgainInv
<1>2. ASSUME IInv, AgainInv, Next, IInv' PROVE AgainInv'
  <2>1. ASSUME NEW s \in Both, current_lexem(s) PROVE AgainInv'
    BY <1>2, <2>1, CallAgain
  <2>2. ASSUME NEW c \in Chars, Proc(c) PROVE AgainInv'
    BY <1>2, <2>2, ProcAgain
  <2> QED
    BY <1>2, <2>1, <2>2, FinalAgain, BackAgain DEF Next
<1>3. ASSUME IInv, AgainInv, UNCHANGED vars PROVE AgainInv'
  <2>1. From' = From
    BY <1>3 DEF vars, begVars, From
  <2>2. Same_lexem' <=> Same_lexem
    BY <1>3, <2>1 DEF vars, locVars, Same_lexem
  <2>3. Same_literal' <=> Same_literal
    BY <1>3 DEF vars, autVars, Same_literal
  <2> QED
    BY <1>3, <2>1, <2>2, <2>3 DEF AgainInv, vars, locVars, autVars
<1>4. IInv /\ AgainInv /\ [Next]_vars /\ IInv' => AgainInv'
  BY <1>2, <1>3
<1> QED
  BY Invariant, <1>1, <1>4, PTL DEF Spec

(* A lexeme that is given back and read again, by the same scanner, is the *)
(* same lexeme to the same place, on every text and however often it is    *)
(* given back (Scaner::back).                                              *)
THEOREM ReadAlwaysAgain == Spec => []ReadAgain
<1>1. ASSUME AgainInv PROVE ReadAgain
  BY <1>1 DEF AgainInv, Same_lexem, ReadAgain
<1> QED
  BY AgainAlways, <1>1, PTL
=============================================================================
