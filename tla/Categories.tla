----------------------------- MODULE Categories -----------------------------
(***************************************************************************)
(* The characters of the generated scanner and the categories they are     *)
(* grouped into: generalized_char, sets_for_classes and categories.        *)
(*                                                                         *)
(* A generalized character is a natural number in the order operator<      *)
(* gives it: epsilon first, then the characters by their codes, then the   *)
(* two classes that no set of characters replaces.                         *)
(***************************************************************************)
EXTENDS Naturals, FiniteSets

CONSTANTS Chars,       \* the codes of the characters expressions mention
          char_classes \* sets_for_char_classes: the characters of a class

Epsilon == 0
G_ndq   == 1114112
G_nsq   == 1114113

DoubleQuote == 34
SingleQuote == 39

(* The two classes of quotes have no set of their own.                     *)
QuoteClasses == {"ndq", "nsq"}

ASSUME CategoriesAssumption ==
  /\ Chars \subseteq 1 .. G_ndq - 1
  /\ {DoubleQuote, SingleQuote} \subseteq Chars
  /\ \A cls \in DOMAIN char_classes : char_classes[cls] \subseteq Chars
  /\ DOMAIN char_classes \cap QuoteClasses = {}

(* No class is empty.                                                      *)
ASSUME ClassesAssumption ==
  \A cls \in DOMAIN char_classes : char_classes[cls] # {}

Classes   == DOMAIN char_classes \cup QuoteClasses
Gen_chars == Chars \cup {G_ndq, G_nsq}

(* The elements of a set of numbers in their order, as a std::set has them.*)
InOrder(S) ==
  [k \in 1 .. Cardinality(S) |->
     CHOOSE x \in S : Cardinality({y \in S : y < x}) = k - 1]

-----------------------------------------------------------------------------
(* Category: a kind, and a set that only Set_of_cs uses.                   *)

Category(kind) == [kind |-> kind, s |-> {}]
All_chars        == Category("All_chars")
Not_single_quote == Category("Not_single_quote")
Not_double_quote == Category("Not_double_quote")
Set_of_cs(s)     == [kind |-> "Set_of_cs", s |-> s]

Categories ==
  {All_chars, Not_single_quote, Not_double_quote}
  \cup {Set_of_cs(s) : s \in SUBSET Chars}

IsSet(c)       == c.kind = "Set_of_cs"
IsQuoteless(c) == c.kind \in {"Not_single_quote", "Not_double_quote"}
Quote(c) == IF c.kind = "Not_single_quote" THEN SingleQuote ELSE DoubleQuote

gc2category(gc) ==
  CASE gc = G_ndq -> Not_double_quote
    [] gc = G_nsq -> Not_single_quote
    [] OTHER      -> Set_of_cs({gc})

(* Mutant: a set that holds the quote is thought to be covered.            *)
Plus_forgetful(c1, c2) ==
  CASE IsSet(c1) /\ IsSet(c2)       -> Set_of_cs(c1.s \cup c2.s)
    [] c1 = All_chars \/ c2 = All_chars -> All_chars
    [] ~IsSet(c1) /\ ~IsSet(c2)     -> IF c1 = c2 THEN c1 ELSE All_chars
    [] ~IsSet(c1) /\ IsSet(c2)      -> c1
    [] OTHER                        -> c2

(* operator +                                                              *)
Plus(c1, c2) ==
  CASE IsSet(c1) /\ IsSet(c2)       -> Set_of_cs(c1.s \cup c2.s)
    [] c1 = All_chars \/ c2 = All_chars -> All_chars
    [] ~IsSet(c1) /\ ~IsSet(c2)     -> IF c1 = c2 THEN c1 ELSE All_chars
    [] ~IsSet(c1) /\ IsSet(c2)      -> IF Quote(c1) \in c2.s THEN All_chars
                                                             ELSE c1
    [] OTHER                        -> IF Quote(c2) \in c1.s THEN All_chars
                                                             ELSE c2

(* Mutant: of two sets the second has to hold the first.                  *)
Meets_inside(c1, c2) ==
  CASE IsSet(c1) /\ IsSet(c2)       -> c1.s # {} /\ c1.s \subseteq c2.s
    [] ~IsSet(c1) /\ ~IsSet(c2)     -> TRUE
    [] c1 = All_chars /\ IsSet(c2)  -> c2.s # {}
    [] IsSet(c1) /\ c2 = All_chars  -> c1.s # {}
    [] IsQuoteless(c1) /\ IsSet(c2) -> c2.s # {Quote(c1)}
    [] OTHER                        -> c1.s # {Quote(c2)}

(* operator *                                                              *)
Meets(c1, c2) ==
  CASE IsSet(c1) /\ IsSet(c2)       -> c1.s \cap c2.s # {}
    [] ~IsSet(c1) /\ ~IsSet(c2)     -> TRUE
    [] c1 = All_chars /\ IsSet(c2)  -> c2.s # {}
    [] IsSet(c1) /\ c2 = All_chars  -> c1.s # {}
    [] IsQuoteless(c1) /\ IsSet(c2) -> c2.s # {Quote(c1)}
    [] OTHER                        -> c1.s # {Quote(c2)}

-----------------------------------------------------------------------------
(* What a category stands for: a character no expression mentions is one   *)
(* of the characters outside Chars.                                        *)

Unmentioned == 1114114
AnyChar     == Chars \cup {Unmentioned}

Denotes(c) ==
  CASE c.kind = "All_chars" -> AnyChar
    [] IsSet(c)             -> c.s
    [] OTHER                -> AnyChar \ {Quote(c)}

Covers(gc) == Denotes(gc2category(gc))
=============================================================================
