-------------------------- MODULE KwSectionsProofs --------------------------
(***************************************************************************)
(* Proofs about KwSections, for every set of indices, every alphabet and   *)
(* every length of text.  What a step of the parser itself does is proved  *)
(* in KwParserProofs.                                                      *)
(***************************************************************************)
EXTENDS KwSections, KwParserProofs, Integers

(* The inductive invariant.                                                *)
IInv == TypeOK /\ StaleIsLiteral

-----------------------------------------------------------------------------
(* What a step may do to the tables: nothing, or add one string, or add    *)
(* one code.                                                               *)
Codes == (\E i \in Indices, bad \in BOOLEAN : add_new_lexem_code(i, bad))
         /\ UNCHANGED repres

LEMMA InitInv == Init => IInv
<1> SUFFICES ASSUME Init PROVE IInv
  OBVIOUS
<1>1. ReaderTypeOK /\ ScopeTypeOK
  BY ReaderInitType, ScopeInitType DEF Init
<1>2. KwTypeOK
  BY IndicesNat DEF Init, KwInit, KwTypeOK
<1> QED
  BY <1>1, <1>2 DEF Init, IInv, TypeOK, StaleIsLiteral, KwAt, KwSections

LEMMA Step ==
  ASSUME IInv, Next
  PROVE  IInv' /\ (Effect \/ Unscoped \/ Codes)
<1>0. ReaderTypeOK /\ 0 \in StrIdxs /\ Ids \subseteq Indices
  BY IndicesNat DEF IInv, TypeOK
<1>1. CASE dispatch
  <2>1. PICK l \in Upcoming : peek(l)
    BY <1>1 DEF dispatch
  <2>2. ReaderTypeOK'
    BY <1>0, <2>1, ReadType
  <2>3. ScopeTypeOK' /\ KwTypeOK'
    BY <1>0, <1>1 DEF dispatch, IInv, TypeOK, ScopeTypeOK, KwTypeOK, scopeVars
  <2>4. state' = "call" /\ pc' \in KwSections
    BY <1>1 DEF dispatch, KwSections
  <2> QED
    BY <1>1, <2>2, <2>3, <2>4
       DEF dispatch, IInv, TypeOK, StaleIsLiteral, KwAt, Unscoped, scopeVars
<1>2. CASE codes_sec
  <2>0. pc' = "parse" /\ state' = state /\ repres' = repres
    BY <1>2 DEF codes_sec
  <2>1. PICK l \in Upcoming :
          \/ /\ current_lexem(l)
             /\ \E i \in Ids : add_new_lexem_code(i, FALSE)
          \/ /\ peek(l)
             /\ Diagnose(TRUE)
             /\ UNCHANGED <<idsc, strsc, codes, last_code>>
    BY <1>2 DEF codes_sec
  <2>2. ReaderTypeOK'
    BY <1>0, <2>1, ReadType
  <2>3. ScopeTypeOK' /\ (Unscoped \/ Codes)
    <3>1. CASE \E i \in Ids : add_new_lexem_code(i, FALSE)
      BY <1>0, <2>0, <3>1, NewLexemCodeType DEF IInv, TypeOK, Codes
    <3>2. CASE Diagnose(TRUE) /\ UNCHANGED <<idsc, strsc, codes, last_code>>
      BY <2>0, <3>2 DEF IInv, TypeOK, ScopeTypeOK, Diagnose, Unscoped
    <3> QED
      BY <2>1, <3>1, <3>2
  <2>4. KwTypeOK'
    BY <1>0, <1>2 DEF codes_sec, IInv, TypeOK, KwTypeOK
  <2> QED
    BY <2>0, <2>2, <2>3, <2>4
       DEF IInv, TypeOK, StaleIsLiteral, KwAt, KwSections
<1>3. CASE finish
  <2>1. ReaderTypeOK'
    BY <1>0, <1>3, ReadType DEF finish
  <2> QED
    BY <1>3, <2>1 DEF finish, IInv, TypeOK, ScopeTypeOK, KwTypeOK, scopeVars,
                      kwVars, StaleIsLiteral, KwAt, KwSections, Unscoped
<1>4. CASE KwNext
  BY <1>4, KwStep DEF IInv, TypeOK, KwInv, KwTypes, Effect, Moved
<1> QED
  BY <1>1, <1>2, <1>3, <1>4 DEF Next

LEMMA Stutter ==
  ASSUME IInv, UNCHANGED vars
  PROVE  IInv'
BY DEF IInv, TypeOK, ReaderTypeOK, ScopeTypeOK, KwTypeOK, StaleIsLiteral,
       KwAt, vars, readerVars, scopeVars, kwVars

(* The types are kept on every text, of every length; and the stale token  *)
(* add_new_string may be called with is a literal read a moment before.    *)
THEOREM Invariant == Spec => []IInv
<1>1. IInv /\ [Next]_vars => IInv'
  BY Step, Stutter
<1> QED
  BY InitInv, <1>1, PTL DEF Spec

(* The types of reader, scope and parser, on their own.                    *)
THEOREM TypeCorrect == Spec => []TypeOK
<1>1. IInv => TypeOK
  BY DEF IInv
<1> QED
  BY Invariant, <1>1, PTL

(* At the comma of an incomplete definition the token holds the literal of *)
(* that definition, on every text.                                         *)
THEOREM StaleAlwaysLiteral == Spec => []StaleIsLiteral
<1>1. IInv => StaleIsLiteral
  BY DEF IInv
<1> QED
  BY Invariant, <1>1, PTL

-----------------------------------------------------------------------------
(* The enumeration.  Here no identifier is excepted: -1 is none.           *)
LEMMA NumberedNone ==
  /\ Numbered <=> NumberedBut(-1)
  /\ Numbered' <=> NumberedBut(-1)'
<1>1. Indices \ {-1} = Indices
  BY IndicesNat
<1> QED
  BY <1>1 DEF Numbered, NumberedBut

(* Every lexeme code knows its place in the enumeration, which has no      *)
(* gaps: what a section adds, it adds to both.                             *)
THEOREM NumberedAlways == Spec => []Numbered
<1>1. Init => Numbered
  BY ScopeInitType, NumberedNone DEF Init
<1>2. IInv /\ Numbered /\ [Next]_vars => Numbered'
  <2> SUFFICES ASSUME IInv, NumberedBut(-1), [Next]_vars
               PROVE  NumberedBut(-1)'
    BY NumberedNone
  <2>1. CASE UNCHANGED <<idsc, codes, last_code>>
    BY <2>1 DEF NumberedBut
  <2>2. CASE \E i \in Indices : NewCode(i)
    BY <2>2, NewCodeNumbered DEF IInv, TypeOK
  <2>3. CASE Effect
    BY <2>3, EffectNumbered DEF IInv, TypeOK, KwInv, KwTypes
  <2>4. Unscoped \/ UNCHANGED vars => UNCHANGED <<idsc, codes, last_code>>
    BY DEF Unscoped, vars, scopeVars
  <2>5. Codes => \/ UNCHANGED <<idsc, codes, last_code>>
                 \/ \E i \in Indices : NewCode(i)
    BY DEF Codes, add_new_lexem_code
  <2> QED
    BY <2>1, <2>2, <2>3, <2>4, <2>5, Step
<1> QED
  BY Invariant, <1>1, <1>2, PTL DEF Spec

-----------------------------------------------------------------------------
(* The tables of literals.                                                 *)

(* The vectors of keywords and delimiters hold exactly the literals that   *)
(* the scope has as such, each once.                                       *)
THEOREM RegisteredAlways == Spec => []Registered
<1>1. Init => Registered
  BY DEF Init, ScopeInit, KwInit, Registered, Listed, Once, NoneLost, KindOf,
         Absent
<1>2. IInv /\ Registered /\ [Next]_vars => Registered'
  <2> SUFFICES ASSUME IInv, Registered, [Next]_vars PROVE Registered'
    OBVIOUS
  <2>1. CASE UNCHANGED <<strsc, repres>>
    BY <2>1 DEF Registered, Listed, Once, NoneLost
  <2>2. CASE Effect
    BY <2>2, EffectRegistered DEF IInv, TypeOK, KwInv, KwTypes
  <2>3. Unscoped \/ Codes \/ UNCHANGED vars => UNCHANGED <<strsc, repres>>
    BY DEF Unscoped, Codes, add_new_lexem_code, vars, scopeVars, kwVars
  <2> QED
    BY <2>1, <2>2, <2>3, Step
<1> QED
  BY Invariant, <1>1, <1>2, PTL DEF Spec

(* No step takes a definition back or changes it.                          *)
THEOREM FirstDefinitionAlways == Spec => FirstDefinitionStays
<1> DEFINE Stays ==
      /\ \A i \in StrIdxs : Defined(strsc, i) => strsc'[i] = strsc[i]
      /\ \A s \in KwSections : Len(repres'[s]) >= Len(repres[s])
<1>1. IInv /\ [Next]_vars => [Stays]_vars
  <2> SUFFICES ASSUME IInv, Next PROVE Stays
    BY DEF IInv
  <2>0. \A s \in KwSections : Len(repres[s]) \in Nat
    BY DEF IInv, TypeOK, KwTypeOK
  <2>1. CASE UNCHANGED <<strsc, repres>>
    BY <2>0, <2>1
  <2>2. CASE Effect /\ ~UNCHANGED repres
    <3>1. \A i \in StrIdxs : Defined(strsc, i) => strsc'[i] = strsc[i]
      BY <2>2, EffectFirst DEF IInv, TypeOK, KwInv, KwTypes
    <3>2. PICK i \in StrIdxs :
            repres' = [repres EXCEPT ![pc] = Append(repres[pc], i)]
      BY <2>2 DEF Effect, Unscoped, Adds, add_new_string
    <3>3. pc \in KwSections /\ repres[pc] \in Seq(StrIdxs)
      BY <2>2 DEF Effect, IInv, TypeOK, KwTypeOK
    <3>4. Len(repres'[pc]) = Len(repres[pc]) + 1
      BY <3>2, <3>3 DEF IInv, TypeOK, KwTypeOK
    <3> QED
      BY <2>0, <3>1, <3>2, <3>3, <3>4 DEF IInv, TypeOK, KwTypeOK
  <2>3. CASE Effect /\ UNCHANGED repres
    BY <2>0, <2>3, EffectFirst DEF IInv, TypeOK, KwInv, KwTypes
  <2>4. Unscoped \/ Codes => UNCHANGED <<strsc, repres>>
    BY DEF Unscoped, Codes, add_new_lexem_code
  <2> QED
    BY <2>1, <2>2, <2>3, <2>4, Step
<1> QED
  BY Invariant, <1>1, PTL DEF Spec, FirstDefinitionStays

-----------------------------------------------------------------------------
(* The parser implements the automaton of its header: as long as nothing   *)
(* has been diagnosed, what a section has read is a path of it.            *)
THEOREM ImplementsGrammar == Spec => FollowsGrammar
<1>1. Init => KwGrammar!Init
  BY DEF Init, ScopeInit, KwGrammar!Init, KwPlace, KwSections
<1>2. IInv /\ [Next]_vars => [KwGrammar!Next]_KwGrammar!vars
  <2>1. ASSUME UNCHANGED vars PROVE UNCHANGED KwGrammar!vars
    BY <2>1 DEF vars, readerVars, scopeVars, KwGrammar!vars, KwPlace
  <2> SUFFICES ASSUME IInv, Next PROVE KwGrammar!Next
    BY <2>1
  <2>2. CASE erroneous'
    BY <2>2 DEF KwGrammar!Next, KwGrammar!Diagnose, KwPlace
  <2>3. CASE ~erroneous'
    <3>1. CASE dispatch
      BY <2>3, <3>1, OutsideStep DEF dispatch, scopeVars, KwSections
    <3>2. CASE codes_sec
      BY <2>3, <3>2, OutsideStep DEF codes_sec, add_new_lexem_code, Diagnose,
         IInv, TypeOK, ScopeTypeOK, KwSections
    <3>3. CASE finish
      BY <2>3, <3>3, OutsideStep DEF finish, scopeVars, KwSections
    <3>4. CASE KwNext
      BY <3>4, GrammarStep DEF IInv, TypeOK, KwInv, KwTypes
    <3> QED
      BY <3>1, <3>2, <3>3, <3>4 DEF Next
  <2> QED
    BY <2>2, <2>3
<1> QED
  BY Invariant, <1>1, <1>2, PTL DEF Spec, FollowsGrammar, KwGrammar!Spec
=============================================================================
