--------------------------- MODULE KwParserProofs ---------------------------
(***************************************************************************)
(* Lemmas about the operators every section parser is built from, reading  *)
(* a lexeme and entering attributes into the scope; and about KW_parser,   *)
(* whoever calls it: what one step of the parser at work does to the       *)
(* reader, the scope and the enumeration.                                  *)
(***************************************************************************)
EXTENDS KwParser, TLAPS

-----------------------------------------------------------------------------
(* Reading.                                                                *)

(* What may come next is a lexeme.                                         *)
LEMMA UpcomingLexem ==
  ASSUME ReaderTypeOK, NEW l \in Upcoming
  PROVE  /\ l \in Lexems
         /\ l.code \in LexemCodes
         /\ l.code = "Id" => l.val \in Ids
         /\ l.code = "String" => l.val \in Strs
<1>1. "None" \in LexemCodes \ {"Id", "String", "Opened_fig_brack"}
  BY DEF LexemCodes
<1>2. Eof \in Lexems
  BY <1>1 DEF Eof, Lexems
<1>3. l \in Lexems
  BY <1>2 DEF ReaderTypeOK, Upcoming
<1>4. {"Id", "String", "Opened_fig_brack"} \subseteq LexemCodes
  BY DEF LexemCodes
<1>5. /\ l.code \in LexemCodes
      /\ l.code = "Id" => l.val \in Ids
      /\ l.code = "String" => l.val \in Strs
  BY <1>3, <1>4 DEF Lexems
<1> QED
  BY <1>3, <1>5

(* Reading a lexeme, or looking at it, keeps the types of the reader.      *)
LEMMA ReadType ==
  ASSUME ReaderTypeOK, NEW l \in Upcoming, current_lexem(l) \/ peek(l)
  PROVE  /\ ReaderTypeOK'
         /\ li' = Token(l)
<1>1. l \in Lexems /\ l.code \in LexemCodes
      /\ (l.code = "Id" => l.val \in Ids) /\ (l.code = "String" => l.val \in Strs)
  BY UpcomingLexem
<1>2. li' = Token(l)
  BY DEF current_lexem, peek, Meet
<1>3. li' \in [code : LexemCodes, val : Ids \cup Strs \cup Garbage]
  BY <1>1, <1>2 DEF Token, ReaderTypeOK
<1>4. fed' \in 0 .. MaxLexems
  BY ReaderAssumption DEF ReaderTypeOK, current_lexem, peek, Meet, Upcoming
<1>5. look' \in Lexems \cup {NoLexem}
  BY <1>1 DEF current_lexem, peek
<1> QED
  BY <1>2, <1>3, <1>4, <1>5 DEF ReaderTypeOK

-----------------------------------------------------------------------------
(* The tables.                                                             *)

(* A literal and an identifier index are both indices of the maps.         *)
LEMMA IndicesNat ==
  /\ StrIdxs \subseteq Indices /\ IdIdxs \subseteq Indices
  /\ Ids \subseteq Indices /\ Strs \subseteq StrIdxs
  /\ 0 \in StrIdxs
  /\ Indices \subseteq Nat
<1>1. StrIdxs \subseteq Nat
  BY ReaderAssumption, ScopeAssumption DEF StrIdxs
<1>2. IdIdxs \subseteq Nat
  BY ReaderAssumption, ScopeAssumption DEF IdIdxs
<1> QED
  BY <1>1, <1>2 DEF Indices, StrIdxs, IdIdxs

(* A new code is entered with the types of the scope.                      *)
LEMMA NewCodeType ==
  ASSUME ScopeTypeOK, NEW i \in Indices, NewCode(i)
  PROVE  /\ idsc' \in [Indices -> IdAttr]
         /\ codes' \in Seq(Indices)
         /\ last_code' \in Nat
<1>1. [kind |-> "Code_of_lexem", code |-> last_code + 1] \in IdAttr
  BY DEF ScopeTypeOK, IdAttr, IdKinds
<1> QED
  BY <1>1 DEF ScopeTypeOK, NewCode

(* So is what a %codes section enters.                                     *)
LEMMA NewLexemCodeType ==
  ASSUME ScopeTypeOK, NEW i \in Indices, NEW bad \in BOOLEAN,
         add_new_lexem_code(i, bad)
  PROVE  ScopeTypeOK'
BY NewCodeType DEF add_new_lexem_code, ScopeTypeOK, Diagnose

(* The reader starts with the types of a lexeme stream, ...                *)
LEMMA ReaderInitType == ReaderInit => ReaderTypeOK
BY ReaderAssumption DEF ReaderInit, ReaderTypeOK, LexemCodes

(* ... and Main_parser_data() leaves a scope of the right types, in which  *)
(* None and Unknown know their places.                                     *)
LEMMA ScopeInitType ==
  ASSUME ScopeInit
  PROVE  ScopeTypeOK /\ \A j : NumberedBut(j)
<1>1. /\ builtin["None"] \in Indices /\ builtin["Unknown"] \in Indices
      /\ write_body \in Nat
      /\ builtin["None"] # builtin["Unknown"]
  BY ScopeAssumption DEF Indices, IdIdxs, BuiltinNames
<1>2. idsc \in [Indices -> IdAttr]
  BY <1>1 DEF ScopeInit, IdAttr, IdKinds
<1>3. strsc \in [StrIdxs -> StrAttr]
  BY DEF ScopeInit, StrAttr, StrKinds
<1>4. <<builtin["None"], builtin["Unknown"]>> \in Seq(Indices)
  BY <1>1
<1>5. codes \in Seq(Indices) /\ last_code \in Nat /\ erroneous \in BOOLEAN
  BY <1>4 DEF ScopeInit
<1>6. ASSUME NEW j PROVE NumberedBut(j)
  BY <1>1 DEF ScopeInit, NumberedBut, Absent
<1> QED
  BY <1>2, <1>3, <1>5, <1>6 DEF ScopeTypeOK

(* A new code takes the next place of the enumeration; nobody else moves.  *)
LEMMA NewCodeNumbered ==
  ASSUME ScopeTypeOK, NEW j, NumberedBut(j), NEW i \in Indices, NewCode(i)
  PROVE  NumberedBut(j)'
<1>1. Len(codes') = last_code' + 1
  BY DEF NewCode, NumberedBut, ScopeTypeOK
<1>2. ASSUME NEW k \in Indices \ {j}, idsc'[k].kind = "Code_of_lexem"
      PROVE  /\ idsc'[k].code <= last_code'
             /\ codes'[idsc'[k].code + 1] = k
  <2>1. CASE k = i
    BY <2>1 DEF NewCode, NumberedBut, ScopeTypeOK
  <2>2. CASE k # i
    <3>1. idsc'[k] = idsc[k] /\ idsc[k].code \in Nat
      BY <2>2 DEF NewCode, ScopeTypeOK, IdAttr, Absent
    <3> QED
      BY <1>2, <3>1 DEF NewCode, NumberedBut, ScopeTypeOK
  <2> QED
    BY <2>1, <2>2
<1> QED
  BY <1>1, <1>2 DEF NumberedBut

-----------------------------------------------------------------------------
(* KW_parser.                                                              *)

(* The invariant of the parser.  Without StaleIsLiteral the identifier     *)
(* that add_new_string is called with at a comma could be an uninitialised *)
(* number, and the types of the tables would not be preserved.             *)
KwTypes == ReaderTypeOK /\ ScopeTypeOK /\ KwTypeOK
KwInv   == KwTypes /\ StaleIsLiteral

-----------------------------------------------------------------------------
(* The tables.                                                             *)

(* So is a new keyword or delimiter, whatever the identifier c is.         *)
LEMMA NewStringType ==
  ASSUME ScopeTypeOK, KwTypeOK, pc \in KwSections,
         NEW i \in StrIdxs, NEW c \in Indices, NEW bad \in BOOLEAN,
         add_new_string(i, c, bad)
  PROVE  ScopeTypeOK' /\ repres' \in [KwSections -> Seq(StrIdxs)]
<1>1. erroneous' \in BOOLEAN
  BY DEF add_new_string, Diagnose, ScopeTypeOK
<1>2. CASE Defined(strsc, i)
  BY <1>1, <1>2 DEF add_new_string, ScopeTypeOK, KwTypeOK
<1>3. CASE ~Defined(strsc, i)
  <2>1. /\ idsc' \in [Indices -> IdAttr]
        /\ codes' \in Seq(Indices)
        /\ last_code' \in Nat
    BY <1>3, NewCodeType, IndicesNat DEF add_new_string, ScopeTypeOK
  <2>2. (IF Defined(idsc, c) THEN idsc[c].code ELSE last_code + 1) \in Nat
    BY DEF ScopeTypeOK, IdAttr, Absent
  <2>3. KindOf(pc) \in StrKinds
    BY DEF KindOf, StrKinds
  <2>4. strsc' \in [StrIdxs -> StrAttr]
    BY <1>3, <2>2, <2>3 DEF add_new_string, ScopeTypeOK, StrAttr
  <2>5. repres' \in [KwSections -> Seq(StrIdxs)]
    <3>1. Append(repres[pc], i) \in Seq(StrIdxs)
      BY DEF KwTypeOK
    <3>2. repres' = [repres EXCEPT ![pc] = Append(repres[pc], i)]
      BY <1>3 DEF add_new_string
    <3> QED
      BY <3>1, <3>2 DEF KwTypeOK
  <2> QED
    BY <1>1, <2>1, <2>4, <2>5 DEF ScopeTypeOK
<1> QED
  BY <1>2, <1>3

-----------------------------------------------------------------------------
(* The moves of the parser.  Every one keeps the invariant, touches the    *)
(* tables only by adding a string, stays in the section or leaves it, and  *)
(* takes no diagnostic back.                                               *)
Adds == \E i \in StrIdxs, c \in Indices, bad \in BOOLEAN :
          add_new_string(i, c, bad)

Moved == \/ pc' = pc /\ state' \in KwStates
         \/ pc' = "parse" /\ state' = state

Effect ==
  /\ pc \in KwSections
  /\ Moved
  /\ erroneous => erroneous'
  /\ Unscoped \/ Adds

LEMMA PassMove ==
  ASSUME KwInv, pc \in KwSections, NEW l \in Upcoming,
         NEW next \in KwStates \ {"Colon_sep0"}, NEW bad \in BOOLEAN,
         Pass(l, next, bad)
  PROVE  KwInv' /\ Effect
<1>1. ReaderTypeOK'
  BY ReadType DEF KwInv, KwTypes, Pass
<1>2. ScopeTypeOK' /\ KwTypeOK'
  BY DEF KwInv, KwTypes, Pass, ScopeTypeOK, KwTypeOK, Unscoped, Diagnose
<1>3. KwTypes'
  BY <1>1, <1>2 DEF KwInv, KwTypes, Pass
<1> QED
  BY <1>3 DEF KwInv, StaleIsLiteral, KwAt, Pass, Effect, Moved, Diagnose

LEMMA RepresentMove ==
  ASSUME KwInv, pc \in KwSections, NEW l \in Upcoming, l.code = "String",
         NEW bad \in BOOLEAN, Represent(l, bad)
  PROVE  KwInv' /\ Effect
<1>1. ReaderTypeOK' /\ l.val \in StrIdxs
  BY ReadType, UpcomingLexem, IndicesNat DEF KwInv, KwTypes, Represent
<1>2. ScopeTypeOK' /\ KwTypeOK'
  BY <1>1 DEF KwInv, KwTypes, Represent, ScopeTypeOK, KwTypeOK, Unscoped,
              Diagnose
<1>3. KwTypes'
  BY <1>1, <1>2 DEF KwInv, KwTypes, Represent, KwStates
<1> QED
  BY <1>3 DEF KwInv, StaleIsLiteral, KwAt, Represent, Effect, Moved, Diagnose,
              KwStates

LEMMA TakePostactionMove ==
  ASSUME KwInv, pc \in KwSections, NEW l \in Upcoming, l.code = "String",
         NEW bad \in BOOLEAN, TakePostaction(l, bad)
  PROVE  KwInv' /\ Effect
<1>1. ReaderTypeOK' /\ l.val \in StrIdxs
  BY ReadType, UpcomingLexem, IndicesNat DEF KwInv, KwTypes, TakePostaction
<1>2. ScopeTypeOK' /\ KwTypeOK'
  BY <1>1 DEF KwInv, KwTypes, TakePostaction, ScopeTypeOK, KwTypeOK, Unscoped,
              Diagnose
<1>3. KwTypes'
  BY <1>1, <1>2 DEF KwInv, KwTypes, TakePostaction, KwStates
<1> QED
  BY <1>3 DEF KwInv, StaleIsLiteral, KwAt, TakePostaction, Effect, Moved,
              Diagnose, KwStates

LEMMA DefineMove ==
  ASSUME KwInv, pc \in KwSections, NEW l \in Upcoming, NEW i \in StrIdxs,
         Token(l).val \in Indices,
         NEW next \in KwStates \ {"Colon_sep0"}, NEW bad \in BOOLEAN,
         Define(l, i, next, bad)
  PROVE  KwInv' /\ Effect
<1>1. ReaderTypeOK'
  BY ReadType DEF KwInv, KwTypes, Define
<1>2. ScopeTypeOK' /\ repres' \in [KwSections -> Seq(StrIdxs)]
  BY NewStringType DEF KwInv, KwTypes, Define
<1>3. KwTypes'
  BY <1>1, <1>2 DEF KwInv, KwTypes, KwTypeOK, Define
<1> QED
  BY <1>3 DEF KwInv, StaleIsLiteral, KwAt, Define, Effect, Moved, Diagnose,
              Adds, add_new_string

LEMMA LeaveMove ==
  ASSUME KwInv, pc \in KwSections, NEW l \in Upcoming, KwLeave(l)
  PROVE  KwInv' /\ Effect
<1>1. ReaderTypeOK'
  BY ReadType DEF KwInv, KwTypes, KwLeave
<1>2. KwTypes'
  BY <1>1 DEF KwInv, KwTypes, KwLeave, ScopeTypeOK, KwTypeOK, scopeVars, kwVars
<1> QED
  BY <1>2 DEF KwInv, StaleIsLiteral, KwAt, KwLeave, Effect, Moved, Diagnose, Unscoped, scopeVars,
              kwVars, KwSections

-----------------------------------------------------------------------------
(* The procedures: one lemma for all, for each is a choice of moves.       *)
LEMMA KwStep ==
  ASSUME KwInv, KwNext
  PROVE  KwInv' /\ Effect
<1>0. /\ ReaderTypeOK
      /\ Ids \subseteq Indices
      /\ Strs \subseteq StrIdxs
      /\ idx \in StrIdxs /\ maybe_repres_str_idx \in StrIdxs
      /\ StrIdxs \subseteq Indices
  BY IndicesNat DEF KwInv, KwTypes, KwTypeOK
<1>a. \A l \in Upcoming : l.code = "Id" => Token(l).val \in Indices
  BY <1>0, UpcomingLexem DEF Token
<1>b. ASSUME NEW l \in Upcoming, l.code = "Comma", KwAt("Colon_sep0")
      PROVE  Token(l).val \in Indices
  BY <1>0, <1>b DEF KwInv, StaleIsLiteral, Token
<1> USE <1>0
<1>1. CASE kw_compile_
  <2> SUFFICES ASSUME NEW l \in Upcoming,
                 \/ /\ l.code = pc
                    /\ current_lexem(l)
                    /\ state' = "Maybe_repres_str"
                    /\ maybe_repres_str_idx' = 0
                    /\ idx' = 0
                    /\ postaction' = [postaction EXCEPT ![pc] = 0]
                    /\ UNCHANGED <<scopeVars, pc, repres>>
                 \/ /\ l.code # pc
                    /\ peek(l)
                    /\ pc' = "parse"
                    /\ UNCHANGED <<scopeVars, state, kwVars>>
               PROVE KwInv' /\ Effect
    BY <1>1 DEF kw_compile_
  <2>1. pc \in KwSections /\ state = "call"
    BY <1>1 DEF kw_compile_, KwAt
  <2>2. ReaderTypeOK'
    BY ReadType
  <2>3. ScopeTypeOK' /\ KwTypeOK'
    BY <2>1, IndicesNat DEF KwInv, KwTypes, ScopeTypeOK, KwTypeOK, scopeVars,
                            kwVars
  <2>4. KwTypes'
    BY <2>1, <2>2, <2>3 DEF KwInv, KwTypes, KwStates, kwVars
  <2>5. StaleIsLiteral'
    BY <2>1 DEF StaleIsLiteral, KwAt, KwSections
  <2> QED
    BY <2>1, <2>4, <2>5 DEF KwInv, Effect, Moved, Unscoped, KwStates, scopeVars,
                            kwVars
<1>2. CASE maybe_repres_str_proc
  <2> PICK l \in Upcoming :
        \/ /\ l.code = "String"
           /\ current_lexem(l)
           /\ maybe_repres_str_idx' = l.val
           /\ state' = "Colon_sep0"
           /\ UNCHANGED <<scopeVars, pc, repres, postaction, idx>>
        \/ l.code = "Colon" /\ Pass(l, "Maybe_code_kw_or_del", TRUE)
        \/ l.code = "Id"    /\ Define(l, maybe_repres_str_idx,
                                      "Code_kw_or_del", TRUE)
        \/ l.code = "Comma" /\ Pass(l, "Kw_del_comma_sep", TRUE)
        \/ KwLeave(l)
    BY <1>2 DEF maybe_repres_str_proc
  <2>1. pc \in KwSections
    BY <1>2 DEF maybe_repres_str_proc, KwAt
  <2>2. ASSUME l.code = "String",
               current_lexem(l),
               maybe_repres_str_idx' = l.val,
               state' = "Colon_sep0",
               UNCHANGED <<scopeVars, pc, repres, postaction, idx>>
        PROVE  KwInv' /\ Effect
    <3>1. ReaderTypeOK' /\ li' = Token(l) /\ l.val \in StrIdxs
      BY <2>2, ReadType, UpcomingLexem
    <3>2. KwTypes'
      BY <2>1, <2>2, <3>1 DEF KwInv, KwTypes, ScopeTypeOK, KwTypeOK, scopeVars,
                              KwStates
    <3>3. StaleIsLiteral'
      BY <2>2, <3>1 DEF StaleIsLiteral, Token
    <3> QED
      BY <2>1, <2>2, <3>2, <3>3 DEF KwInv, Effect, Moved, Unscoped, KwStates,
                                    scopeVars
  <2> QED
    BY <2>1, <2>2, <1>a, PassMove, DefineMove, LeaveMove DEF KwStates
<1>3. CASE colon_sep0_proc
  BY <1>3, <1>a, <1>b, PassMove, DefineMove, TakePostactionMove, LeaveMove
     DEF colon_sep0_proc, KwAt, KwStates
<1>4. CASE maybe_code_kw_or_del_proc
  <2>1. ASSUME pc \in KwSections, NEW l \in Upcoming, l.code = "Colon",
               current_lexem(l), idx' = maybe_repres_str_idx,
               state' = "Colon_sep", Diagnose(TRUE), Unscoped,
               UNCHANGED <<pc, postaction, maybe_repres_str_idx>>
        PROVE  KwInv' /\ Effect
    <3>1. ReaderTypeOK'
      BY <2>1, ReadType
    <3>2. KwTypes'
      BY <2>1, <3>1 DEF KwInv, KwTypes, ScopeTypeOK, KwTypeOK, Unscoped,
                        Diagnose, KwStates
    <3> QED
      BY <2>1, <3>2 DEF KwInv, StaleIsLiteral, KwAt, Effect, Moved, Diagnose,
                        KwStates
  <2> QED
    BY <1>4, <2>1, <1>a, PassMove, DefineMove, TakePostactionMove, LeaveMove
       DEF maybe_code_kw_or_del_proc, KwAt, KwStates
<1>5. CASE repres_str_proc
  BY <1>5, <1>a, PassMove, DefineMove, RepresentMove, LeaveMove
     DEF repres_str_proc, KwAt, KwStates
<1>6. CASE code_kw_or_del_proc
  BY <1>6, <1>a, PassMove, DefineMove, RepresentMove, LeaveMove
     DEF code_kw_or_del_proc, KwAt, KwStates
<1>7. CASE colon_sep_proc
  BY <1>7, <1>a, PassMove, DefineMove, RepresentMove, LeaveMove
     DEF colon_sep_proc, KwAt, KwStates
<1>8. CASE kw_del_comma_sep_proc
  BY <1>8, <1>a, PassMove, DefineMove, RepresentMove, LeaveMove
     DEF kw_del_comma_sep_proc, KwAt, KwStates
<1> QED
  BY <1>1, <1>2, <1>3, <1>4, <1>5, <1>6, <1>7, <1>8 DEF KwNext

-----------------------------------------------------------------------------
(* What a step of the parser leaves of the invariants about the tables.    *)

(* A new literal takes the next place of the enumeration or none.          *)
LEMMA EffectNumbered ==
  ASSUME KwInv, Effect, NEW j, NumberedBut(j)
  PROVE  NumberedBut(j)'
<1>1. CASE UNCHANGED <<idsc, codes, last_code>>
  BY <1>1 DEF NumberedBut
<1>2. CASE \E i \in Indices : NewCode(i)
  BY <1>2, NewCodeNumbered DEF KwInv, KwTypes
<1>3. Unscoped => UNCHANGED <<idsc, codes, last_code>>
  BY DEF Unscoped
<1>4. Adds => \/ UNCHANGED <<idsc, codes, last_code>>
              \/ \E i \in Indices : NewCode(i)
  BY IndicesNat DEF Adds, add_new_string
<1> QED
  BY <1>1, <1>2, <1>3, <1>4 DEF Effect

(* A literal that was nothing is listed in the vector of the section that  *)
(* makes something of it, and nowhere else.                                *)
LEMMA ListingRegistered ==
  ASSUME ScopeTypeOK, KwTypeOK, Registered,
         NEW t \in KwSections, NEW i \in StrIdxs, NEW c,
         ~Defined(strsc, i),
         strsc' = [strsc EXCEPT ![i] = [kind |-> KindOf(t), code |-> c]],
         repres' = [repres EXCEPT ![t] = Append(repres[t], i)]
  PROVE  Registered'
<1> DEFINE r == repres[t]
<1>1. /\ \A s \in KwSections : repres[s] \in Seq(StrIdxs)
      /\ repres' = [repres EXCEPT ![t] = Append(r, i)]
      /\ \A s \in KwSections \ {t} : repres'[s] = repres[s]
      /\ Len(repres'[t]) = Len(r) + 1
      /\ repres'[t][Len(r) + 1] = i
      /\ \A n \in 1 .. Len(r) : repres'[t][n] = r[n]
  BY DEF KwTypeOK
<1>2. /\ strsc[i].kind = "absent"
      /\ strsc'[i].kind = KindOf(t)
      /\ \A j \in StrIdxs \ {i} : strsc'[j] = strsc[j]
  BY DEF ScopeTypeOK, Defined, Absent
<1>3. \A s \in KwSections : KindOf(s) # "absent"
                           /\ \A u \in KwSections : KindOf(s) = KindOf(u) => s = u
  BY DEF KindOf, KwSections
<1>4. \A s \in KwSections : \A n \in 1 .. Len(repres[s]) :
        /\ repres[s][n] \in StrIdxs \ {i}
        /\ strsc[repres[s][n]].kind = KindOf(s)
  BY <1>1, <1>2, <1>3 DEF Registered, Listed
<1>5. Listed'
  <2> SUFFICES ASSUME NEW s \in KwSections, NEW n \in 1 .. Len(repres'[s])
               PROVE  strsc'[repres'[s][n]].kind = KindOf(s)
    BY DEF Listed
  <2>1. CASE s = t /\ n = Len(r) + 1
    BY <1>1, <1>2, <2>1
  <2>2. CASE ~(s = t /\ n = Len(r) + 1)
    <3>1. n \in 1 .. Len(repres[s]) /\ repres'[s][n] = repres[s][n]
      BY <1>1, <2>2
    <3> QED
      BY <1>2, <1>4, <3>1
  <2> QED
    BY <2>1, <2>2
<1>6. Once'
  <2> SUFFICES ASSUME NEW s \in KwSections,
                      NEW m \in 1 .. Len(repres'[s]),
                      NEW n \in 1 .. Len(repres'[s]),
                      repres'[s][m] = repres'[s][n]
               PROVE  m = n
    BY DEF Once
  <2>1. CASE s # t
    BY <1>1, <2>1 DEF Registered, Once
  <2>2. CASE s = t
    <3>1. \A k \in 1 .. Len(r) : repres'[t][k] # i
      BY <1>1, <1>4
    <3>2. m \in 1 .. Len(r) /\ n \in 1 .. Len(r) => m = n
      BY <1>1, <2>2 DEF Registered, Once
    <3> QED
      BY <1>1, <2>2, <3>1, <3>2
  <2> QED
    BY <2>1, <2>2
<1>7. NoneLost'
  <2> SUFFICES ASSUME NEW s \in KwSections, NEW j \in StrIdxs,
                      strsc'[j].kind = KindOf(s)
               PROVE  \E n \in 1 .. Len(repres'[s]) : repres'[s][n] = j
    BY DEF NoneLost
  <2>1. CASE j = i
    <3>1. s = t
      BY <1>2, <1>3, <2>1
    <3>2. Len(r) + 1 \in 1 .. Len(repres'[t])
      BY <1>1
    <3> QED
      BY <1>1, <2>1, <3>1, <3>2
  <2>2. CASE j # i
    <3>1. PICK n \in 1 .. Len(repres[s]) : repres[s][n] = j
      BY <1>2, <2>2 DEF Registered, NoneLost
    <3>2. n \in 1 .. Len(repres'[s]) /\ repres'[s][n] = j
      BY <1>1, <3>1
    <3> QED
      BY <3>2
  <2> QED
    BY <2>1, <2>2
<1> QED
  BY <1>5, <1>6, <1>7 DEF Registered

(* So is the literal of a new keyword or delimiter.                        *)
LEMMA NewStringRegistered ==
  ASSUME ScopeTypeOK, KwTypeOK, pc \in KwSections, Registered,
         NEW i \in StrIdxs, NEW c \in Indices, NEW bad \in BOOLEAN,
         add_new_string(i, c, bad)
  PROVE  Registered'
<1>1. CASE Defined(strsc, i)
  BY <1>1 DEF add_new_string, Registered, Listed, Once, NoneLost
<1>2. CASE ~Defined(strsc, i)
  BY <1>2, ListingRegistered DEF add_new_string
<1> QED
  BY <1>1, <1>2

LEMMA EffectRegistered ==
  ASSUME KwInv, Effect, Registered
  PROVE  Registered'
<1>1. CASE UNCHANGED <<strsc, repres>>
  BY <1>1 DEF Registered, Listed, Once, NoneLost
<1>2. Unscoped => UNCHANGED <<strsc, repres>>
  BY DEF Unscoped
<1> QED
  BY <1>1, <1>2, NewStringRegistered DEF Effect, Adds, KwInv, KwTypes

(* A literal that is defined keeps its attributes.                         *)
LEMMA EffectFirst ==
  ASSUME KwInv, Effect, NEW i \in StrIdxs, Defined(strsc, i)
  PROVE  strsc'[i] = strsc[i]
BY DEF Effect, Unscoped, Adds, add_new_string, KwInv, KwTypes, ScopeTypeOK

-----------------------------------------------------------------------------
(* The automaton of keyword_delimiter_parser.h.                            *)

(* A move of the table is a step of the automaton, ...                     *)
LEMMA AdvanceStep ==
  ASSUME pc \in KwSections, ~erroneous, ~erroneous', pc' = pc,
         <<state, li'.code, state'>> \in KwMoves
  PROVE  KwGrammar!Next
<1>1. KwPlace = state /\ KwPlace' = state'
  BY DEF KwMoves, KwPlace
<1> QED
  BY <1>1 DEF KwGrammar!Next, KwGrammar!Advance

(* ... leaving a section is, from every state, ...                         *)
LEMMA LeaveStep ==
  ASSUME state \in KwStates, pc \in KwSections, ~erroneous, ~erroneous',
         pc' = "parse"
  PROVE  KwGrammar!Next
BY DEF KwGrammar!Next, KwGrammar!Leave, KwPlace, KwStates, KwSections

(* ... and so is whatever happens outside.                                 *)
LEMMA OutsideStep ==
  ASSUME ~erroneous, ~erroneous',
         pc \notin KwSections \/ state = "call",
         pc' \notin KwSections \/ state' \in {"call", "Maybe_repres_str"}
  PROVE  KwGrammar!Next
BY DEF KwGrammar!Next, KwGrammar!Outside, KwPlace

(* A lexeme taken without an error in state s moves as the table says.     *)
LEMMA ProcStep ==
  ASSUME KwInv, KwNext, ~erroneous', state # "call"
  PROVE  KwGrammar!Next
<1>0. /\ pc \in KwSections /\ state \in KwStates
      /\ ~erroneous
  BY KwStep DEF Effect, KwNext, kw_compile_, maybe_repres_str_proc,
         colon_sep0_proc, maybe_code_kw_or_del_proc, repres_str_proc,
         code_kw_or_del_proc, colon_sep_proc, kw_del_comma_sep_proc, KwAt,
         KwStates
<1>a. ASSUME NEW l \in Upcoming, KwLeave(l)
      PROVE  KwGrammar!Next
  BY <1>0, <1>a, LeaveStep DEF KwLeave
<1>b. \A l : current_lexem(l) => li'.code = l.code
  BY DEF current_lexem, Meet, Token
<1>c. ASSUME NEW l \in Upcoming, current_lexem(l), pc' = pc,
             <<state, l.code, state'>> \in KwMoves
      PROVE  KwGrammar!Next
  BY <1>0, <1>b, <1>c, AdvanceStep
<1>1. CASE maybe_repres_str_proc
  BY <1>1, <1>a, <1>c DEF maybe_repres_str_proc, KwAt, KwMoves, Pass, Define,
                          add_new_string, Diagnose
<1>2. CASE colon_sep0_proc
  BY <1>2, <1>a, <1>c DEF colon_sep0_proc, KwAt, KwMoves, Pass, Define,
                          TakePostaction, add_new_string, Diagnose
<1>3. CASE maybe_code_kw_or_del_proc
  BY <1>3, <1>a, <1>c DEF maybe_code_kw_or_del_proc, KwAt, KwMoves, Pass,
                          Define, TakePostaction, add_new_string, Diagnose
<1>4. CASE repres_str_proc
  BY <1>4, <1>a, <1>c DEF repres_str_proc, KwAt, KwMoves, Pass, Define,
                          Represent, add_new_string, Diagnose
<1>5. CASE code_kw_or_del_proc
  BY <1>5, <1>a, <1>c DEF code_kw_or_del_proc, KwAt, KwMoves, Pass, Define,
                          Represent, add_new_string, Diagnose
<1>6. CASE colon_sep_proc
  BY <1>6, <1>a, <1>c DEF colon_sep_proc, KwAt, KwMoves, Pass, Define,
                          Represent, add_new_string, Diagnose
<1>7. CASE kw_del_comma_sep_proc
  BY <1>7, <1>a, <1>c DEF kw_del_comma_sep_proc, KwAt, KwMoves, Pass, Define,
                          Represent, add_new_string, Diagnose
<1> QED
  BY <1>1, <1>2, <1>3, <1>4, <1>5, <1>6, <1>7 DEF KwNext, kw_compile_, KwAt

(* A step of the parser at work, that reads the keyword of its section     *)
(* included, is a step of the automaton.                                   *)
LEMMA GrammarStep ==
  ASSUME KwInv, KwNext
  PROVE  KwGrammar!Next
<1>1. CASE erroneous'
  BY <1>1 DEF KwGrammar!Next, KwGrammar!Diagnose, KwPlace
<1>2. CASE ~erroneous' /\ state = "call"
  <2>1. kw_compile_
    BY <1>2 DEF KwNext, maybe_repres_str_proc, colon_sep0_proc,
       maybe_code_kw_or_del_proc, repres_str_proc, code_kw_or_del_proc,
       colon_sep_proc, kw_del_comma_sep_proc, KwAt
  <2> QED
    BY <1>2, <2>1, OutsideStep DEF kw_compile_, KwAt, scopeVars, KwSections
<1> QED
  BY <1>1, <1>2, ProcStep
=============================================================================
