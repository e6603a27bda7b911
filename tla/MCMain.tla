------------------------------- MODULE MCMain -------------------------------
(* The whole of Main_parser on four themes: a text is of one theme, whose  *)
(* alphabet, names, literals and length are chosen so that the sections    *)
(* that share state meet in every order.  Themes only bound the texts:     *)
(* the program's own state is that of MainParser.                          *)
EXTENDS MCMainParser, MainHistory

VARIABLE theme

Theme(alphabet, ids, strs, max) ==
  [alphabet |-> alphabet, ids |-> ids, strs |-> strs, max |-> max]
Themes == {Theme(CodesAlphabet, TwoIds, TwoStrs, 6),
           Theme(ActionsAlphabet, IdsAndWrite, TwoStrs, 6),
           Theme(CommentsAlphabet, OneId, AllStrs, 7),
           Theme(NamesAlphabet, IdAndDefault, OneStr, 5)}

AllIds      == TwoIds \cup IdsAndWrite \cup IdAndDefault
AllAlphabet == UNION {t.alphabet : t \in Themes}

(* A lexeme met for the first time, the end aside, is one of the theme.    *)
OfTheme ==
  fed' > fed /\ li'.code # "None" =>
    /\ fed' <= theme.max
    /\ li'.code \in theme.alphabet
    /\ li'.code = "Id" => li'.val \in theme.ids
    /\ li'.code = "String" => li'.val \in theme.strs

themeVars == <<historyVars, theme>>

MCInit == HistoryInit /\ theme \in Themes
MCNext == HistoryNext /\ OfTheme /\ theme' = theme
MCSpec == MCInit /\ [][MCNext]_themeVars /\ WF_themeVars(MCNext)
=============================================================================
