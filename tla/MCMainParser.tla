---------------------------- MODULE MCMainParser ----------------------------
(* Instances of MainParser.  Each run gives the alphabet its question is   *)
(* about; identifiers and literals share numbers, as the two tries do.     *)
EXTENDS MainParser

MCBuiltin ==
  [n \in BuiltinNames |->
     CASE n = "None"       -> 11
       [] n = "Unknown"    -> 12
       [] n = "write"      -> 13
       [] n = "Newline"    -> 14
       [] n = "Scaner"     -> 15
       [] n = "Lexem_code" -> 16
       [] n = "SINGLE_LINED_COMMENT_MARK" -> 17
       [] n = "MULTI_LINED_COMMENT_MARK"  -> 18
       [] n = "MULTI_LINED_COMMENT_END"   -> 19]

CodesAlphabet == {"Kw_codes", "Kw_newline_is_lexem", "Kw_keywords",
                  "Kw_delimiters", "Id", "String", "Colon", "Comma"}
ActionsAlphabet == {"Kw_numbers", "Kw_strings", "Kw_action", "Kw_keywords",
                    "Id", "String", "Colon", "Opened_fig_brack"}
CommentsAlphabet == {"Kw_comments", "Kw_single_lined", "Kw_multilined",
                     "Kw_nested", "Kw_delimiters", "String", "Colon", "Id"}
NamesAlphabet == {"Unknown", "Kw_codes", "Kw_scaner_name", "Kw_codes_type",
                  "Kw_ident_name", "Kw_token_fields", "Kw_class_members",
                  "Kw_header_additions", "Kw_impl_additions",
                  "Kw_lexem_info_name", "Kw_idents", "Kw_numbers", "Id",
                  "String", "Comma", "Opened_fig_brack",
                  "Closed_fig_brack"}

OneId    == {3}
TwoIds   == {3, 4}
IdsAndWrite == {3, 13}
IdAndDefault == {3, 15}
OneStr   == {5}
TwoStrs  == {3, 5}
AllStrs  == {0, 3, 5}  \* 0 is the empty literal
Uninitialised == {0, 9}
=============================================================================
