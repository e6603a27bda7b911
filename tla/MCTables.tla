------------------------------ MODULE MCTables ------------------------------
(* Instances of Tables: words over two characters that share prefixes in   *)
(* every way, and a third character that no word has.                      *)
EXTENDS Tables

MCWords == {<<1>>, <<2>>, <<1, 1>>, <<1, 2>>, <<2, 1>>, <<1, 1, 1>>,
            <<1, 1, 2>>, <<1, 2, 1>>, <<1, 2, 2>>}
MCCharSets == {{1}, {2}, {1, 2}, {2, 3}}
MCTexts == {1, 2, 3, 4}
=============================================================================
