# A verification development for Myauka

Myauka reads the description of a lexical analyzer and writes that analyzer in
C++. This directory holds a TLA+ model of it, the TLC configurations that check
the model on small instances, and TLAPS proofs of what holds on every instance.
Paths are relative to the repository: `src/src/*.cpp`, `src/include/*.h`.

Contents: [the system](#the-system) · [what is hard](#what-is-hard) ·
[the modules](#the-modules) · [the runs](#the-runs) · [findings](#what-the-program-does-not-do) ·
[the proofs](#the-proofs) · [what is not modelled](#what-is-not-modelled) · [plan](#plan)

## The system

The program is one sequential process without shared memory or messages. What
interacts are objects that share four things: the place in the text
(`Location`), the two tries that number identifiers and literals, the `Scope`
(two maps, from those numbers to attributes), and the error counter.
`Main_parser::parse` looks at one lexeme, gives it back, and calls the parser of
that section; the section parser reads until it meets something it gives back.
A section parser that needs an expression calls an expression parser, which
reads the same text through a scanner of its own.

| Component | State | Operations | Correct when |
|---|---|---|---|
| Lexeme stream: `Main_scaner`, `Scaner`, `Location` | place, the token with a union for the value | `current_lexem`, `back` | a lexeme given back is read again, the end is never passed, nobody uses the value of an earlier lexeme by mistake |
| Scope and enumeration: `Scope`, `Main_parser_data`, `Error_count` | `idsc`, `strsc`, `codes`, `last_code_val`, the counter | define an identifier, a literal, a code | codes are numbered without gaps, each code knows its place, first definitions stay |
| Keyword and delimiter parser: `KW_parser` | state, `repres`, final action, pending literal | seven state procedures, `add_new_string`, `compile` | the vector of literals and the map agree; a section without a message is one of the grammar; it is left |
| Codes and newline: `Codes_and_newline` | its own copy of the last code | `codes_sec`, `newline_is_lexem_sec` | as the enumeration |
| Numbers and strings: `NS_parser` | state, name of the action, expression | eight states, `add_action_definition`, `compile` | an action has a body that is nothing else; the header is one of the grammar; there is an expression |
| Comments: `Comments_parser` | state, three marks, nesting | nine states, `compile` | both marks of a pair or none |
| Main parser: `Main_parser`, additions, lexeme info name | names, texts, used automata | one action per section, `verify`, `add_fictive_delimiters` | what `verify` lets through is complete and undiagnosed; the run ends |
| Action expressions: `Act_expr_parser` | LR stack, command buffer | shift, reduce, nine error handlers | exactly its grammar is accepted silently; one tree of commands; an action on a whole operand |
| Simple expressions: `Simple_regex_parser` | state, interval of a concatenation, buffer | three state procedures, `write_concatenated` | a malformed text of `%idents` is counted; the commands spell what the text describes |
| Expression scanner: `Expr_scaner` | automaton, token | lexemes of an expression | as the lexeme stream |
| Categories, first characters | sets of characters | union, intersection, first characters | `verify` finds every pair of automata that begin alike |
| Tries | node buffers | insert, get | equal strings get equal numbers, a number gives its string back |
| Attributed trie, jump tables | nodes, table rows | insert, `jumps` | a table recognises exactly the strings it was made from |
| NDFA, DFA, minimisation | transition maps | build, determinise, minimise | the language and the actions stay; the result is minimal |
| Command buffers | commands | unwrap, fuse, alternatives of strings | the language and the actions stay |
| Categories of the generated scanner | names of sets, enumerators, table | `add_category`, the set of each character, its lookup | a character is told to be in the sets asked for, and in no others |
| Code generation, program entry, files, character conversion | – | formatting, input, output | – |

## What is hard

Nothing runs in parallel; the difficulty is in long sequences of legal calls.
`PROJECT.json` lists the hazards by line. The main kinds:

* *Sections meet in the scope.* One literal may be a keyword, a delimiter, the
  body of an action and a mark of a comment in four sections; one identifier may
  be a code, an action and a name. Each parser checks for this on its own.
* *Two numberings.* Identifiers and literals are numbered from the same
  naturals and looked up in two maps; using one as the other is silent.
* *Stale values.* The token's union is written by identifiers and literals only;
  the copies of `last_code_val`, the stack of `Act_expr_parser`, the states and
  pending literals of the section parsers outlive the section.
* *Recovery.* Every parser goes on after an error, by skipping, giving back or
  inserting lexemes, at the end of the text too. It must neither run for ever nor
  forget to count the error.
* *Two scanners, one place.* Both read the same text through one `Location`, each
  with its own beginning of the last lexeme and its own line; what one gives back
  the other may read.
* *Algorithms whose result nobody looks at.* Subset construction, minimisation,
  fusing of commands, rows of jump tables: a mistake in them compiles, and shows
  only in the scanner that the user of the user runs.
* *Parts that fail.* A section given up in the middle leaves half of what
  `verify` and the generators expect.

## The modules

| Module | Models | Notes |
|---|---|---|
| `Reader` | the lexeme stream | variables `look` (the lexeme given back), `fed`, `li` (the token) |
| `Scope` | maps, enumeration, error counter | EXTENDS `Reader`; `pc` and `state` are the object at work and its state |
| `SectionGrammar` | abstract: a section spells a path of a finite automaton | the automaton is the table in the comment of each parser's header |
| `KwParser` | `KW_parser` with both `settings()` | EXTENDS `Scope` |
| `KwSections` | `KwParser` under the loop of `parse()`, `%codes` reduced to its effect | the smallest composition |
| `CodesSection`, `NumStrSection`, `CommentsSection` | those section parsers | EXTEND `Scope` |
| `MainParser` | `parse()`, its small sections, `verify()`, `add_fictive_delimiters()` | INSTANCEs the four section parsers over the same variables |
| `MainHistory` | `MainParser` with a history variable, the literals the last `%comments` was given for its marks | the program knows a mark by its index, and the index of the empty literal is that of no mark |
| `ExprGrammar` | abstract: the grammar in the comment of `act_expr_parser.cpp` | which terminal may follow which, and the parentheses open |
| `ActExprParser` | `Act_expr_parser` | its own lexemes, stack and buffer |
| `Scaners` | `Main_scaner` and `Expr_scaner` over one `Location`, `back()` | characters; one step per turn of the loop of `current_lexem` |
| `Categories` | `Generalized_char`, sums, intersections, `sets_for_classes` | operators |
| `Commands` | the buffers of commands: unwrap, fuse, join, `first_chars`, keywords as commands | EXTENDS `Categories`; operators, and the words a buffer spells |
| `SimpleRegexParser` | `Simple_regex_parser`, both texts of `%idents` | EXTENDS `Commands` |
| `Ndfa` | `build_NDFA` | EXTENDS `Commands`; operators |
| `Dfa` | `convert_NDFA_to_DFA`, `minimize_DFA`, the grouping of jumps | EXTENDS `Ndfa`; one step per turn of a loop |
| `Automata` | from a text, or the commands of a number or string, to the automaton generated | EXTENDS `SimpleRegexParser`, `Dfa`: the composition, and its properties |
| `Tries` | `Trie`, `Char_trie`, the trie of sets, `Attributed_char_trie` with its jump table | operators |
| `Tables` | literals, codes, the delimiters' automaton, the table of categories, and the walk of the generated scanner | EXTENDS `Tries` |
| `KwParserProofs` | – | lemmas: reading, the scope and `KwParser` at work, whoever calls it |
| `KwSectionsProofs`, `MainParserProofs` | – | theorems about `KwSections`, `MainParser` and `MainHistory`, from those lemmas and, in the second, those about the other section parsers |
| `ActExprProofs`, `ScanersProofs`, `AutomataProofs`, `TablesProofs` | – | theorems about `ActExprParser`, `Scaners`, `Automata` and `Tables`, each with its lemmas |
| `LanguageProofs` | – | EXTENDS `AutomataProofs`, which ends with the languages of the builders and of buffers: what the automata of `Automata` accept, that they are minimal, and what expressions begin with and spell |
| `MCKwSections`, `MCMainParser`, `MCMain`, `MCActExpr`, `MCAutomata`, `MCTables`, `MCScaners` | – | values for the constants |

How code becomes an action. A state procedure reads one lexeme, so one call of it
is one action: the action of state *s* has the name of the procedure, `At("s")`
as its guard, one disjunct per kind of lexeme, and `current_lexem` or `peek`
(read and `back()`) according to whether the procedure gives the lexeme back.
Nothing else of the program runs between two lexemes, so one action per lexeme
loses no interleaving. In `Scaners` an automaton reads one character, and an
action is one turn of that loop. The loop of `parse()`, `verify()` and each of the three
steps of `add_fictive_delimiters()` are actions of their own. Operators preceded
by the comment "Mutant" are never used by a specification: each is the definition
after it with a plausible mistake, to show that some property notices.

Abstractions:

* *The text is chosen lazily.* A lexeme is chosen when first read, so a behaviour
  is a text. The end is a lexeme that is returned for ever.
* *Lexemes and characters.* The section parsers read the lexemes of `Reader`;
  `Scaners` shows what the lexemes of both scanners are. Errors of the scanner
  (a misspelled keyword, an unterminated literal) count an error and yield the
  corrected lexeme; control depends on the counter only in `verify()`, and the
  counter is reached by parser errors too, so they add no behaviour to `Reader`.
  An unknown character is the lexeme `Unknown`, which `parse()` skips without
  counting.
* *The error counter is the flag `erroneous`.* The program only asks whether it
  is 0.
* *A braced expression is one lexeme in `MainParser`* with one of three outcomes:
  accepted, diagnosed, or the expression parser never comes back. `ActExprParser`
  shows that all three are real.
* *Indices.* The constants are the numbers of the identifiers and literals in the
  text. Identifier 3 and literal 3 are chosen equal, as the two tries make them.
  Index 0 is the empty literal, which is legal (`README.md:29`), and also the code's "absent".
* *Uninitialised values* (`Garbage`): the token before the first identifier, the
  code of a name, the last code of `Codes_and_newline`.
* `first_chars` of an empty expression reads in front of a vector: the model may
  crash there or go on. `MainParser` leaves open whether two automata begin alike
  (`MayIntersect`); the sets of first characters are those of `Categories` and
  `Commands`.
* In `ActExprParser` a command is its operands and its action; the operator, the
  character and the three closures are not told apart. `last` and `printed` are
  history variables. Its stack starts empty or with the `S` of an earlier
  section, which `compile` never removes. `Expr_scaner` never returns
  `UnknownLexem` (every character of its delimiter category has a case), so the end
  of the text is the only `End_of_text`.
* *`Scaners`.* A jump table is the set of beginnings of its words: its state is
  what was read of the word, `<<>>` standing for -1 (and, in a class, a state of
  its own for -2, where the colon is read). The tables are constants, since the
  model needs words of which one begins another and not the sixteen keywords; the
  tables of categories are cut to the characters that differ. An index of a trie
  is the string itself, and the value of a token is forgotten at the next lexeme
  (`Reader` keeps it, as the union does). A table read at no index of it may give
  any token (`outside`). The parsers may call either scanner in any order and give
  back what was read last; in the source only the last reader gives back, so the
  model does that too.
* *Generalized characters* are naturals in the order of `operator<`: epsilon, the
  characters, the two classes of everything but a quote. Operands of commands are
  counted from 1. A jump is a record (`Edge`), a map of jumps a set of them, and
  a set of states a set: `Size_t_trie`, which numbers sets of states, interns as
  the other tries do and is not repeated.
* *`Automata`* makes the commands of numbers and strings by the rules of
  `Act_expr_parser` in the order in which it reduces, so each buffer is one that
  parser writes. The table of the delimiters' automaton stands for the one of
  separate keywords, which is generated by the same calls.
* *`Tables`.* Characters are positive, since 0 ends a text. The order of calls is
  that of `generate_delim_automaton_impl`; other automata ask for categories before
  and after. A category is a bit of 64 (`Bits`): with more sets than that the shift
  that makes the mask is undefined, and the model generates no table.
  A section without a delimiter makes a table without rows, and asks for the category
  of no characters.

## The runs

All configurations say `CHECK_DEADLOCK FALSE`: the program ends, in `pc` `"end"` or
one of `Ends`, or with `done`. Bounds: `MaxLexems` limits the text, with the end
of the text always possible, so every shorter text is included.

| Run | Question | Bounds, and why they are enough |
|---|---|---|
| `MCKwSections` | Do keyword, delimiter and code sections keep the tables consistent, follow their grammar and end? | 7 lexemes: a whole definition (4) and a second section that defines the literal again |
| `MCMain` | Under the whole of `parse()` with `verify()` and the delimiters for comments: do tables agree, do actions keep bodies of their own, do headers and comments follow their automata, is what `verify()` lets through complete, does the run end? | texts of four themes: codes and literals with `%newline_is_lexem` (6 lexemes: a definition and a clash), headers with actions, `write` being predefined (6: an action is 4, then a section that reuses its name or literal), comments (7: nested, both marks, colon, single, and the mark as a delimiter; three literals, the empty one among them), names and stray lexemes (5: a code, then the same identifier as a default name). A theme bounds the text only |
| `MCActExpr` | Is exactly the grammar accepted silently, are the commands one tree, do actions cover operands, do repairs end? | 7 lexemes without a message, `{(x$a)$b}` being the shortest expression with nested actions; 5 once there is one (`MaxRepaired`), enough for a swallowed lexeme and an accepted rest; `MaxCommands` 14 only stops repairs that go on for ever |
| `MCAutomata` | Is a malformed `%idents` counted, do the commands spell the texts, does the automaton that is generated accept the expression with its actions, is it minimal, is it ever built? | texts of 5 lexemes (3 once an error is counted) over a character, a class and a class of all but a quote; expressions of 5 commands, two actions: a star of a concatenation and an alternative; words of 3 characters; four lists of keywords |
| `MCTables` | Are literals interned, do codes stay, are categories told, does the walk find the longest delimiter? | 9 literals of up to 3 characters that share prefixes in every way, 3 calls, 4 sets of characters, and a character in no literal; a lexeme is at most 4 characters, `MaxText` 9 is never reached |
| `MCScaners` | Is every lexeme what the text spells at its place, is one given back read again, is the line right? | all texts of 4 characters of 10, which hold every kind of lexeme of both scanners, two short keywords of which one begins the other at a distance of two, `[:n]`; every order of calls. `MaxLine` (4) stops `back()` only, which may count one newline for ever |

Six more runs each refute one statement: see the findings.

The properties, by what they catch:

* `Registered`: `kw_repres` and `del_repres` hold exactly the literals that the
  map calls keywords and delimiters, each once. `Numbered`: the enumeration has no
  gaps and a code is the place of its identifier. In `MainParser` both are
  `TablesAgree`, and Newline is excepted: see the findings. `FirstDefinitionStays`: no section, in any order,
  changes what a literal was first defined as. In `MainParser` it says the same of
  identifiers: one is lost only to a default name or to a keyword entered at the number
  of its literal (see the findings), and an action may get a new body.
* `StaleIsLiteral`: at a comma in `Colon_sep0` the code defines a keyword with
  the token's stale value; it is the literal read before, never garbage.
* `ActionsHaveBodies`: an action leads to a literal that is an action's body,
  and no later section makes it something else.
* `FollowsGrammar`, `HeadersFollowGrammar`, `CommentsFollowGrammar`: refinement.
  Up to the first counted error the lexemes of a section spell a path of the
  automaton printed in its header. A section of comments is left in a final state
  only. One of keywords or delimiters, and a header of numbers or strings, may be left in
  any state, since the code gives these up silently at a lexeme that cannot belong to them (see
  the findings), so of them only the path is checked.
* `VerifiedIsComplete`: after `verify()` no diagnosed description, no identifiers
  without a structure, and no comments that were given half a pair of marks or none. It speaks of
  the literals that were given (`MainHistory`) and not of their indices: with the empty
  literal as a mark the generators do get one index of a pair and 0 for the other
  (see the findings), and the property says that they do in no other way, a section cut off or
  repeated included, and that no mark of an earlier section is left over.
* `SectionsEnd`, `EndsOrStuck`, `EndsOrRepairs`: liveness. A run ends unless it
  stays for ever at a lexeme no parser consumes, or in the expression parser; and
  that parser ends unless it repairs for ever before `)`, `}` or the end.
* `Trees`: whatever was repaired, the symbols on the stack divide the buffer
  into consecutive trees with the root last. `ActionsCoverOperands`: a command
  with an action has operands with the same action.
* `FollowsGrammar` and `OnlyWrongIsDiagnosed` of `ActExprParser` are soundness
  and completeness: up to the first message only the grammar is read, and the
  first message is about a lexeme the grammar does not allow there (or an
  undefined action, or a class the section does not allow).
* `ReportsMalformed`: `Simple_regex_parser` counts an error exactly if one of the
  two texts, as read, is no expression, whatever its recovery skips.
  `IdentifiersSpelled`: the buffer made of both texts and the keywords spells a
  beginning followed by bodies, or a keyword.
* `KeywordsApart`: keywords get an automaton of their own only if none begins as an
  identifier may. `FirstCharactersFound`: `first_chars` is the set of the first
  characters of the words, where no left operand of a concatenation is nullable
  (otherwise it is not: see below).
* `AcceptsExpression`: the automaton accepts exactly the words, before and after
  minimisation, with commands fused or not. `Minimal`: no two states are
  equivalent, none is out of reach. `ActionsOfExpression`: before minimisation the action
  made on a path is one the expression has there. `ScannerAccepts`: the branches
  that are generated take exactly the strings of characters of the expression,
  unless a state has a jump by a character and by a class with that character.
  `Finishes`: construction and refinement end.
* `Interned`: equal literals have equal indices, different ones different, and an
  index gives its literal back. `AttributesStay`: a code written at a node stays
  with that delimiter whatever is inserted later. `CategoriesTold`: the table tells of a character the
  sets that were asked for and contain it. `StraightTablesRead`: if in every level
  of the trie only the last node has children, the generated walk reads the longest
  beginning of a delimiter and gives its code (otherwise: `VJumpTables`).
* `LexemsRead`: between its beginning and the place, the text spells the lexeme
  that was returned, maximal and with an error counted if it is malformed; and no
  table is read outside but at a text that ends after `%`, `[` or `[:`. Of a
  literal, each character is where the quotes doubled before it put it (`Doubles`).
  `ReadAgain`: a lexeme given back is read again, to the same end, by the scanner
  that gave it back. `LinesCounted`: a line number that is right stays right, but
  for the three ways named under the findings.

Fairness is weak fairness of the next step: a single sequential loop that blocks
on nothing always takes its next step. In `MCMain` it is that of the step of the
theme (each theme lets the text end, so a step is enabled as long as one of
`Next` is). In `Automata` it is of `Build`, the construction alone; its weak fairness is
written out with `CanBuild`, the guard of `Build`, in place of ENABLED, which TLC
would compute by building the automaton once more. No stronger fairness is used,
and the choice of texts is not fair: a text may be anything. `Tables` and
`Scaners` have only safety properties.

## What the program does not do

Each of these runs checks one statement of a document or comment, and TLC finds a
description for which the program does something else.

| Run | Statement | What happens |
|---|---|---|
| `VCodesAreIdentifiers` | the enumeration consists of identifiers (`main_parser_data.h:82`) | a keyword with a new code enters the index of its literal (`keyword_delimiter_parser.cpp:47-48`) |
| `VNewline` | `%newline_is_lexem` makes the newline a lexeme (`README.md:98`) | the code goes to a vector that nobody reads |
| `VPostactions` | the commands may come in any order (`README.md:9`) | each command forgets the final actions of keywords and delimiters |
| `VWritten` | characters joined by `\|` are glued into one command (`grouped_DFA_by_uwrapped_regexp.h:19`) | the glued command has no action (`fuse_unwrapped_commands.cpp:86`): in an identifier of `{a\|[:letter:]}` no character is written into the buffer |
| `VMinimal` | of the states of a group one will do (`dfa.cpp:420`) | states that differ in their actions are glued (`dfa.cpp:426`): in `{a*\|a$f}` every a makes f |
| `VJumpTables` | at `symbols[0]` the table goes to `first_state` (`jump_table_string_repres.cpp:24`) | `first_state` is the next row (`attributed_char_trie.cpp:98`): with delimiters 111 and 12 the text 111 gets the code of 12 |

Met while modelling, and not given a run of their own:

* `KW_parser` leaves its section silently in every state, where its header has one
  final state. `NS_parser` does so with its header at any lexeme it has no case for
  (`num_str_parser.cpp:198`). A `%comments` section that has only the single-lined mark is
  diagnosed at whatever follows it (`comments_parser.cpp:307`, where
  `comments_parser.h:76` has a final state).
* A keyword whose code is an identifier already defined takes the union of its
  attributes, such as the body of an action, as the code
  (`keyword_delimiter_parser.cpp:38`).
* `{x$a$b}`: the second action is swallowed with a message that is not counted, and
  the scanner is generated (`act_expr_parser.cpp:515`). A missing
  `%lexem_info_name` is not counted either.
* `%comments %multilined "" : "*/"` is read without a message
  (`comments_parser.cpp:231`, `:428`). The mark that is empty has the index 0, so
  `verify()` takes it for none (`main_parser.cpp:300`), only the other mark becomes a
  delimiter (`main_parser.cpp:592`), and half a pair reaches the generators.
* A default name is entered over whatever its identifier was, without a message
  (`main_parser.cpp:409`): after `%codes Scaner`, a `%scaner_name` without a name leaves
  the enumerator, but the identifier is no lexeme code any more, and may be defined
  again.
* A header that is given up leaves an empty expression in an automaton marked as
  used, and `verify()` reads the last command of an empty vector
  (`num_str_parser.cpp:59`, `:65`).
* `lexem_begin_line_number` is said to be the line where the lexeme starts
  (`abstract_scaner.h:26`). Newlines in a literal are not counted; `back()` restores
  the place before the spaces of a lexeme and the line after them, so newlines are
  counted twice; `back()` at the end of the text restores the line of an earlier
  lexeme.
* The text ends after `%`, `[` or `[:`: the jump table is read at -1 or -2
  (`main_scaner.cpp:522`, `expr_scaner.cpp:426`). `$` at the end of the text is not
  counted (`expr_scaner.cpp:415`).
* The names of the classes in messages are in another order than their codes
  (`expr_scaner.cpp:233`, `expr_scaner.h:20`): a cut `[:odigits:]` is reported as `[:ndq:]`.
* `README.md:196-198` allows `?`, `*`, `+`, `[:nsq:]` and `[:ndq:]` in the expressions of
  identifiers; `Simple_regex_parser` reports them as errors.
* `first_chars` of a concatenation is that of its left operand, nullable or not
  (`first_chars.cpp:47`), so two automata that begin alike may pass `verify()`.
* A character and a class with that character are different keys of a state's jumps
  (`dfa.cpp:55`): where both are there, the generated branches take one of them.
* The generated calls and declarations of the procedure of keywords differ in name
  (`generate_idents_and_keywords_automata_impl.cpp:34`, `:45`); the generated skipping of
  comments assigns to and compares what are pointers (`implement_scaner.cpp:76`, `:177`,
  `:210`); the index of a final action is looked up among the identifiers
  (`get_act_repres.cpp:26`); the empty literal as a delimiter has no node
  (`attributed_char_trie.cpp:27`).

## The proofs

Each theorem holds for every value of the constants: every set of identifiers,
literals and uninitialised values, every alphabet, every list of keywords, every
bound. The constants are assumed to be what the program makes them:
`ReaderAssumption`, `ScopeAssumption` (indices are naturals, the built-in names
differ, the body of `write` is not the empty literal), `ActExprAssumption` (bounds
are naturals, 0 is the number of no action), `ScanersAssumption` (a word of a table is a
non-empty string without spaces, and the name of a class does not begin with the
colon that is read before it), `CategoriesAssumption` (characters are
positive and less than the codes of the two classes of quotes, both quotes are
characters, a class is a set of characters), `ClassesAssumption` (no class is empty: the
code's are fixed lists of letters or digits), `SrpAssumption` (the letters of `%idents`
are characters and classes), `AutomataAssumption` (keywords are non-empty strings of
characters, the letters of numbers and strings are characters and classes, indices of
actions are positive, bounds are naturals, and words of one character are compared), `TablesAssumption` (a
literal of a section is a non-empty string of positive characters, a set of characters another automaton
asks for is finite and not empty). Two of these say less than the program allows, since a literal
may be empty (`README.md:29`). An empty delimiter, or an empty keyword where keywords have a
table of their own, is undefined behaviour (`attributed_char_trie.cpp:27`), so `Tables`
leaves it out. An empty keyword where the keywords are joined to the identifiers is not
undefined: it has no commands (`u32strings_to_commands.cpp:17`) and nothing recognises
it. `Automata` leaves that case out by its assumption alone, so `IdentifiersSpelled`,
`KeywordsApart` and what is said of the automata made from keywords are checked and proved for
keywords that are not empty. The parsers take the empty literal as any
other: index 0 may be among `Strs`. `FirstCharactersAlwaysFound` assumes that the
bound on the words is not shorter than the expressions: with `MaxWord` smaller, `Words`
does not have the words that show what `first_chars` found. The run has 5 commands and
words of 3 characters.

| Module | Theorem | States |
|---|---|---|
| `KwSectionsProofs` | `TypeCorrect` | `TypeOK` |
| | `StaleAlwaysLiteral` | `StaleIsLiteral` |
| | `NumberedAlways` | `Numbered` |
| | `RegisteredAlways` | `Registered` |
| | `FirstDefinitionAlways` | `FirstDefinitionStays`, an action property |
| | `ImplementsGrammar` | `FollowsGrammar`, a refinement of `SectionGrammar` |
| `MainParserProofs` | `TypeCorrect` | `TypeOK` |
| | `TablesAlwaysAgree` | `TablesAgree` |
| | `ActionsAlwaysHaveBodies` | `ActionsHaveBodies` |
| | `VerifiedAlwaysComplete` | `VerifiedIsComplete`, of `HistorySpec` |
| | `FirstDefinitionAlways` | `FirstDefinitionStays`, an action property |
| | `HeadersAlwaysFollowGrammar` | `HeadersFollowGrammar`, a refinement of `SectionGrammar` |
| | `CommentsAlwaysFollowGrammar` | `CommentsFollowGrammar`, the same |
| | `KeywordsAlwaysFollowGrammar` | the same of the keyword and delimiter parser when `Main_parser` calls it; no run asks this |
| `ActExprProofs` | `TypeCorrect` | `TypeOK` |
| | `TreesAlways` | `Trees` |
| | `ActionsAlwaysCover` | `ActionsCoverOperands` |
| | `GrammarAlwaysFollowed` | `FollowsGrammar`, a refinement of `ExprGrammar` |
| | `OnlyWrongAlwaysDiagnosed` | `OnlyWrongIsDiagnosed`, an action property |
| `ScanersProofs` | `TypeCorrect` | `TypeOK` |
| | `LexemsAlwaysRead` | `LexemsRead` |
| | `ReadAlwaysAgain` | `ReadAgain` |
| | `LinesAlwaysCounted` | `LinesCounted`, an action property |
| `AutomataProofs` | `MalformedAlwaysReported` | `ReportsMalformed` |
| | `KeywordsAlwaysApart` | `KeywordsApart` |
| | `TypeCorrect` | `TypeOK` |
| `LanguageProofs` | `IdentifiersAlwaysSpelled` | `IdentifiersSpelled` |
| | `ExpressionAlwaysAccepted` | `AcceptsExpression` |
| | `ScannerAlwaysAccepts` | `ScannerAccepts` |
| | `ScannerAcceptsAll` | `ScannerAcceptsUpTo(m)`, the same for strings of any length |
| | `MinimalAlways` | `Minimal` |
| | `FirstCharactersAlwaysFound` | `FirstCharactersFound`, if `MaxCommands < 2 * MaxWord` |
| `TablesProofs` | `InternedAlways` | `Interned` |
| | `AttributesAlwaysStay` | `AttributesStay` |
| | `CategoriesAlwaysTold` | `CategoriesTold` |
| | `TypeCorrect` | `TypeOK` |
| | `StraightTablesAlwaysRead` | `StraightTablesRead` |

*Keywords and delimiters.* `TypeOK` alone is not inductive: `add_new_string` is
called with the token's value where an identifier is missing, and that value
could be garbage that indexes no table. `IInv` adds `StaleIsLiteral`: the only
way into `Colon_sep0` reads a literal, and no action stays there. Every action of
the parser is one of five moves (`Pass`, `Represent`, `TakePostaction`, `Define`,
`Leave`); a lemma per move shows that it keeps the types and what its `Effect` on
the tables is, and `KwStep` sorts the seven procedures into moves. `Numbered`,
`Registered` and `FirstDefinitionStays` then follow from the effects (nothing, a
new code, a new literal, or a diagnostic) without looking at the procedures again.
A refinement maps each procedure to a move of the automaton or to a diagnostic;
steps outside of the section map to `Outside` or stutter.

*The whole parser.* The first part of `MainParserProofs` does the same for the other
section parsers, so that the second knows of a step only which of the effects it has
(`TableStep`): nothing, a literal, a code, Newline, a body, a name, the mark of a
comment as a delimiter. `IInv` has, beside the types and `StaleIsLiteral`, that
the name `add_action_definition` is about to use was read (`ActionNamed`). For the
bodies this is not enough: a section could give a body away that an action still
has. `BodiesStand` adds that a literal that is a body has no code, so
that no other parser takes it for one of its own. `VInv` is the argument
about `verify()`: what each automaton marked as used has at every moment between
its mark and its completion, and that the marks of comments are touched by no one
else. What was given for the marks is followed state by state: `MarksOf(s)` says which marks
have been given when `comments_parser` is in `s`, and `CommentsMarks` that each literal read is stored
as the mark of its state, so that a section that ends without an error leaves
`MarksComplete`. No value of a literal is used in this, 0 included. For identifiers the
invariant is not needed twice: each effect on the tables (`NewCodeStays`,
`NewOneStays`) enters an identifier that was not defined, but for the exceptions the property names. Each refinement needs that outside of its section a step leaves the state of
that parser alone, which is a frame lemma over all other actions.

*Action expressions.* A reduction takes its operands from fixed depths of the LR
stack, so what says that they are there is an invariant on all of the stack:
`Shape`, that each state is over one of the states its row allows under it
(`Under`), that attributes are as its symbol needs them, and that the intervals of the buffer follow one
another. `Core` is `Shape`, `Trees` and `ActionsCoverOperands`, kept together: a
reduction (or a repair, which pushes, pops or drops) makes one tree of the two
intervals on top. For the refinement, `Reading` ties the state on top to the last lexeme
read and, under a reduction, to the lexeme given back, which is what makes the
error entries of the table exactly the lexemes the grammar forbids, in both
directions; the parentheses open are counted on the stack.

*Scanners.* The three properties need one another's halves. `LexInv` says of a
lexeme being read what its automaton has read, from its first character on
(`Started`), and of one that is over that it is what `Meets` says: a relation
between a text, a place, a scanner and a lexeme, without the state of the machine.
`LexemsRead` follows. Two lemmas about that relation do the rest: it survives
the text growing at its end, and it has one solution (`MeetsAlone`, with a lemma per kind of lexeme). So for
`ReadAgain` it is enough that what was given back still is a solution at the
place it was given back to, which no step changes. A literal is the exception: that
the characters between quotes determine its content is an induction over the
text, which the provers cannot do, so the induction is that of the behaviour
instead: `Same_literal`, that as much of the literal as was read again agrees with the
one given back. `LineInv` says that from its first character on the line of a lexeme does
not move, which is what `back()` restores.

*Identifiers.* `ReportsMalformed` compares two readings of a text: that of the
parser, lexeme by lexeme with recovery, and `WellFormed`, which divides the whole text
at its marks. The lemmas turn the second into a condition on neighbours:
`WellFormedIs`, a text is well formed exactly if each lexeme is `Regular` among those before
it (the nearest mark on either side comes from a least or a greatest element
of a set of naturals). `SrpInv` then says that an error was counted if and only if a text
that is over is malformed or the one under way is `Spoilt`, a text that nothing can
complete any more. For `KeywordsApart` the buffer is needed as well. `BufInv` says of the
commands that they are `Ordered`, letters and operators over
earlier commands; that is what makes `first_charsR`, a recursion over the commands,
a function that exists and is the only one (the first command at which two of them
differ would have equal operands). `Begun` says what the set found for the last
command contains: the first letter of each alternative begun so far. At the end it
contains those of all alternatives, and the test by `Meets` on characters and
classes decides as `KeywordsApart` does.

*Automata.* `TypeOK` says that the subset construction stays inside the automaton it
is given, so what has to be known is that this automaton is one; and that depends on
every function that touches a buffer before. `Raw` says of the commands as they are written,
and `Complete` of them unwrapped, that the operands of each command come before it
and those of a multiconcat are characters and classes. `RawInv` has it of both buffers of
`%idents` while no error is counted, with what the parser remembers of the buffer
(`Shaped`: where the alternative began, the alternatives before it), and `ExprInv` of
the buffer of an expression with its operands. `unwrap_commands`, the two functions
that join buffers, `u32strings_to_commands`, `WithAction` and `fuse_unwrapped_commands` keep
`Complete` (`UnwrapComplete`, `AstComplete`, `OrComplete`, `StringsComplete`, `ActionComplete`,
`FuseComplete`). Then `Spans`: the automaton of a command, numbered from n, begins in n, ends
in a greater state and has its edges between the two, for each builder
(`OrSpans`, `ConcatSpans` and so on) and so for a complete buffer (`BuildSpans`). Each function that
recurses over commands exists because its value follows from the earlier ones
(`Recursion`, made from a least counterexample), and has a type for the same reason
(`RecursionTyped`). `DfaInv` adds what the construction needs for itself: a
state processed is not unmarked and has no jumps yet, so that its jumps are by the
different characters of `jump_chars_set` and no character comes twice
(`Processed`, `JumpAdded`, `ConvertSound`). That a list of different sets has as many
elements as places is `CountedOnce`.

*Languages.* An automaton may go round in circles, so the words it accepts from its
states are no recursion over it. `Lang` takes the least family: the words that are in every
family of sets of words, one for each state, that has the empty word at the last states and is closed
under the edges taken backwards. A word is then shown to be accepted by following edges
(`LangIs`), and not to be by giving a family without it (`LangLeast`), and nothing is counted.
For each builder there is a lemma that says what its automaton accepts in terms of those of its operands
(`OrAccepts`, `ConcatAccepts`, `KleeneAccepts`, ...); each gives the family for its states. `Meaning` says what the commands
of a buffer mean, each in terms of the earlier ones, and `BuildMeans` that the automaton
built of a complete buffer accepts its meaning. `FuseMeans` says that the fused buffer
means the same; and `WordsMean` that `Words`, the reference, which cuts its words at
every operator, has the words of the meaning up to its bound and no other. The subset construction
keeps `FollowInv`: what is numbered is closed under epsilons, and a state that is not unmarked has, by each
character, one jump to the set of all that can be reached by it; without unmarked states, the
family of the sets is that of their elements (`SubsetsAccept`). The minimization keeps
`PartInv`: the groups are disjoint and cover the states (`Splits`), and a group
holds only states that are alike by every character with respect to the partition before. When
the two are equal, the partition is stable, and it is enough to follow the jumps of the
first state of a group (`GroupsAccept`); renumbering is a bijection (`Renumbered`). At last `Accepted`,
which counts the characters of a word, has the words of `Lang` up to its bound
(`WordsFromAre`). `ExpressionAlwaysAccepted` puts these together; nothing in it depends on
`MaxWord`, `MaxCommands` or the letters.

*Minimality.* `Minimal` says that a word tells any two states apart, and `Apart` is counted by turns; to
follow two groups back, refinement by refinement, to such a word would be long. The argument goes the
other way. A relation in which related states end words alike, and go by each character to
related states, is a `Bisim`; a missing jump goes to a state more, from which no word
is ended. Every such relation stays within a group of the partition (`Coarse`): of the
first partition by what ends a word, and a split keeps it (`BisimAlike`), but only because no
state is like the one more (`NotDead`): from every state of the NDFA its last can be
reached, as every builder leads from all its states to its last (`LeadTo`, `DfaEnds`).
That states are *not* told apart by `Apart` is a `Bisim`: its turns come to an end, since
each turn that tells more apart leaves a class of states more, and there are no more classes than states
(`ApartIs`, by the first states of the classes). So two states that are not told apart
stand for one group and are one (`ToldApart`); `Image` says how the states of the minimized
automaton stand for those of the DFA, through the groups and the new numbers. Every state is
reached (`ImageReached`) since every set of states was made for a jump from one that was
(`LeadFrom`, in `FollowInv`) and no group is empty; and a turn of `reach` that adds nothing
is the last (`ReachIs`).

*The expression of identifiers.* The parser of the two texts makes commands as it reads, and the reference
cuts the text at its marks. `SpeltInv` says that the commands made so far mean what was read so
far: of the pieces that are complete the sets that `Described` gives, of the one under way what
its letters since the last mark stand for (`SpeltHere`, one case for a state of the parser), and at a
mark `Described` grows by one piece (`DescribedMore`). What the tree of the two buffers means is
what the operators make of the meanings of their roots, wherever a buffer is put behind another
(`AstMeans`, `OrMeans`), the repeated body means every number of bodies (`RepeatedIs` ties the
star of the reference to it), and the branches of the keywords mean the keywords
(`KeywordsMean`). `SpelledInv` carries this from the texts to the commands the
automaton is built of.

*The generated branches.* `Scanned` goes by characters and not by the letters of an expression, which
may be classes of characters. The sum of the categories of some letters denotes what one of
them covers (`SumIs`; the sum of a negated quote and that quote is everything, and this
is where the two CASEs of `Plus` matter). Of the branches of a state `automata_repres_case`
takes one of the lowest rank that is open for the character. Where no character is covered by two jumps of a
state only one is open, and it leads where the jump by that letter does, though the jumps
were put together by their targets and of two targets with one category only the later is
kept (`BranchTaken`, `CaseIs`). So the table that `Scanned` fills has in its row `k` the
strings of `k` characters that stand for a word of `Lang` (`ScannedIs`), and the words of `Lang` are
those of the expression, by the lemmas above: `PartInv` keeps that the minimized automaton
is that of a stable partition until the end. The theorem needs the guard `Unambiguous` where the run
does; strings may be of any length (`ScannerAcceptsAll`).

*First characters.* That the words of a command begin with nothing but its category is not
enough: every character of it must be shown by a word, and by one that is short enough to be
among `Words`. So `StartedBy(X, c, m)` says that `X` has a word of at most `m` characters, that
its words begin as `c` says, and that each character of `c` begins a word of at most
`m`; with the number of leaves below a command as `m` it goes through every operator
(`StartedLetters`, `StartedEither`, `StartedBoth`, `StarWithin`), through concatenation
only where the left operand has no empty word (`Solid`), which is the guard of the property. No class
may be empty: after an empty one nothing is spelled that began before it. `WeightInv` keeps that the operands
on the stack own stretches of the buffer that do not meet, and that an operand
with `k` commands has at most `(k + 1) / 2` leaves, so an expression of `MaxCommands` commands has
at most `MaxWord` of them.

*Tries.* `Sound` says what a buffer of nodes is: a parent comes before its children,
the list of a node is exactly its children in the order in which they were
made, and no two of them have the same character. The lists are found by `ListIs`:
for a sound buffer the recursion over `next` has one solution. `add_child` keeps
`Sound` and adds at most one node (`AddChild`); `get_string` therefore differs on different
nodes (`StringsApart`: two nodes with one string have parents with one string) and does not
change as the trie grows (`StringsKept`). Insertion is followed along the string,
the trie of the delimiters along the list of them (`InsertStep`, `CodedStep`): every
node made is a prefix of the string under way, and the attribute of a node is the
code of the last delimiter that ended there, which is the only one because literals
have distinct indices (`InternedInv`). The inductions are over naturals, and each is
made from a least counterexample, since no prover takes the library's rule.

*Categories.* `Ordered`, the increasing listing of a finite set, exists by
induction on the size of the set and is the only one, so that sets are interned as
their listings are. `CatIInv` has the names: every set asked for has one node and
the name of that node, and two nodes never have one name. The second is not
obvious: `CATEGORY` names are numbered by the requests so far, of which two may be for
the same set, and `DELIMITER_BEGIN` is not numbered. It holds because a name that is
taken is smaller than the number of requests, and the delimiters ask once. From that the
table has for a character exactly the numbers of its sets (`ToldRight`), and the
number of `Other`, which is one more than the last, is in no row.

*The jump table.* The state of the generated scanner is a row number, and a row
number says nothing of a node; so the invariant `WalkInv` names a sequence `N`, the nodes
of the rows (`Generated`), and says that the row of the scanner is there and is that of what
was read (`Walks`). That `N` exists follows the construction: the concatenation of
the levels of a subtrie (`FlattenedIs`), of which each level has different nodes, none
of them less than the number of the level, so that the levels end
(`LevelsDeep`); the children of a node all come after it, and if only the last node
of each level has children, right after it (`SubtreeWalked`); the subtries
follow each other, and the row of a root is in the initial table
(`SubtreeTabled`, `JumpsTabled`). The first half, that there are as many rows behind a
row as its node has children, holds of any trie and gives `TypeCorrect`: a wrong transition
(`VJumpTables`) leads to a wrong row but never out of the table. The second half
gives `StraightTablesAlwaysRead`: a character that begins a delimiter is the one of a
child of the root, which is in the table (`SortedIs`) and found (`SearchIs`: after
each turn what is left of the table is shorter and still has the character); a
character that is no child's continues no delimiter, because every prefix of one has a
node (`PrefixNode`). That the first character begins a delimiter is `CategoriesTold`
for the set that the delimiters asked for (`Asked`).

TLC found these invariants sound on the small instances before they were proved,
as invariants of the runs above, all but `Same_literal`'s last form and the parts of those of
`LanguageProofs` that speak of languages, which are infinite sets, or of some function that exists.
Some definitions were restated so that they could be reasoned about, saying the
same: `Trees` by who owns a command and not by a recursion over
the buffer, `Doubles` by where each character is and not by a recursion over the
literal, folds as recursive functions, `epsilon_closure`, `WordsFrom`, `Scanned`, `split_group` and the turns of
`convert_NDFA_to_DFA` too, the maps of `Tables` without the operators of
the module `TLC`, which have no definition for the provers, a sorted listing by what it is
and not by how it is sorted, and the levels, the table and the search by halves as
functions of the number of the turn. In three places the model itself was wrong or said
less than it seemed to. In `LinesCounted` the exception of `back()` was too narrow: a newline
in a literal that is given back counts too. The arms of two CASEs overlapped
(`Meets`, `get_init_state`), so that by the semantics of TLA+ any of the arms might
have been meant. And `generate_category_table` told the categories for any number of
sets, where the code has a word of 64 bits.

Checked by TLC only:

* liveness (`SectionsEnd`, `EndsOrStuck`, `EndsOrRepairs`, `Finishes`): fairness and
  ENABLED are outside of the prover;
* `ActionsOfExpression`: it compares the paths with the words that go on from them by at
  most `Slack` letters, which is enough for the expressions of the run and not for longer
  ones, so it says nothing that could hold for every bound; and the languages of the
  proofs leave the actions out.

## What is not modelled

* The alphabets of the classes, the sixteen keywords and the class names: they are
  data; the models have shorter ones with the same conflicts. `char_conv` and the
  other conversions of characters.
* The initial and final actions of number and string sections, which are copied.
* `is_subcategory`, which nobody calls, and `Size_t_trie`, which interns sets of
  states as `Char_trie` interns strings.
* In `MainParser`, the last part of `verify()` (an open choice) and filling
  `Info_for_constructing`, a copy field by field.
* Generated text: how tables, automata and categories are laid out as C++, the
  header and the auxiliary files. What the generated branches and tables do to a
  text is in `Tables` and `Dfa`. The part that skips comments is left out: the text
  that is generated for it is no C++ (see above), so it has no behaviour to model.
* Files, directories and the command line: pure input and output.

## Plan

In this order; what is done is marked.

1. *Done.* Reader, scope, the section parsers, the main parser; the theorems about
   keywords and delimiters.
2. *Done.* The expression parser with its repairs, against its grammar.
3. *Done.* Tries, jump tables, categories of the generated scanner (`Tries`, `Tables`).
4. *Done.* Generalized characters, command buffers, first characters (`Categories`,
   `Commands`).
5. *Done.* `Simple_regex_parser`, the automata and their minimisation (`Ndfa`, `Dfa`,
   `Automata`).
6. *Done.* Both scanners over one `Location` (`Scaners`).
7. *Done.* Theorems about the main parser, the action expressions and the scanners.
8. *Done.* `ReportsMalformed` and `KeywordsApart` of `Automata`; `Interned`, `AttributesStay` and
   `CategoriesTold` of `Tables`.
9. *Done.* The types of `Tables` and `StraightTablesRead`.
10. *Done.* The types of `Automata`: every jump leaves and enters a state that was built, at
   most one for a state and a character.
11. *Done.* The refinement of partitions, and what the automata accept (`AcceptsExpression`),
   that no state is too many (`Minimal`), what the generated branches do
   (`ScannerAccepts`), what the commands of identifiers spell (`IdentifiersSpelled`), and
   what expressions begin with (`FirstCharactersFound`).
12. A class with characters beside it in one state (the guard of `ScannerAccepts`)
   and `MayIntersect` as the real test would need `MainParser` to carry expressions;
   this is worth a module of its own only with a bound of a few lexemes.
