---------------------------- MODULE FilterLine -----------------------------
(***************************************************************************)
(* The cockpit's input lines and filter expressions: parsing and matching  *)
(* (internal/tui/filter.go) and the keys of the search and filter lines    *)
(* (internal/tui/inputs.go).                                               *)
(*                                                                         *)
(* What is typed is a sequence of tokens, the fields of the text.  A token *)
(* has a separator ("" for a word), perhaps the prefix tag:, a key and a   *)
(* value.  Keys of one name that differ in letter case are told apart by a *)
(* map and not by EqualFold; of values only what EqualFold and the         *)
(* normalizers see is kept.  A phrase is in a text if its words follow one *)
(* another in it.  A backspace takes a token, for as many backspaces.  Of  *)
(* the search, which is matched fuzzily, only the length is kept.  The     *)
(* refresh that a submitted filter issues is in Cockpit.                   *)
(***************************************************************************)
EXTENDS Integers, FiniteSets, Sequences, SequencesExt, Sublists

CONSTANTS
    Tokens,     \* the tokens the operator may type
    Rows,       \* the rows in memory
    MaxTyped    \* bound: tokens typed in all

\* What normalizeMethodFilter, normalizeHealthFilter and normalizeBoolFilter
\* accept, and what they make of it.
Meaning ==
    [method |-> [ssh |-> "ssh", ssm |-> "ssm", aws |-> "ssm"],
     health |-> [up |-> "up", down |-> "down", unknown |-> "unknown"],
     hidden |-> [true |-> "true", yes |-> "true", false |-> "false"]]

ASSUME TokensAssumption ==
    \A t \in Tokens : t.sep \in {"", "=", ":"} /\ t.tag \in BOOLEAN
ASSUME MaxTypedAssumption == MaxTyped \in Nat

VARIABLES
    inputKind,  \* the line that is open, or "" in the cockpit
    filterText, \* Model.filterText
    search,     \* the length of Model.search
    filter,     \* Model.filter
    showHidden, \* runtime.Query.ShowHidden
    accepted,   \* Model.filter.Raw, the text of the filter in force
    typed       \* tokens typed so far

lineVars == <<inputKind, filterText, search, filter, showHidden, accepted, typed>>

----------------------------------------------------------------------------
(* Expressions *)

\* splitFilterToken and the switch on the key: tag: asks for "=", and what is
\* no field is a tag.
Kind(t) ==
    CASE t.sep = "" \/ (t.tag /\ t.sep = ":") -> "word"
      [] ~t.tag /\ t.key.name \in {"name"} \cup DOMAIN Meaning -> t.key.name
      [] OTHER -> "tag"

Refused(t) ==
    \/ Kind(t) = "tag" /\ t.key.name = ""
    \/ Kind(t) \in DOMAIN Meaning /\ t.value \notin DOMAIN Meaning[Kind(t)]

NoFilter == [name |-> "", method |-> "", health |-> "", hidden |-> "",
             tags |-> <<>>, text |-> <<>>]

\* A token of an expression, one that is not refused.
ReadTokenByName(f, t) ==
    CASE Kind(t) = "word" -> [f EXCEPT !.text = Append(@, t)]
      [] Kind(t) = "name" -> [f EXCEPT !.name = t.value]
      [] Kind(t) = "tag" ->
             [f EXCEPT !.tags =
                 LET key == [t.key EXCEPT !.upper = FALSE]
                 IN  [k \in DOMAIN @ \cup {key} |-> IF k = key THEN t.value ELSE @[k]]]
      [] OTHER -> [f EXCEPT ![Kind(t)] = Meaning[Kind(t)][t.value]]

ReadToken(f, t) ==
    CASE Kind(t) = "word" -> [f EXCEPT !.text = Append(@, t)]
      [] Kind(t) = "name" -> [f EXCEPT !.name = t.value]
      [] Kind(t) = "tag" ->
             [f EXCEPT !.tags = [k \in DOMAIN @ \cup {t.key} |->
                                    IF k = t.key THEN t.value ELSE @[k]]]
      [] OTHER -> [f EXCEPT ![Kind(t)] = Meaning[Kind(t)][t.value]]

parseFilterExpression(text) ==
    LET read[n \in 0 .. Len(text)] ==
            IF n = 0 THEN NoFilter ELSE ReadToken(read[n - 1], text[n])
    IN  read[Len(text)]

\* providerTagValue takes the first tag with the key, in any case of letters,
\* that the iteration over the row's map meets: what a comparison with its
\* value may say.
TagAnswers(row, key, value) ==
    LET called == {tag \in row.tags : tag.key.name = key.name}
    IN  IF called = {} THEN {FALSE} ELSE {tag.value = value : tag \in called}

\* What matches may say of a row.
matches(f, row) ==
    LET rest == /\ f.name \in row.prefixes \cup {""}
                /\ f.method \in row.methods \cup {""}
                /\ f.health \in {row.health, ""}
                /\ f.hidden \in {row.hidden, ""}
                /\ f.text \in SubSeqs(row.words)
    IN  {yes \in BOOLEAN :
            IF yes
            THEN rest /\ \A key \in DOMAIN f.tags :
                             TRUE \in TagAnswers(row, key, f.tags[key])
            ELSE rest => \E key \in DOMAIN f.tags :
                             FALSE \in TagAnswers(row, key, f.tags[key])}

----------------------------------------------------------------------------
(* Keys *)

LineInit ==
    /\ inputKind = ""
    /\ filterText = <<>>
    /\ search = 0
    /\ filter = NoFilter
    /\ showHidden = FALSE
    /\ accepted = <<>>
    /\ typed = 0

\* `/` and `f`
OpenLine(kind) ==
    /\ inputKind = ""
    /\ inputKind' = kind
    /\ UNCHANGED <<filterText, search, filter, showHidden, accepted, typed>>

Becomes(text, words) ==
    /\ inputKind # ""
    /\ filterText' = text
    /\ search' = words
    /\ UNCHANGED <<inputKind, filter, showHidden, accepted>>

Type(t) ==
    /\ typed < MaxTyped
    /\ typed' = typed + 1
    /\ IF inputKind = "filter" THEN Becomes(Append(filterText, t), search)
                               ELSE Becomes(filterText, search + 1)

BackspaceInSearch ==
    /\ UNCHANGED typed
    /\ IF search > 0 THEN Becomes(filterText, search - 1)
       ELSE filterText # <<>> /\ Becomes(Front(filterText), search)

\* In an empty filter line, backspace goes on in the search.
Backspace ==
    /\ UNCHANGED typed
    /\ IF inputKind = "filter" /\ filterText # <<>>
       THEN Becomes(Front(filterText), search)
       ELSE search > 0 /\ Becomes(filterText, search - 1)

\* Esc forgets a search, and keeps what was typed in a filter line.
EscapeLine ==
    /\ inputKind # ""
    /\ inputKind' = ""
    /\ search' = IF inputKind = "search" THEN 0 ELSE search
    /\ UNCHANGED <<filterText, filter, showHidden, accepted, typed>>

EnterSearchLine ==
    /\ inputKind = "search"
    /\ inputKind' = ""
    /\ UNCHANGED <<filterText, search, filter, showHidden, accepted, typed>>

\* submitFilter: with an error everything stays as it is, the line open.
Submit ==
    /\ inputKind = "filter"
    /\ \A t \in Range(filterText) : ~Refused(t)
    /\ inputKind' = ""
    /\ filter' = parseFilterExpression(filterText)
    /\ showHidden' = IF filter'.hidden = "" THEN showHidden
                                            ELSE filter'.hidden = "true"
    /\ accepted' = filterText
    /\ UNCHANGED <<filterText, search, typed>>

\* clearSearchAndFilter; what hidden: has switched stays.
ClearFilter ==
    /\ inputKind = ""
    /\ search > 0 \/ filterText # <<>> \/ accepted # <<>>
    /\ search' = 0
    /\ filterText' = <<>>
    /\ filter' = NoFilter
    /\ accepted' = <<>>
    /\ UNCHANGED <<inputKind, showHidden, typed>>

LineNext ==
    \/ \E kind \in {"search", "filter"} : OpenLine(kind)
    \/ \E t \in Tokens : Type(t)
    \/ Backspace
    \/ EscapeLine
    \/ EnterSearchLine
    \/ Submit
    \/ ClearFilter

LineSpec == LineInit /\ [][LineNext]_lineVars

----------------------------------------------------------------------------
(* Properties *)

\* Whether a token's condition can come out as asked, for a row.
Holds(t, row, yes) ==
    CASE Kind(t) = "word" -> TRUE = yes
      [] Kind(t) = "name" -> (t.value = "" \/ t.value \in row.prefixes) = yes
      [] Kind(t) = "method" -> (Meaning.method[t.value] \in row.methods) = yes
      [] Kind(t) = "tag" -> yes \in TagAnswers(row, t.key, t.value)
      [] OTHER -> (Meaning[Kind(t)][t.value] = row[Kind(t)]) = yes

\* The conditions that count: of each field and each key of a tag the last.
Counts(text, i) ==
    \A j \in i + 1 .. Len(text) :
        Kind(text[j]) = Kind(text[i]) /\ Kind(text[i]) # "word" =>
            Kind(text[i]) = "tag" /\ text[j].key # text[i].key

\* The filter in force says yes to a row exactly where the row meets every
\* condition that counts and has the words as one phrase.  A row with two tags
\* whose keys differ in letter case only may get either answer.
FilterMeansWhatItSays ==
    \A row \in Rows :
        LET words == Sublist(accepted,
                             {i \in DOMAIN accepted : Kind(accepted[i]) = "word"})
            ones == {i \in DOMAIN accepted : Counts(accepted, i)}
            yes == \A i \in ones : Holds(accepted[i], row, TRUE)
            no == \E i \in ones : Holds(accepted[i], row, FALSE)
        IN  /\ TRUE \in matches(filter, row)
                   <=> yes /\ words \in SubSeqs(row.words)
            /\ FALSE \in matches(filter, row)
                   <=> no \/ words \notin SubSeqs(row.words)

\* The lines do not edit each other's text, but for the backspaces that an
\* empty filter line passes on to the search.
LinesAreSeparate ==
    [][/\ search' # search =>
              \/ inputKind \in {"search", ""}
              \/ inputKind = "filter" /\ filterText = <<>>
       /\ filterText' # filterText => inputKind # "search"]_lineVars

============================================================================
