----------------------------- MODULE PromptParser -----------------------------
(***************************************************************************)
(* The prompt: typing it, splitting it into steps, the typed request of    *)
(* each step, and submitting it (crates/bitbygit-core/src/                 *)
(* prompt_parser.rs; crates/bitbygit-tui/src/lib.rs, handle_key and        *)
(* submit_prompt).                                                         *)
(*                                                                         *)
(* A prompt is a sequence of tokens: a blank, a quote, the characters that *)
(* are special to the parser, and runs of other characters.  Two runs with *)
(* no blank between them are one word.                                     *)
(***************************************************************************)
EXTENDS Naturals, Sequences, FiniteSets, SequencesExt

CONSTANTS
  None,
  Tokens,     \* what a prompt is made of
  Lower,      \* the token in lower case
  Requests,   \* the requests a user has in mind
  MaxPrompt,  \* MAX_PROMPT_LEN, in tokens
  Typed,      \* bound: the tokens a user types without a request in mind
  MaxTyped    \* bound: how many of them

Blank == " "
Quote == "quote"
Marks == {Blank, Quote, "&", ";"}

\* What begins with a dash, in lower case.
Options == {"-m", "--rebase", "--continue", "--abort", "--skip", "-x"}
IsOption(token) == Lower[token] \in Options

\* The words of the grammar.
ConnectorWords == {"and", "then"}
Keywords ==
  {"branches", "fetch", "push", "open", "pr", "pull", "request", "to", "rebase", "merge",
   "checkout", "branch", "from", "commit"} \cup ConnectorWords

ASSUME PromptAssumption ==
  /\ Marks \cup Options \cup Keywords \cup {"AND"} \subseteq Tokens
  /\ Lower \in [Tokens -> Tokens]
  /\ \A t \in Marks \cup Options \cup Keywords : Lower[t] = t
  /\ Lower["AND"] = "and"
  /\ Typed \subseteq Tokens
  /\ MaxPrompt \in Nat /\ MaxTyped \in Nat

VARIABLES
  prompt,     \* the text of the prompt
  intended,   \* history: what the user meant to write, or None
  submitted   \* history: what the last key has handed to the planner, or None

promptVars == <<prompt, intended, submitted>>

-----------------------------------------------------------------------------
(***************************************************************************)
(* Text.                                                                   *)
(***************************************************************************)
From(s, i) == SubSeq(s, i, Len(s))

TrimStart(s) ==
  IF \E i \in DOMAIN s : s[i] # Blank
  THEN From(s, CHOOSE i \in DOMAIN s : s[i] # Blank /\ \A j \in 1..(i - 1) : s[j] = Blank)
  ELSE <<>>

Trim(s) == Reverse(TrimStart(Reverse(TrimStart(s))))

InLower(s) == [i \in DOMAIN s |-> Lower[s[i]]]

\* A further character ends a word, belongs to the last one or begins one.
AddToWords(words, s, i) ==
  CASE s[i] = Blank                             -> words
    [] s[i] # Blank /\ i > 1 /\ s[i - 1] # Blank ->
         [words EXCEPT ![Len(words)] = Append(@, s[i])]
    [] OTHER                                    -> Append(words, <<s[i]>>)

\* split_whitespace
Words(s) ==
  LET words[i \in 0..Len(s)] ==
        IF i = 0 THEN <<>> ELSE AddToWords(words[i - 1], s, i)
  IN words[Len(s)]

-----------------------------------------------------------------------------
(***************************************************************************)
(* split_prompt_sequence.                                                  *)
(***************************************************************************)
\* ascii_word_at
IsWordAt(s, i, words) ==
  /\ Lower[s[i]] \in words
  /\ i = 1 \/ s[i - 1] = Blank
  /\ i = Len(s) \/ s[i + 1] = Blank

\* connector_len_at, or 0
ConnectorLen(s, i) ==
  CASE s[i] = "&" /\ i < Len(s) /\ s[i + 1] = "&" -> 2
    [] IsWordAt(s, i, ConnectorWords) -> 1
    [] OTHER -> 0

IsShell(token) == token \in {"&", ";"}

Scan == [segments |-> <<>>, start |-> 1, quoted |-> FALSE, next |-> 1, failed |-> FALSE]

\* Faulty variant: a connector in a quoted message splits it.
AtAnyConnector(scan, s, i) == ConnectorLen(s, i) > 0

AtConnector(scan, s, i) == ~scan.quoted /\ ConnectorLen(s, i) > 0

EndSegment(scan, s, last) ==
  LET segment == Trim(SubSeq(s, scan.start, last))
  IN IF segment = <<>> THEN [scan EXCEPT !.failed = TRUE]
     ELSE [scan EXCEPT !.segments = Append(@, segment)]

ScanAt(s, scan, i) ==
  CASE scan.failed \/ i < scan.next -> scan
    [] ~scan.failed /\ i >= scan.next /\ s[i] = Quote -> [scan EXCEPT !.quoted = ~@]
    [] OTHER ->
         IF AtConnector(scan, s, i)
         THEN LET after == i + ConnectorLen(s, i)
              IN [EndSegment(scan, s, i - 1) EXCEPT !.start = after, !.next = after]
         ELSE [scan EXCEPT !.failed = ~scan.quoted /\ IsShell(s[i])]

\* The loop over the prompt.
ScanOf(s) ==
  LET scan[i \in 0..Len(s)] == IF i = 0 THEN Scan ELSE ScanAt(s, scan[i - 1], i)
  IN scan[Len(s)]

SplitPrompt(s) ==
  LET scan == ScanOf(s)
  IN IF scan.failed \/ scan.quoted THEN [scan EXCEPT !.failed = TRUE]
     ELSE EndSegment(scan, s, Len(s))

-----------------------------------------------------------------------------
(***************************************************************************)
(* parse_single_prompt: the typed request of one step, or None.             *)
(***************************************************************************)
Request(kind, name, base) == [kind |-> kind, name |-> name, base |-> base]
Plain(kind) == Request(kind, <<>>, <<>>)

\* parse_branch_arg
IsBranchArg(s) ==
  /\ s # <<>>
  /\ ~IsOption(s[1])
  /\ \A i \in DOMAIN s : s[i] # Blank

WithBranch(kind, arg) == IF IsBranchArg(arg) THEN Request(kind, arg, <<>>) ELSE None

\* parse_open_pull_request_prompt
OpenTo(base) == IF IsBranchArg(base) THEN Request("OpenPullRequest", <<>>, base) ELSE None

\* Faulty variant: the base of a new branch is dropped.
ParseBranchAtHead(parts) ==
  IF Len(parts) \in {1, 3} THEN WithBranch("CreateBranch", parts[1]) ELSE None

\* parse_branch_prompt
ParseBranch(parts) ==
  CASE Len(parts) = 1 ->
         IF InLower(parts[1]) = <<"list">> THEN None ELSE WithBranch("CreateBranch", parts[1])
    [] Len(parts) = 3 /\ InLower(parts[2]) = <<"from">> ->
         IF IsBranchArg(parts[1]) /\ IsBranchArg(parts[3])
         THEN Request("CreateBranch", parts[1], parts[3]) ELSE None
    [] OTHER -> None

\* parse_commit_message
ParseMessage(s) ==
  LET ends    == {i \in 2..Len(s) : s[i] = Quote}
      end     == CHOOSE i \in ends : \A j \in ends : i <= j
      message == SubSeq(s, 2, end - 1)
  IN CASE s = <<>> -> None
       [] s # <<>> /\ s[1] # Quote -> Request("Commit", s, <<>>)
       [] OTHER -> IF ends = {} \/ Trim(From(s, end + 1)) # <<>> \/ Trim(message) = <<>>
                   THEN None ELSE Request("Commit", message, <<>>)

\* parse_commit_prompt, after the word commit
ParseCommit(s) ==
  LET rest == TrimStart(s)
  IN CASE rest = <<>> -> None
       [] rest # <<>> /\ rest[1] = "-m" /\ (Len(rest) = 1 \/ rest[2] = Blank) ->
            ParseMessage(Trim(From(rest, 2)))
       [] rest # <<>> /\ rest[1] # "-m" /\ ~IsOption(rest[1]) -> ParseMessage(Trim(rest))
       [] OTHER -> None

Phrases ==
  {<< <<"branches">>, Plain("Branches") >>,
   << <<"fetch">>, Plain("Fetch") >>,
   << <<"push">>, Plain("Push") >>,
   << <<"open", Blank, "pr">>, Plain("OpenPullRequest") >>,
   << <<"open", Blank, "pull", Blank, "request">>, Plain("OpenPullRequest") >>,
   << <<"pull">>, Plain("Pull") >>,
   << <<"pull", Blank, "--rebase">>, Plain("PullRebase") >>,
   << <<"pull", Blank, "rebase">>, Plain("PullRebase") >>,
   << <<"merge", Blank, "--continue">>, Plain("MergeContinue") >>,
   << <<"merge", Blank, "--abort">>, Plain("MergeAbort") >>,
   << <<"rebase", Blank, "--continue">>, Plain("RebaseContinue") >>,
   << <<"rebase", Blank, "--abort">>, Plain("RebaseAbort") >>,
   << <<"rebase", Blank, "--skip">>, Plain("RebaseSkip") >>}

Commands == {<<"checkout", "Checkout">>, <<"merge", "Merge">>, <<"rebase", "Rebase">>}

Starts(s, words) == IsPrefix(words, InLower(s))

ParseSingle(s) ==
  LET phrase  == {p \in Phrases : p[1] = InLower(s)}
      command == {c \in Commands : Starts(s, <<c[1], Blank>>)}
  IN IF phrase # {} THEN (CHOOSE p \in phrase : TRUE)[2]
     ELSE CASE command # {} ->
                 WithBranch((CHOOSE c \in command : TRUE)[2], Trim(From(s, 2)))
            [] Starts(s, <<"open", Blank, "pr", Blank, "to", Blank>>) -> OpenTo(Trim(From(s, 6)))
            [] Starts(s, <<"open", Blank, "pull", Blank, "request", Blank, "to", Blank>>) ->
                 OpenTo(Trim(From(s, 8)))
            [] Starts(s, <<"branch", Blank>>) -> ParseBranch(Words(From(s, 2)))
            [] Starts(s, <<"commit">>) /\ (Len(s) = 1 \/ s[2] = Blank) -> ParseCommit(From(s, 2))
            [] OTHER -> None

\* parse_prompt: the requests of all steps, or none.
ParsePrompt(s) ==
  LET split    == SplitPrompt(Trim(s))
      requests == [i \in DOMAIN split.segments |-> ParseSingle(split.segments[i])]
  IN IF Trim(s) = <<>> \/ split.failed \/ None \in Range(requests) THEN None ELSE requests

-----------------------------------------------------------------------------
(***************************************************************************)
(* The prompt panel.                                                       *)
(***************************************************************************)
\* What a user has in mind can be said: a name is one word, no option and no
\* connector, and a message has no quote in it.
IsName(w) ==
  /\ w \in Seq(Tokens) /\ IsBranchArg(w)
  /\ \A i \in DOMAIN w : w[i] \notin Marks
  /\ Len(w) = 1 => Lower[w[1]] \notin ConnectorWords

IsMessage(w) == w \in Seq(Tokens) /\ Trim(w) # <<>> /\ Quote \notin Range(w)

CanBeSaid(r) ==
  /\ r = Request(r.kind, r.name, r.base)
  /\ \/ \E p \in Phrases : r = p[2]
     \/ r.kind \in {"Checkout", "Merge", "Rebase"} /\ IsName(r.name) /\ r.base = <<>>
     \/ r.kind = "CreateBranch" /\ IsName(r.name) /\ IsName(r.base)
     \/ /\ r.kind = "CreateBranch" /\ IsName(r.name) /\ r.base = <<>>
        /\ InLower(r.name) # <<"list">>
     \/ r.kind = "OpenPullRequest" /\ r.name = <<>> /\ IsName(r.base)
     \/ r.kind = "Commit" /\ IsMessage(r.name) /\ r.base = <<>>

ASSUME RequestAssumption == None \notin Requests /\ \A r \in Requests : CanBeSaid(r)

\* The ways the documentation writes a request.
Written(r) ==
  LET To(word, name) == <<word, Blank>> \o name
      Optional(word, name) == IF name = <<>> THEN <<>> ELSE <<Blank, word, Blank>> \o name
  IN CASE r.kind = "Commit"       -> {<<"commit", Blank, "-m", Blank, Quote>> \o r.name \o <<Quote>>}
       [] r.kind = "CreateBranch" -> {To("branch", r.name) \o Optional("from", r.base)}
       [] r.kind = "Checkout"     -> {To("checkout", r.name)}
       [] r.kind = "Merge"        -> {To("merge", r.name)}
       [] r.kind = "Rebase"       -> {To("rebase", r.name)}
       [] r.kind = "OpenPullRequest" /\ r.base # <<>> ->
            {<<"open", Blank, "pr">> \o Optional("to", r.base),
             <<"open", Blank, "pull", Blank, "request">> \o Optional("to", r.base)}
       [] OTHER                   -> {p[1] : p \in {p \in Phrases : p[2] = r}}

Connectors == {<<Blank, "and", Blank>>, <<"&", "&">>, <<Blank, "AND", Blank, Blank>>,
               <<Blank, "then", Blank>>}

\* Key by key, a prompt for one or two requests.
WritePrompt ==
  /\ prompt = <<>> /\ submitted = None
  /\ \E first, second \in Requests : \E one \in Written(first), two \in Written(second) :
       \E connector \in Connectors :
         \/ prompt' = one /\ intended' = <<first>>
         \/ prompt' = one \o connector \o two /\ intended' = <<first, second>>
  /\ Len(prompt') <= MaxPrompt
  /\ submitted' = None

Type ==
  /\ Len(prompt) < MaxPrompt
  /\ Len(prompt) < MaxTyped
  /\ \E token \in Typed : prompt' = Append(prompt, token)
  /\ intended' = None
  /\ submitted' = None

Backspace ==
  /\ prompt' = IF prompt = <<>> THEN <<>> ELSE Front(prompt)
  /\ intended' = None
  /\ submitted' = None

\* submit_prompt: a prompt that is not understood, or that the planner refuses,
\* is left as it is.  Where the policy disables the prompt there is only a
\* message, and nothing of this module changes.
SubmitPrompt ==
  /\ \E requests \in {ParsePrompt(prompt)} \ {None} : submitted' = requests
  /\ \/ prompt' = <<>> /\ intended' = None
     \/ UNCHANGED <<prompt, intended>>

PromptInit == prompt = <<>> /\ intended = None /\ submitted = None

PromptNext == WritePrompt \/ Type \/ Backspace \/ SubmitPrompt

PromptSpec == PromptInit /\ [][PromptNext]_promptVars

-----------------------------------------------------------------------------
(***************************************************************************)
(* Properties.                                                             *)
(***************************************************************************)

Quoted(s, i) == Cardinality({j \in 1..(i - 1) : s[j] = Quote}) % 2 = 1

\* The first ampersand of a pair, of a run that begins where it does.
OpensPair(s, i) ==
  /\ ConnectorLen(s, i) = 2
  /\ \E j \in 1..i : /\ j = 1 \/ s[j - 1] # "&"
                     /\ \A k \in j..i : s[k] = "&"
                     /\ (i - j) % 2 = 0

Cuts(s) ==
  {i \in DOMAIN s : ~Quoted(s, i) /\ s[i] # Quote
                    /\ (OpensPair(s, i) \/ ConnectorLen(s, i) = 1)}

Ends(s, i) == i + ConnectorLen(s, i) - 1

Pieces(s, cuts) ==
  {p \in ({1} \cup {Ends(s, c) + 1 : c \in cuts}) \X ({Len(s)} \cup {c - 1 : c \in cuts}) :
     p[1] <= p[2] + 1 /\ \A c \in cuts : c < p[1] \/ c > p[2]}

Piece(s, p) == Trim(SubSeq(s, p[1], p[2]))

\* A prompt is cut at the connectors outside of quotes and nowhere else, so
\* that no message becomes a step: it is refused if a quote is open, a piece is
\* blank or a character of the shell stands outside of quotes.
SplitsAtUnquotedConnectors ==
  LET s      == Trim(prompt)
      split  == SplitPrompt(s)
      cuts   == Cuts(s)
      pieces == Pieces(s, cuts)
  IN s # <<>> =>
     /\ split.failed <=>
          \/ Quoted(s, Len(s) + 1)
          \/ \E p \in pieces : Piece(s, p) = <<>>
          \/ \E i \in DOMAIN s : /\ IsShell(s[i]) /\ ~Quoted(s, i)
                                 /\ \A c \in cuts : i < c \/ i > Ends(s, c)
     /\ ~split.failed =>
          /\ Len(split.segments) = Cardinality(cuts) + 1
          /\ \A p \in pieces :
               split.segments[1 + Cardinality({c \in cuts : c < p[1]})] = Piece(s, p)

\* A request, or a sequence of two, that is written as the documentation does,
\* joined by any connector, is understood as that sequence.
UnderstoodAsWritten == intended # None => ParsePrompt(prompt) = intended

=============================================================================
