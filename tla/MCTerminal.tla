------------------------------ MODULE MCTerminal ------------------------------
(***************************************************************************)
(* The status panel, the prompt and the confirmation of a plan share no    *)
(* state here: a behaviour is one of the three.                            *)
(***************************************************************************)
EXTENDS StatusPanel, PromptParser, Confirmation

CONSTANTS v, w

VARIABLE part

Order == <<"a", "b", "? c", "c">>

\* In the list of records the bare name "? c" reads as the untracked path c.
BareNames == [p \in Paths |-> IF p = "? c" THEN [tag |-> "?", xy |-> <<>>, path |-> "c"]
                              ELSE [tag |-> "bare", xy |-> <<>>, path |-> p]]

Files(a, b, odd, c) == [p \in {"a", "b", "? c", "c"} |->
                          CASE p = "a" -> a [] p = "b" -> b [] p = "? c" -> odd [] OTHER -> c]

Tree(head, index, work, active) ==
  [head |-> head, index |-> index, work |-> work, operation |-> active]

Crowded == Tree(Files(v, v, v, v), Files(w, w, w, Nil), Files(v, v, Nil, v), Nil)
Moved   == Tree(Files(v, Nil, w, Nil), Files(v, w, Nil, Nil), Files(v, w, Nil, w), Nil)
Merging == Tree(Files(v, v, v, v), Files("unmerged", w, v, v), Files(w, w, v, w), "merge")
Left == {Crowded, Moved, Merging}

\* Both sizes have room for the line of the branch, which names a remote branch
\* of a few letters, and for the short paths; the odd path is wrapped, above, at
\* or below the selected row.
Sizes == {[width |-> 120, height |-> 18], [width |-> 40, height |-> 12]}
Widths == [p \in Paths |-> IF p = "? c" THEN 60 ELSE 12]

\* The usual width of a terminal, in which short names fit and only the line of
\* the branch is wrapped.
UsualSize == {[width |-> 80, height |-> 18]}
ShortNames == [p \in Paths |-> 5]

Settings == {[refresh |-> TRUE, diff |-> TRUE, staging |-> "run"],
             [refresh |-> TRUE, diff |-> FALSE, staging |-> "confirm"],
             [refresh |-> FALSE, diff |-> TRUE, staging |-> "run"]}

ConnectedWords == {"AND", "and", "then", "commit", "branch", "topic"}
Alphabet == Marks \cup Options \cup ConnectedWords \cup
  {"from", "list", "branches", "fetch", "push", "pull", "rebase", "open", "pr", "request", "to",
   "merge", "checkout", "Checkout"}
InLowerCase == [t \in Alphabet |-> CASE t = "AND" -> "and" [] t = "Checkout" -> "checkout" [] OTHER -> t]
TypedTokens == Marks \cup {"AND", "commit", "-m", "branch", "from", "topic"}

InMind ==
  {Plain(k) : k \in {"Branches", "Push", "Pull", "PullRebase", "MergeContinue", "RebaseSkip",
                     "OpenPullRequest"}}
  \cup {Request(k, <<"topic">>, <<>>) : k \in {"Checkout", "Merge", "Rebase", "CreateBranch"}}
  \cup {Request("CreateBranch", <<"topic">>, <<"from">>),
        Request("OpenPullRequest", <<>>, <<"topic">>),
        Request("Commit", <<"topic", " ", "and", " ", "&", "&", " ", ";">>, <<>>)}

PanelInit ==
  /\ Init
  /\ tree # Merging
  /\ config # Invalid => config.refresh /\ config.staging # "refused"

PanelAtRest ==
  /\ tree = Crowded /\ area = [width |-> 120, height |-> 18] /\ config = Invalid
  /\ Init

ConfirmationAtRest ==
  /\ rules = DefaultPolicy /\ checkedOut = NoBranch /\ queued = NoPlan

\* Policies that raise the requirement of one risk, and protect a branch.
Guards == {DefaultPolicy, [DefaultPolicy EXCEPT !.low = VisiblePlan],
           [DefaultPolicy EXCEPT !.medium = ExplicitConfirmation, !.protected = {"feature"}],
           [DefaultPolicy EXCEPT !.high = Blocked, !.disabled = {"Fetch"}]}

Step(kind) == [kind |-> kind, target |-> NoBranch]

InSequence ==
  {<<Step("Fetch"), Step("Branches")>>, <<Step("Commit"), Step("PushCurrentBranch")>>,
   <<Step("MergeContinue"), Step("PushCurrentBranch")>>, <<Step("Fetch"), Step("Rebase")>>,
   <<[kind |-> "Checkout", target |-> "main"], Step("Commit"), Step("PullRebase")>>}

MCInit ==
  \/ part = "panel" /\ PanelInit /\ PromptInit /\ ConfirmationAtRest
  \/ part = "prompt" /\ PanelAtRest /\ PromptInit /\ ConfirmationAtRest
  \/ part = "plan" /\ PanelAtRest /\ PromptInit /\ ConfirmationInit

MCNext ==
  /\ UNCHANGED part
  /\ \/ part = "panel" /\ Next /\ UNCHANGED <<promptVars, confirmationVars>>
     \/ part = "prompt" /\ PromptNext /\ UNCHANGED <<vars, confirmationVars>>
     \/ part = "plan" /\ ConfirmationNext /\ UNCHANGED <<vars, promptVars>>

MCSpec == MCInit /\ [][MCNext]_<<vars, promptVars, confirmationVars, part>>

=============================================================================
