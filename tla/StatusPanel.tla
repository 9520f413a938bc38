------------------------------ MODULE StatusPanel ------------------------------
(***************************************************************************)
(* The screen of the session: the event loop that draws, reloads the       *)
(* policy and handles one event at a time, the panel that has the focus,   *)
(* and the list of changed files with its selection and its scrolling      *)
(* (crates/bitbygit-tui/src/lib.rs, run and App), read from the porcelain  *)
(* output of Git (crates/bitbygit-git/src/lib.rs, parse_status_bytes).     *)
(*                                                                         *)
(* Other clients change the worktree, the user resizes the terminal and    *)
(* edits the configuration between any two steps, so that the list, the    *)
(* rectangles and the policy a key is handled with may be out of date.     *)
(*                                                                         *)
(* Left out of the worktrees are copies (Git finds them if status.renames  *)
(* says so), ignored paths (the program does not ask for them) and renames *)
(* that only git add --intent-to-add has recorded (.R).                    *)
(***************************************************************************)
EXTENDS Naturals, Sequences, FiniteSets, SequencesExt

CONSTANTS
  Nil,
  PathOrder,   \* the paths, in the order Git and the panel sort them
  Blobs,       \* file contents
  Bare,        \* the record a parser sees in the bare name of a path
  Trees,       \* the states other clients leave the worktree in
  Areas,       \* the sizes of the terminal
  Columns,     \* the columns that each path takes
  BranchLine,  \* the columns of the line that names the branch and its upstream
  Configs,     \* the policies the configuration file may hold
  Invalid,     \* a configuration that cannot be read
  MaxChanges   \* bound: how often the worktree, the terminal or the file change

Paths == Range(PathOrder)
Unmerged == "unmerged"

Entries(contents) == [Paths -> contents]
WorkTrees == [head : Entries(Blobs \cup {Nil}), index : Entries(Blobs \cup {Nil, Unmerged}),
              work : Entries(Blobs \cup {Nil}), operation : {Nil, "merge", "rebase"}]

ASSUME PanelAssumption ==
  /\ PathOrder \in Seq(Paths) /\ IsInjective(PathOrder)
  /\ IsInjective(Bare) /\ DOMAIN Bare = Paths
  /\ Unmerged \notin Blobs \cup {Nil}
  /\ Nil \notin Paths \cup [tag : {"2"}, xy : {"R"} \X {".", "A", "D", "M"}, path : Paths]
  /\ Trees \subseteq WorkTrees
  /\ Areas \subseteq [width : Nat, height : Nat]
  /\ Columns \in [Paths -> Nat] /\ BranchLine \in Nat
  /\ Configs \subseteq [refresh : BOOLEAN, diff : BOOLEAN, staging : {"run", "confirm", "refused"}]
  /\ Invalid \notin Configs
  /\ MaxChanges \in Nat

VARIABLES
  tree,        \* the worktree, its index and HEAD
  area,        \* the size of the terminal
  config,      \* what the configuration file holds
  pc,          \* the event loop: "draw", "reload" or "event"
  policy,      \* the policy in force
  diagnostic,  \* the configuration could not be read
  focus,
  viewport,    \* the rectangles of the last draw
  files,       \* the rows of the status panel
  operation,   \* repository_operation
  selected, scroll,
  details,     \* the row whose diff the details panel shows, or Nil
  pending,     \* the queued operation, or Nil
  done,        \* history: the last operation carried out, or Nil
  seen,        \* history: the worktree Git reported last, or Nil
  changes      \* how often the worktree, the terminal or the file have changed

surroundings == <<tree, area, config, changes>>
panel == <<files, operation, selected, scroll>>
vars == <<surroundings, pc, policy, diagnostic, focus, viewport, panel, details, pending, done, seen>>

-----------------------------------------------------------------------------
(***************************************************************************)
(* git status --porcelain=v2 -z: the record of a rename is followed by the *)
(* bare name the path had.  One new path with the content of one deleted   *)
(* path is a rename.                                                       *)
(***************************************************************************)
Record(tag, xy, path) == [tag |-> tag, xy |-> xy, path |-> path]

IsNew(t, p) == t.head[p] = Nil /\ t.index[p] \notin {Nil, Unmerged}
IsMove(t, q, p) == IsNew(t, p) /\ t.head[q] # Nil /\ t.index[q] = Nil /\ t.head[q] = t.index[p]
Moves(t) ==
  {m \in Paths \X Paths :
     /\ IsMove(t, m[1], m[2])
     /\ \A n \in Paths : /\ IsMove(t, m[1], n) => n = m[2]
                         /\ IsMove(t, n, m[2]) => n = m[1]}

Change(old, new) ==
  IF old = new THEN "." ELSE IF old = Nil THEN "A" ELSE IF new = Nil THEN "D" ELSE "M"

TrackedRecords(t, p) ==
  LET worktree == IF t.index[p] = Nil THEN "." ELSE Change(t.index[p], t.work[p])
      letters  == <<Change(t.head[p], t.index[p]), worktree>>
      origins  == {q \in Paths : <<q, p>> \in Moves(t)}
  IN IF t.index[p] = Unmerged THEN <<Record("u", <<"U", "U">>, p)>>
     ELSE IF origins # {}
     THEN <<Record("2", <<"R", worktree>>, p), Bare[CHOOSE q \in origins : TRUE]>>
     ELSE IF (\E n \in Paths : <<p, n>> \in Moves(t)) \/ letters = <<".", ".">> THEN <<>>
     ELSE <<Record("1", letters, p)>>

UntrackedRecords(t, p) ==
  IF t.index[p] = Nil /\ t.work[p] # Nil THEN <<Record("?", <<>>, p)>> ELSE <<>>

OfEachPath(Records(_)) == FlattenSeq([i \in DOMAIN PathOrder |-> Records(PathOrder[i])])

Porcelain(t) ==
  <<Record("#", <<>>, Nil)>>
  \o OfEachPath(LAMBDA p : TrackedRecords(t, p))
  \o OfEachPath(LAMBDA p : UntrackedRecords(t, p))

-----------------------------------------------------------------------------
(***************************************************************************)
(* parse_status_bytes.                                                     *)
(***************************************************************************)
Entry(type, xy, path, original) ==
  [type |-> type, index |-> xy[1], worktree |-> xy[2], path |-> path, original |-> original]

Nothing == [entries |-> {}, renamed |-> Nil, failed |-> FALSE]

With(parsed, entry) ==
  [entries |-> parsed.entries \cup {entry}, renamed |-> Nil, failed |-> parsed.failed]

NameOf(record) == CHOOSE p \in Paths : Bare[p] = record

UntrackedEntry(r) == Entry("Untracked", <<".", "?">>, r.path, Nil)
OrdinaryEntry(r)  == Entry("Ordinary", r.xy, r.path, Nil)
ConflictEntry(r)  == Entry("Conflict", <<"U", "U">>, r.path, Nil)
RenamedEntry(r, original) ==
  Entry(IF "C" \in {r.xy[1], r.xy[2]} THEN "Copied" ELSE "Renamed", r.xy, r.path, original)

\* Faulty variant: the old name of a rename is read as a record.
ParseRecordByRecord(parsed, r) ==
  CASE r.tag = "?" -> With(parsed, UntrackedEntry(r))
    [] r.tag = "1" -> With(parsed, OrdinaryEntry(r))
    [] r.tag = "u" -> With(parsed, ConflictEntry(r))
    [] r.tag = "2" -> With(parsed, RenamedEntry(r, r.path))
    [] OTHER       -> parsed

ParseRecord(parsed, r) ==
  CASE parsed.failed -> parsed
    [] ~parsed.failed /\ parsed.renamed # Nil ->
         With(parsed, RenamedEntry(parsed.renamed, NameOf(r)))
    [] OTHER ->
         CASE r.tag = "#" -> parsed
           [] r.tag = "?" -> With(parsed, UntrackedEntry(r))
           [] r.tag = "1" -> With(parsed, OrdinaryEntry(r))
           [] r.tag = "u" -> With(parsed, ConflictEntry(r))
           [] r.tag = "2" -> [parsed EXCEPT !.renamed = r]
           [] OTHER       -> [parsed EXCEPT !.failed = TRUE]

ParseStatus(records) ==
  LET parsed[i \in 0..Len(records)] ==
        IF i = 0 THEN Nothing ELSE ParseRecord(parsed[i - 1], records[i])
  IN parsed[Len(records)]

IsStatus(parsed) == ~parsed.failed /\ parsed.renamed = Nil

-----------------------------------------------------------------------------
(***************************************************************************)
(* FileRow: one row for a conflict or an untracked path, and one for each  *)
(* side on which another path has changed.                                 *)
(***************************************************************************)
Sections == <<"Conflict", "Staged", "Unstaged", "Untracked">>

\* The label of a row names the path and the one it had, the pathspecs are
\* what Git is given.
Row(section, path, original, specs) ==
  [section |-> section, path |-> path, original |-> original, specs |-> specs]

\* Faulty variant: the old name of a rename is left to itself.
PathspecsOfPath(entry, section) == {entry.path}

\* pathspecs_for_entry
Pathspecs(entry, section) ==
  IF entry.type = "Renamed" /\ section = "Staged"
  THEN {entry.original, entry.path} ELSE {entry.path}

SectionsOf(entry) ==
  CASE entry.type = "Conflict"  -> {"Conflict"}
    [] entry.type = "Untracked" -> {"Untracked"}
    [] OTHER -> {s \in {"Staged"} : entry.index # "."} \cup {s \in {"Unstaged"} : entry.worktree # "."}

RowsOf(entry) ==
  {Row(s, entry.path, entry.original, Pathspecs(entry, s)) : s \in SectionsOf(entry)}

Position(seq, e) == CHOOSE i \in DOMAIN seq : seq[i] = e

\* Sorted by section, then by path.
FileRows(entries) ==
  LET rows == UNION {RowsOf(e) : e \in entries}
      At(section, p) == SetToSeq({r \in rows : r.section = section /\ r.path = p})
  IN FlattenSeq([i \in DOMAIN Sections |-> OfEachPath(LAMBDA p : At(Sections[i], p))])

CanStage(row)   == row.section \in {"Unstaged", "Untracked", "Conflict"}
CanUnstage(row) == row.section = "Staged"

-----------------------------------------------------------------------------
(***************************************************************************)
(* Layout and scrolling.                                                   *)
(***************************************************************************)
Minus(a, b) == IF a > b THEN a - b ELSE 0

\* A percentage of the terminal, to the nearest cell.
Share(percent, n) == (percent * n + 50) \div 100

\* The rectangle of the status panel with the width inside its border, and that
\* of the queue.
Rectangles(status, columns, queue) ==
  [status |-> status, width |-> Minus(columns, 2), queue |-> queue]

\* Viewport::split.  A small terminal has no queue panel, and where its panels
\* do not fit the layout solver takes something from any of them.
Split(a) ==
  IF a.width < 50 \/ a.height < 18
  THEN LET heights == IF Share(70, a.height) + 6 <= a.height
                      THEN {Share(70, a.height) - Share(35, a.height)}
                      ELSE 0..(Share(35, a.height) + 1)
       IN {Rectangles(h, a.width, 0) : h \in heights}
  ELSE {Rectangles(a.height - 10, Share(58, a.width) - Share(24, a.width), 7)}

\* status_file_visible_len
VisibleLen(height, active) ==
  Minus(IF height > 2 THEN height - 2 ELSE 1, IF active = Nil THEN 1 ELSE 2)

\* clamp_file_scroll_for
Clamped(at, row, height, active) ==
  LET visible == VisibleLen(height, active)
  IN CASE visible = 0 -> row
       [] visible > 0 /\ row < at -> row
       [] visible > 0 /\ row >= at + visible -> Minus(row, visible - 1)
       [] OTHER -> at

\* What status_panel writes above the selected row: the columns of each line.
Banner == IF operation = Nil THEN <<>> ELSE <<IF operation = "merge" THEN 17 ELSE 18>>

LabelColumns(row) ==
  5 + Columns[row.path] + (IF row.original = Nil THEN 0 ELSE 4 + Columns[row.original])

LinesAbove ==
  <<BranchLine>> \o Banner \o [i \in 1..(selected - scroll) |-> LabelColumns(files[scroll + i])]

\* A line that does not fit is wrapped, into at least so many lines.
Wrapped(columns) ==
  IF columns <= viewport.width THEN 1 ELSE (columns + viewport.width - 1) \div viewport.width

Continuations == UNION {{i} \X (2..Wrapped(LinesAbove[i])) : i \in DOMAIN LinesAbove}

\* The selected row is among those written, on a line inside the border.
OnScreen ==
  /\ scroll <= selected /\ selected < scroll + VisibleLen(viewport.status, operation)
  /\ Len(LinesAbove) + Cardinality(Continuations) < Minus(viewport.status, 2)

VisibleFocus == <<"Repos", "Status", "Details">>
                \o (IF viewport.queue > 0 THEN <<"Queue">> ELSE <<>>) \o <<"Prompt">>

\* cycle_focus; a focus that is not on the screen goes back to the first.
NextFocus(offset) ==
  LET n == Len(VisibleFocus)
  IN IF focus \notin Range(VisibleFocus) THEN VisibleFocus[1]
     ELSE VisibleFocus[((Position(VisibleFocus, focus) - 1 + n + offset) % n) + 1]

-----------------------------------------------------------------------------
(***************************************************************************)
(* refresh_status and refresh_diff.                                        *)
(***************************************************************************)
\* With the policy p and the worktree t; Git itself may fail.
ShowStatus(t, parsed) ==
  LET rows == FileRows(parsed.entries)
      row  == IF selected >= Len(rows) THEN Minus(Len(rows), 1) ELSE selected
  IN /\ files' = rows
     /\ operation' = t.operation
     /\ selected' = row
     /\ scroll' = Clamped(scroll, row, viewport.status, t.operation)

ShowNoStatus == files' = <<>> /\ operation' = Nil /\ selected' = 0 /\ UNCHANGED scroll

RefreshStatus(p, t) ==
  \/ ~p.refresh /\ UNCHANGED <<panel, seen>>
  \/ p.refresh /\ ShowNoStatus /\ seen' = Nil
  \/ /\ p.refresh
     /\ LET parsed == ParseStatus(Porcelain(t))
        IN IF IsStatus(parsed) THEN ShowStatus(t, parsed) ELSE ShowNoStatus
     /\ seen' = t

\* The row whose diff the details panel shows, unless it shows a message.
Diff(p, rows, row) == IF p.diff /\ row < Len(rows) THEN rows[row + 1] ELSE Nil

RefreshDiff(p) == details' = IF p.refresh THEN Diff(p, files', selected') ELSE Nil

-----------------------------------------------------------------------------
(***************************************************************************)
(* The event loop.                                                         *)
(***************************************************************************)
\* Faulty variant: the panel is drawn as it was scrolled for the last one.
DrawUnclamped ==
  /\ pc = "draw" /\ pc' = "reload"
  /\ viewport' \in Split(area)
  /\ focus' = IF focus = "Queue" /\ viewport'.queue = 0 THEN "Prompt" ELSE focus
  /\ UNCHANGED <<surroundings, policy, diagnostic, panel, details, pending, seen>>
  /\ done' = Nil

Draw ==
  /\ pc = "draw" /\ pc' = "reload"
  /\ viewport' \in Split(area)
  /\ focus' = IF focus = "Queue" /\ viewport'.queue = 0 THEN "Prompt" ELSE focus
  /\ scroll' = Clamped(scroll, selected, viewport'.status, operation)
  /\ UNCHANGED <<surroundings, policy, diagnostic, files, operation, selected, details, pending,
                 seen>>
  /\ done' = Nil

\* AppConfig::safe_fallback
FallbackPolicy == [refresh |-> FALSE, diff |-> FALSE, staging |-> "refused"]

StartupPolicy == IF config = Invalid THEN FallbackPolicy ELSE config

\* The policy and the diagnostic after reload_policy.
Reloaded == IF config = Invalid THEN policy ELSE config

ReloadPolicy ==
  /\ policy' = Reloaded
  /\ diagnostic' = (config = Invalid)

\* After an event, and every second without one.
Reload ==
  /\ pc = "reload" /\ pc' \in {"draw", "event"}
  /\ ReloadPolicy
  /\ IF diagnostic /\ config # Invalid
     THEN RefreshStatus(Reloaded, tree) /\ RefreshDiff(Reloaded)
     ELSE UNCHANGED <<panel, details, seen>>
  /\ UNCHANGED <<surroundings, focus, viewport, pending, done>>

Key == pc = "event" /\ pc' = "draw" /\ UNCHANGED <<surroundings, viewport>>
NoOperation == UNCHANGED <<policy, diagnostic, seen, done>>

\* Tab and BackTab, and a click into a panel.
MoveFocus ==
  /\ pending = Nil
  /\ \/ \E offset \in {0 - 1, 1} : focus' = NextFocus(offset)
     \/ focus' \in Range(VisibleFocus)
  /\ UNCHANGED <<panel, details, pending>>
  /\ NoOperation
  /\ Key

\* Faulty variant: the details are left as they are.
SelectQuietly(row) ==
  /\ selected' = row
  /\ scroll' = Clamped(scroll, row, viewport.status, operation)
  /\ UNCHANGED details

Select(row) ==
  /\ selected' = row
  /\ scroll' = Clamped(scroll, row, viewport.status, operation)
  /\ details' = Diff(policy, files, row)

\* Up and Down in the status panel.
MoveSelection ==
  /\ pending = Nil
  /\ focus = "Status"
  /\ \/ selected > 0 /\ Select(selected - 1)
     \/ selected + 1 < Len(files) /\ Select(selected + 1)
  /\ UNCHANGED <<files, operation, focus, pending>>
  /\ NoOperation
  /\ Key

\* What git add and git restore --staged make of the worktree they find.
Known(t, specs, sides) == \A p \in specs : \E side \in sides : side[p] # Nil

Staged(t, specs) ==
  IF Known(t, specs, {t.index, t.work})
  THEN [t EXCEPT !.index = [p \in Paths |-> IF p \in specs THEN t.work[p] ELSE @[p]]] ELSE t

Unstaged(t, specs) ==
  IF Known(t, specs, {t.index, t.head})
  THEN [t EXCEPT !.index = [p \in Paths |-> IF p \in specs THEN t.head[p] ELSE @[p]]] ELSE t

\* s, u, a and A: the selected row, or everything.
Everything == Row(Nil, Nil, Nil, Paths)

After(t, how, row) ==
  IF row = Everything THEN [t EXCEPT !.index = IF how = "stage" THEN t.work ELSE t.head]
  ELSE IF how = "stage" THEN Staged(t, row.specs)
  ELSE Unstaged(t, row.specs)

\* The executor carries it out, or its policy, its checks or Git refuse it.
CarryOut(how, row) ==
  \/ LET after == After(tree, how, row)
     IN /\ changes < MaxChanges
        /\ changes' = changes + 1
        /\ tree' = after
        /\ done' = [how |-> how, row |-> row, before |-> tree, after |-> after]
  \/ done' = Nil /\ UNCHANGED <<tree, changes>>

\* execute_operation: the effect, the reload and the refresh, then the message.
Execute(how, row) ==
  /\ CarryOut(how, row)
  /\ ReloadPolicy
  /\ RefreshStatus(Reloaded, tree')
  /\ details' = Nil
  /\ pending' = Nil
  /\ UNCHANGED <<area, config, focus>>

OperationKey == pc = "event" /\ pc' = "draw" /\ UNCHANGED viewport

Quietly ==
  /\ UNCHANGED <<surroundings, panel, focus>>
  /\ NoOperation

Answer == details' = Nil /\ Quietly

\* submit_operation: carried out at once, or queued to be confirmed.
Submit(how, row) ==
  \/ policy.staging = "run" /\ Execute(how, row)
  \/ policy.staging = "confirm" /\ pending' = [how |-> how, row |-> row] /\ Answer
  \/ policy.staging = "refused" /\ UNCHANGED pending /\ Answer

\* A row that cannot be staged or unstaged is answered with a message.
StageOrUnstage ==
  /\ pending = Nil
  /\ focus = "Status"
  /\ \E how \in {"stage", "unstage"} :
       \/ Submit(how, Everything)
       \/ /\ selected < Len(files)
          /\ LET row == files[selected + 1]
             IN IF IF how = "stage" THEN CanStage(row) ELSE CanUnstage(row)
                THEN Submit(how, row)
                ELSE UNCHANGED pending /\ Answer
  /\ OperationKey

Confirm ==
  /\ pending # Nil
  /\ Execute(pending.how, pending.row)
  /\ OperationKey

\* Any other key, or a click.
Cancel ==
  /\ pending # Nil
  /\ pending' = Nil
  /\ Answer
  /\ OperationKey

-----------------------------------------------------------------------------
(***************************************************************************)
(* The surroundings.                                                       *)
(***************************************************************************)
Surroundings ==
  /\ changes < MaxChanges
  /\ changes' = changes + 1
  /\ UNCHANGED <<pc, policy, diagnostic, focus, viewport, panel, details, pending, done, seen>>

OtherClient == tree' \in Trees /\ UNCHANGED <<area, config>> /\ Surroundings
Resize      == area' \in Areas /\ UNCHANGED <<tree, config>> /\ Surroundings
EditConfig  == config' \in Configs \cup {Invalid} /\ UNCHANGED <<tree, area>> /\ Surroundings

\* App::from_startup reads the status once.
Init ==
  /\ tree \in Trees
  /\ area \in Areas
  /\ config \in Configs \cup {Invalid}
  /\ pc = "draw"
  /\ policy = StartupPolicy
  /\ diagnostic = (config = Invalid)
  /\ focus = "Repos"
  /\ viewport = Rectangles(0, 0, 0)
  /\ files = IF StartupPolicy.refresh THEN FileRows(ParseStatus(Porcelain(tree)).entries) ELSE <<>>
  /\ operation = IF StartupPolicy.refresh THEN tree.operation ELSE Nil
  /\ selected = 0
  /\ scroll = 0
  /\ details = IF StartupPolicy.refresh THEN Diff(StartupPolicy, files, 0) ELSE Nil
  /\ pending = Nil
  /\ done = Nil
  /\ seen = IF StartupPolicy.refresh THEN tree ELSE Nil
  /\ changes = 0

Next ==
  \/ Draw \/ Reload
  \/ MoveFocus \/ MoveSelection \/ StageOrUnstage \/ Confirm \/ Cancel
  \/ OtherClient \/ Resize \/ EditConfig

Spec == Init /\ [][Next]_vars

-----------------------------------------------------------------------------
(***************************************************************************)
(* Properties.                                                             *)
(***************************************************************************)

\* A row is selected and the panel has room for rows.
RowsAreDrawn ==
  pc = "reload" /\ selected < Len(files) /\ VisibleLen(viewport.status, operation) > 0

\* Once the screen is drawn, whatever has been resized, refreshed or begun in
\* between, the selected row, on which the next key acts, is on the screen,
\* provided that each line above it fits into the width of the panel.
SelectionIsVisible ==
  RowsAreDrawn /\ (\A i \in DOMAIN LinesAbove : LinesAbove[i] <= viewport.width) => OnScreen

\* The same of any screen, also of one with a line that is wrapped: "status
\* window follows selected file", as the test of that name has it.
SelectionIsOnScreen == RowsAreDrawn => OnScreen

\* A diff shown beside the list is that of the selected row: no key, reload or
\* refresh leaves the diff of another file next to what s and u act on.
DiffIsOfTheSelection ==
  details # Nil => selected < Len(files) /\ details = files[selected + 1]

Listed(section, p) ==
  \E i \in DOMAIN files : files[i].section = section /\ p \in files[i].specs

\* The list names every path on every side on which Git has reported a change,
\* a path that was renamed away included, and nothing else, even if the old
\* name of a rename reads like a record of its own.
ListsWhatGitReported ==
  seen # Nil =>
    \A p \in Paths :
      LET conflict == seen.index[p] = Unmerged
      IN /\ Listed("Conflict", p) <=> conflict
         /\ Listed("Staged", p) <=> ~conflict /\ seen.index[p] # seen.head[p]
         /\ Listed("Unstaged", p) <=>
              ~conflict /\ seen.index[p] # Nil /\ seen.work[p] # seen.index[p]
         /\ Listed("Untracked", p) <=> seen.index[p] = Nil /\ seen.work[p] # Nil

\* Staging or unstaging a row that was up to date leaves none of it behind: a
\* rename that is unstaged is not left half staged.
ActsOnTheWholeRow ==
  done # Nil /\ done.row \in Range(FileRows(ParseStatus(Porcelain(done.before)).entries)) =>
    LET touched == {done.row.path} \cup {m[1] : m \in {m \in Moves(done.before) :
                                           m[2] = done.row.path /\ done.row.section = "Staged"}}
    IN \A p \in touched :
         done.after.index[p] = IF done.how = "stage" THEN done.after.work[p]
                               ELSE done.after.head[p]

=============================================================================
