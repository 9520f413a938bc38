--------------------------- MODULE Command_proofs ---------------------------
(***************************************************************************)
(* How a command of the user is understood, and how the one command is     *)
(* guarded that goes on with what another one has left.  What the recovery *)
(* of a merge or a rebase guarantees: its fence (RecoveryFence) for all    *)
(* sets of files and commands, whatever others write meanwhile, and its    *)
(* lock (RecoveryLock) for any number of sessions and files, whatever      *)
(* others do to the two paths.  And what the parser (PromptParser) makes   *)
(* of a prompt, for all tokens, prompts and requests: where it is cut, and *)
(* that each request, and each two requests joined by a connector, is      *)
(* understood when it is written as the documentation does.                *)
(***************************************************************************)
EXTENDS RecoveryFence, RecoveryLock, PromptParser, SequenceTheorems, FiniteSetTheorems,
        WellFoundedInduction, TLAPS

-----------------------------------------------------------------------------
(***************************************************************************)
(* The fence: types.                                                       *)
(***************************************************************************)
After == {"final pass", "fingerprinted", "confirm"}

\* The history is kept from the beginning of the final validation on.
LEMMA ObserveAfter ==
  ASSUME Observe, pc' \in After
  PROVE  /\ since.together
              \/ (\A f \in Files : Reference'[f] # Absent => AsReferred(f)) => since'.together
         /\ since.index \/ (AllElseChecked /\ AsReferred(Index)) => since'.index
         /\ since.each \subseteq since'.each
         /\ \A i \in Inputs : AsReferred(i) => i \in since'.each
<1>1. since' = [together |-> since.together \/
                               \A f \in Files : Reference'[f] # Absent => AsReferred(f),
                index    |-> since.index \/ (AllElseChecked /\ AsReferred(Index)),
                each     |-> since.each \cup {i \in Inputs : AsReferred(i)}]
  BY DEF Observe, After
<1> HIDE DEF Observe
<1>2. /\ since'.together =
           (since.together \/ \A f \in Files : Reference'[f] # Absent => AsReferred(f))
      /\ since'.index = (since.index \/ (AllElseChecked /\ AsReferred(Index)))
      /\ since'.each = since.each \cup {i \in Inputs : AsReferred(i)}
  BY <1>1, Zenon
<1>3. QED
  BY <1>2

\* The history is a record of its type.
LEMMA ObserveType ==
  ASSUME Observe, since \in Histories
  PROVE  since' \in Histories
<1>1. Nothing \in Histories
  BY DEF Nothing, Histories
<1>2. ASSUME NEW a, NEW b, NEW c \in SUBSET Inputs, a \in BOOLEAN, b \in BOOLEAN
      PROVE  [together |-> a, index |-> b, each |-> c] \in Histories
  BY <1>2 DEF Histories
<1>3. /\ (since.together \/ \A f \in Files : Reference'[f] # Absent => AsReferred(f)) \in BOOLEAN
      /\ (since.index \/ (AllElseChecked /\ AsReferred(Index))) \in BOOLEAN
      /\ since.each \cup {i \in Inputs : AsReferred(i)} \in SUBSET Inputs
  BY DEF Histories
<1>4. QED
  BY <1>1, <1>2, <1>3, Zenon DEF Observe

-----------------------------------------------------------------------------
(***************************************************************************)
(* Types, and when everything has been read.                               *)
(***************************************************************************)
ReadAll ==
  pc \in Passes \cup {"hook", "fingerprinted"} => \A i \in Inputs : seen[i] # Nil

TypeInv == TypeOK /\ ReadAll

\* The initial states are typed.
LEMMA InitType == Init => TypeInv
<1>1. Unread \in [Inputs -> Values \cup {Nil}] /\ Nothing \in Histories
  BY DEF Unread, Nothing, Histories
<1>2. QED
  BY <1>1 DEF Init, TypeInv, TypeOK, ReadAll, Passes, Bounded

\* A fingerprint in which everything has been read is one to compare with.
LEMMA FullIsNotUnread ==
  ASSUME NEW full, \A i \in Inputs : full[i] # Nil
  PROVE  full # Unread
  BY FenceAssumption DEF Unread, Inputs

\* Every step keeps the types.
LEMMA TypeStep == TypeInv /\ [Next]_vars => TypeInv'
<1> SUFFICES ASSUME TypeInv, [Next]_vars PROVE TypeInv'
  OBVIOUS
<1> USE FenceAssumption DEF TypeInv, TypeOK, ReadAll, Passes, Bounded
<1>0. Unread \in [Inputs -> Values \cup {Nil}]
  BY DEF Unread
<1>1. CASE Preview
  BY <1>0, <1>1, ObserveType DEF Preview, Begin
<1>2. CASE Confirm
  BY <1>0, <1>2, ObserveType DEF Confirm, Begin
<1>3. ASSUME NEW i \in Inputs, Read(i) PROVE TypeInv'
  <2>1. seen' \in [Inputs -> Values \cup {Nil}] /\ content[i] \in Values
    BY <1>3 DEF Read
  <2>2. same' \subseteq Files
    BY <1>3 DEF Read
  <2>3. pc' = IF \E j \in Inputs : seen'[j] = Nil THEN "read" ELSE "first pass"
    BY <1>3 DEF Read
  <2>4. QED
    BY <1>3, <2>1, <2>2, <2>3, ObserveType DEF Read
<1>4. ASSUME NEW i \in Inputs, Check(i) PROVE TypeInv'
  BY <1>4, ObserveType DEF Check
<1>5. CASE Hook
  BY <1>5, ObserveType DEF Hook
<1>6. CASE Show
  BY <1>6, ObserveType, FullIsNotUnread DEF Show
<1>7. CASE Spawn
  <2>1. effect' \subseteq Histories
    BY <1>7 DEF Spawn
  <2>2. QED
    BY <1>7, <2>1, ObserveType DEF Spawn
<1>8. ASSUME NEW result \in Outcomes, End(result)
      PROVE  TypeInv'
  BY <1>0, <1>8, ObserveType DEF End, Outcomes
<1>9. CASE GitEnds \/ TimeOut \/ Refuse
  BY <1>8, <1>9 DEF GitEnds, TimeOut, Refuse, Outcomes
<1>10. CASE Tick
  BY <1>10, ObserveType DEF Tick
<1>11. CASE Write
  <2>1. content' \in [Inputs -> Values] /\ same' \subseteq Files
    BY <1>11 DEF Write
  <2>2. QED
    BY <1>11, <2>1, ObserveType DEF Write
<1>12. CASE UNCHANGED vars
  BY <1>12 DEF vars
<1>13. QED
  BY <1>1, <1>2, <1>3, <1>4, <1>5, <1>6, <1>7, <1>9, <1>10, <1>11, <1>12 DEF Next

\* Type correctness, of every reachable state.
THEOREM TypeCorrect == Spec => []TypeOK
<1>1. Spec => []TypeInv
  BY InitType, TypeStep, PTL DEF Spec
<1>2. QED
  BY <1>1, PTL DEF TypeInv

-----------------------------------------------------------------------------
(***************************************************************************)
(* A refusal starts nothing.                                               *)
(***************************************************************************)
NotStarted ==
  /\ pc \in Bounded \cup {"confirm"} => effect = {} /\ outcome = Nil
  /\ RefusalChangesNothing

\* An execution that reports a refusal or a timeout has not started Git.
THEOREM NothingStarted == Spec => []RefusalChangesNothing
<1> USE DEF NotStarted, RefusalChangesNothing, Passes, Bounded
<1>1. Init => NotStarted
  BY DEF Init
<1>2. ASSUME TypeOK, NotStarted, [Next]_vars PROVE NotStarted'
  <2>1. CASE Preview \/ Confirm
    BY <1>2, <2>1 DEF Preview, Confirm, Begin
  <2>2. ASSUME NEW i \in Inputs, Read(i) \/ Check(i) PROVE NotStarted'
    BY <1>2, <2>2 DEF Read, Check
  <2>3. CASE Hook \/ Show
    BY <1>2, <2>3 DEF Hook, Show
  <2>4. CASE Spawn
    BY <1>2, <2>4, FenceAssumption DEF Spawn, Outcomes
  <2>5. CASE GitEnds
    BY <1>2, <2>5 DEF GitEnds, End
  <2>6. CASE TimeOut \/ Refuse
    BY <1>2, <2>6 DEF TimeOut, Refuse, End
  <2>7. CASE Tick \/ Write
    BY <1>2, <2>7 DEF Tick, Write
  <2>8. CASE UNCHANGED vars
    BY <1>2, <2>8 DEF vars
  <2>9. QED
    BY <1>2, <2>1, <2>2, <2>3, <2>4, <2>5, <2>6, <2>7, <2>8 DEF Next
<1>3. QED
  BY <1>1, <1>2, TypeCorrect, PTL DEF Spec

-----------------------------------------------------------------------------
(***************************************************************************)
(* The invariant.  An existing file counts as unwritten only while it is   *)
(* as it was read, and does not become unwritten again.  So when the final *)
(* validation begins, either all existing files are as read, or one of     *)
(* them will not pass; and the index is validated last.                    *)
(***************************************************************************)
SameIsSeen ==
  \A f \in same : content[f] = seen[f] /\ seen[f] # Absent /\ seen[f] # Nil

InOrderSoFar ==
  /\ pc \in {"read", "hook"} => checked = {}
  /\ pc \in Passes => Index \notin checked

WillFail == \E f \in Files \ checked : seen[f] # Absent /\ f \notin same

FinalPass ==
  pc = "final pass" /\ Reference = seen =>
    /\ since.together \/ WillFail
    /\ checked \subseteq since.each

Validated == since.together /\ since.index /\ since.each = Inputs

Fingerprinted == pc = "fingerprinted" /\ Reference = seen => Validated

Effects ==
  \A e \in effect : e.together /\ e.index /\ e.each = Inputs

FenceInv ==
  /\ SameIsSeen
  /\ InOrderSoFar
  /\ FinalPass
  /\ Fingerprinted
  /\ PreviewIsSnapshot
  /\ Effects

\* The invariant holds at the start.
LEMMA InitFenceInv == Init => FenceInv
  BY DEF Init, FenceInv, SameIsSeen, InOrderSoFar, FinalPass, Fingerprinted, PreviewIsSnapshot,
         Effects, Passes

\* The final validation begins with all existing files as read or with one that
\* will not pass.
LEMMA HookStep == TypeInv /\ FenceInv /\ Hook => FenceInv'
<1> SUFFICES ASSUME TypeInv, FenceInv, Hook PROVE FenceInv'
  OBVIOUS
<1>1. /\ pc' = "final pass" /\ checked = {}
      /\ UNCHANGED <<content, same, plan, seen, checked, effect>> /\ Observe
  BY DEF Hook, FenceInv, InOrderSoFar
<1>2. SameIsSeen' /\ InOrderSoFar' /\ Effects' /\ Fingerprinted' /\ PreviewIsSnapshot'
  BY <1>1 DEF FenceInv, SameIsSeen, InOrderSoFar, Effects, Fingerprinted, PreviewIsSnapshot
<1>3. ASSUME Reference' = seen', ~WillFail' PROVE since'.together
  <2>1. \A f \in Files : seen[f] # Absent => content[f] = seen[f]
    BY <1>1, <1>3 DEF WillFail, FenceInv, SameIsSeen
  <2>2. QED
    BY <1>1, <1>3, <2>1, ObserveAfter DEF After, AsReferred
<1>4. FinalPass'
  BY <1>1, <1>3 DEF FinalPass
<1>5. QED
  BY <1>2, <1>4 DEF FenceInv

\* What passes the final validation gives what has been read.
LEMMA CheckStep ==
  ASSUME TypeInv, FenceInv, NEW i \in Inputs, Check(i)
  PROVE  FenceInv'
<1> USE DEF Passes
<1>1. /\ pc \in Passes /\ i \notin checked /\ InOrder(i) /\ Unchanged(i)
      /\ IF checked \cup {i} = Inputs
         THEN pc' = (IF pc = "first pass" THEN "hook" ELSE "fingerprinted") /\ checked' = {}
         ELSE checked' = checked \cup {i} /\ UNCHANGED pc
      /\ UNCHANGED <<content, same, plan, seen, effect>> /\ Observe
  BY DEF Check
<1>2. /\ checked \subseteq Inputs /\ \A j \in Inputs : seen[j] # Nil
      /\ Index \in Files /\ Index \in Inputs
  BY <1>1, FenceAssumption DEF TypeInv, TypeOK, ReadAll, Inputs
<1>3. content[i] = seen[i]
  BY <1>1 DEF Unchanged, FenceInv, SameIsSeen
<1>4. checked \cup {i} = Inputs <=> i = Index
  <2>1. Index \notin checked
    BY <1>1 DEF FenceInv, InOrderSoFar
  <2>2. i = Index => Inputs \ {Index} \subseteq checked
    BY <1>1 DEF InOrder
  <2>3. QED
    BY <1>2, <2>1, <2>2
<1>5. SameIsSeen' /\ Effects' /\ InOrderSoFar'
  <2>1. SameIsSeen' /\ Effects'
    BY <1>1 DEF FenceInv, SameIsSeen, Effects
  <2>2. Index \notin checked'
    <3>1. Index \notin checked
      BY <1>1 DEF FenceInv, InOrderSoFar
    <3>2. i # Index => checked' = checked \cup {i}
      BY <1>1, <1>4, Zenon
    <3>3. i = Index => checked' = {}
      BY <1>1, <1>4, Zenon
    <3>4. QED
      BY <3>1, <3>2, <3>3
  <2>3. pc' \in {"read", "hook"} => checked' = {}
    BY <1>1
  <2>4. QED
    BY <2>1, <2>2, <2>3 DEF InOrderSoFar
<1>6. Reference' = Reference
  BY <1>1 DEF Reference
<1>7. CASE pc = "first pass"
  BY <1>1, <1>5, <1>7 DEF FenceInv, FinalPass, Fingerprinted, PreviewIsSnapshot
<1>8. CASE pc = "final pass"
  <2>1. pc' \in After /\ pc' # "confirm"
    BY <1>1, <1>8 DEF After
  <2>2. /\ since.together => since'.together
        /\ since.each \subseteq since'.each
        /\ Reference = seen => i \in since'.each
    BY <1>1, <1>3, <1>6, <2>1, ObserveAfter DEF AsReferred
  <2>3. WillFail /\ checked' # {} => WillFail'
    BY <1>1 DEF WillFail, Unchanged
  <2>4. CASE i # Index
    <3>1. pc' = "final pass" /\ checked' = checked \cup {i}
      BY <1>1, <1>4, <1>8, <2>4
    <3>2. FinalPass'
      BY <1>1, <1>6, <1>8, <2>2, <2>3, <3>1 DEF FinalPass, FenceInv
    <3>3. QED
      BY <1>5, <3>1, <3>2 DEF FenceInv, Fingerprinted, PreviewIsSnapshot
  <2>5. CASE i = Index
    <3>1. pc' = "fingerprinted" /\ checked = Inputs \ {Index}
      BY <1>1, <1>4, <1>8, <2>5
    <3>2. ASSUME Reference = seen PROVE Validated'
      <4>1. ~WillFail
        BY <1>1, <3>1, <2>5, <1>2 DEF WillFail, Unchanged, Inputs
      <4>2. since'.together
        BY <3>2, <4>1, <1>8, <2>2 DEF FenceInv, FinalPass
      <4>3. since'.index
        BY <1>1, <1>3, <1>6, <2>1, <2>5, <3>1, <3>2, ObserveAfter
           DEF AllElseChecked, AsReferred
      <4>4. since'.each = Inputs
        <5>1. checked \subseteq since.each /\ since'.each \subseteq Inputs
          BY <1>1, <3>2, <1>8, ObserveType DEF FenceInv, FinalPass, TypeInv, TypeOK, Histories
        <5>2. QED
          BY <5>1, <2>2, <2>5, <3>1, <3>2, <1>2
      <4>5. QED
        BY <4>2, <4>3, <4>4 DEF Validated
    <3>3. Fingerprinted'
      BY <1>1, <1>6, <3>2 DEF Fingerprinted
    <3>4. QED
      BY <1>5, <3>1, <3>3 DEF FenceInv, FinalPass, PreviewIsSnapshot
  <2>6. QED
    BY <2>4, <2>5
<1>9. QED
  BY <1>1, <1>7, <1>8

\* A fingerprint that is shown or executed was validated; whatever is written
\* meanwhile only adds to the history.
LEMMA FenceStep == TypeInv /\ FenceInv /\ [Next]_vars => FenceInv'
<1> SUFFICES ASSUME TypeInv, FenceInv, [Next]_vars PROVE FenceInv'
  OBVIOUS
<1> USE DEF FenceInv, Passes
<1>1. CASE Preview \/ Confirm
  <2>1. pc' = "read" /\ same' = {} /\ checked' = {} /\ effect' \in {effect, {}}
    BY <1>1 DEF Preview, Confirm, Begin
  <2>2. QED
    BY <2>1 DEF SameIsSeen, InOrderSoFar, FinalPass, Fingerprinted, PreviewIsSnapshot, Effects
<1>2. ASSUME NEW i \in Inputs, Read(i) PROVE FenceInv'
  <2>1. /\ pc = "read" /\ pc' \in {"read", "first pass"}
        /\ seen[i] = Nil /\ seen' = [seen EXCEPT ![i] = content[i]]
        /\ same' = IF i \in Files /\ content[i] # Absent THEN same \cup {i} ELSE same
        /\ UNCHANGED <<content, plan, checked, effect>>
    BY <1>2 DEF Read
  <2>2. SameIsSeen'
    <3>1. content[i] # Nil /\ \A j \in Inputs : seen'[j] = IF j = i THEN content[i] ELSE seen[j]
      BY <2>1, FenceAssumption DEF TypeInv, TypeOK
    <3>2. same \subseteq Inputs
      BY DEF TypeInv, TypeOK, Inputs
    <3>3. QED
      BY <2>1, <3>1, <3>2 DEF SameIsSeen
  <2>3. InOrderSoFar'
    BY <2>1 DEF InOrderSoFar
  <2>4. QED
    BY <2>1, <2>2, <2>3 DEF FinalPass, Fingerprinted, PreviewIsSnapshot, Effects
<1>3. ASSUME NEW i \in Inputs, Check(i) PROVE FenceInv'
  BY <1>3, CheckStep
<1>4. CASE Hook
  BY <1>4, HookStep
<1>5. CASE Show
  <2>1. /\ pc = "fingerprinted" /\ pc' = "confirm" /\ plan = Unread /\ Observe
        /\ UNCHANGED <<content, same, seen, checked, effect>>
    BY <1>5 DEF Show
  <2>2. since.together
    BY <2>1 DEF Fingerprinted, Validated, Reference
  <2>3. since'.together
    BY <2>1, <2>2, ObserveAfter DEF After
  <2>4. QED
    BY <2>1, <2>3 DEF SameIsSeen, InOrderSoFar, FinalPass, Fingerprinted, PreviewIsSnapshot,
                      Effects
<1>6. CASE Spawn
  <2>1. /\ pc = "fingerprinted" /\ pc' = "running" /\ plan = seen /\ effect' = {since}
        /\ UNCHANGED <<content, same, seen, checked>>
    BY <1>6 DEF Spawn
  <2>2. Validated
    BY <2>1 DEF Fingerprinted, Reference
  <2>3. QED
    BY <2>1, <2>2 DEF SameIsSeen, InOrderSoFar, FinalPass, Fingerprinted, PreviewIsSnapshot,
                      Effects, Validated
<1>7. CASE GitEnds \/ TimeOut \/ Refuse
  <2>1. pc' = "idle" /\ UNCHANGED <<content, same, seen, checked, effect>>
    BY <1>7 DEF GitEnds, TimeOut, Refuse, End
  <2>2. QED
    BY <2>1 DEF SameIsSeen, InOrderSoFar, FinalPass, Fingerprinted, PreviewIsSnapshot, Effects
<1>8. CASE Tick \/ Write
  <2>1. /\ UNCHANGED <<pc, plan, seen, checked, effect>> /\ Observe
        /\ same' \subseteq same /\ \A f \in same' : content'[f] = content[f]
    <3>1. CASE Tick
      BY <3>1 DEF Tick
    <3>2. CASE Write
      <4>1. PICK i \in Inputs, v \in Values : /\ content' = [content EXCEPT ![i] = v]
                                             /\ same' = same \ {i}
        BY <3>2 DEF Write
      <4>2. QED
        BY <3>2, <4>1 DEF Write, TypeInv, TypeOK, Inputs
    <3>3. QED
      BY <1>8, <3>1, <3>2
  <2>2. SameIsSeen' /\ InOrderSoFar' /\ Effects'
    BY <2>1 DEF SameIsSeen, InOrderSoFar, Effects
  <2>3. Reference' = Reference
    BY <2>1 DEF Reference
  <2>4. pc \in After =>
          /\ since.together => since'.together
          /\ since.index => since'.index
          /\ since.each \subseteq since'.each /\ since'.each \subseteq Inputs
    BY <2>1, ObserveAfter, ObserveType DEF TypeInv, TypeOK, Histories
  <2>5. WillFail => WillFail'
    BY <2>1 DEF WillFail
  <2>6. FinalPass'
    BY <2>1, <2>3, <2>4, <2>5 DEF FinalPass, After
  <2>7. Fingerprinted' /\ PreviewIsSnapshot'
    BY <2>1, <2>3, <2>4 DEF Fingerprinted, PreviewIsSnapshot, Validated, After
  <2>8. QED
    BY <2>2, <2>6, <2>7
<1>9. CASE UNCHANGED vars
  BY <1>9 DEF vars, SameIsSeen, InOrderSoFar, FinalPass, Fingerprinted, PreviewIsSnapshot,
              Effects, WillFail, Validated, Reference
<1>10. QED
  BY <1>1, <1>2, <1>3, <1>4, <1>5, <1>6, <1>7, <1>8, <1>9 DEF Next

\* The invariant holds in every reachable state.
LEMMA FenceAlways == Spec => [](TypeInv /\ FenceInv)
  BY InitType, InitFenceInv, TypeStep, FenceStep, PTL DEF Spec

\* Although its inputs are read one after the other, what is previewed has
\* existed at one moment.
THEOREM PreviewExisted == Spec => []PreviewIsSnapshot
<1>1. TypeInv /\ FenceInv => PreviewIsSnapshot
  BY DEF FenceInv
<1>2. QED
  BY <1>1, FenceAlways, PTL

\* A recovery is started only after a moment at which all existing files were as
\* previewed, every other input has been as previewed since, and the index last.
THEOREM ConfirmedStateRecovered == Spec => []RecoversConfirmedState
<1>1. TypeInv /\ FenceInv => RecoversConfirmedState
  BY DEF FenceInv, Effects, RecoversConfirmedState
<1>2. QED
  BY <1>1, FenceAlways, PTL

-----------------------------------------------------------------------------
(***************************************************************************)
(* The lock: types.                                                        *)
(***************************************************************************)
\* Which name a comparison is about.
LEMMA ComparedName ==
  ASSUME NEW k \in 0..5
  PROVE  Compared(k) = IF k \in {0, 2, 4} THEN "lock" ELSE "guard"
<1>1. k \in {0, 1, 2, 3, 4, 5}
  OBVIOUS
<1>2. 0 % 2 = 0 /\ 1 % 2 = 1 /\ 2 % 2 = 0 /\ 3 % 2 = 1 /\ 4 % 2 = 0 /\ 5 % 2 = 1
  OBVIOUS
<1>3. QED
  BY <1>1, <1>2 DEF Compared

-----------------------------------------------------------------------------
\* The initial states are typed.
LEMMA LockInitType == LockInit => LockTypeOK
  BY LockAssumption DEF LockInit, LockTypeOK, Closed, Names, Comparisons

\* Closing a session keeps what is typed about the files.
LEMMA CloseType ==
  ASSUME LockTypeOK, NEW s \in Sessions, Close(s), running' = running \ {s},
         orphans' \in 0..MaxOrphans
  PROVE  LockTypeOK'
  BY DEF LockTypeOK, Close, Closed, Names, Comparisons

\* Every step keeps the types.
LEMMA LockTypeStep == LockTypeOK /\ [LockNext]_lockVars => LockTypeOK'
<1> SUFFICES ASSUME LockTypeOK, [LockNext]_lockVars PROVE LockTypeOK'
  OBVIOUS
<1> USE LockAssumption
<1>1. ASSUME NEW s \in Sessions, NEW n \in Names, Open(s, n) PROVE LockTypeOK'
  <2>1. PICK i \in Inodes : /\ path' = [path EXCEPT ![n] = i]
                            /\ file' = [file EXCEPT ![s][n] = i]
    BY <1>1 DEF Open
  <2>2. \A t \in Sessions, m \in Names : file[t][m] # NoFile => file'[t][m] # NoFile
    BY <2>1 DEF LockTypeOK
  <2>3. path' \in [Names -> Inodes \cup {NoFile}] /\ file' \in [Sessions -> [Names -> Inodes \cup {NoFile}]]
    BY <2>1 DEF LockTypeOK
  <2>4. UNCHANGED <<held, passed, running, orphans, replaced>>
    BY <1>1 DEF Open
  <2>5. QED
    BY <2>2, <2>3, <2>4 DEF LockTypeOK
<1>2. ASSUME NEW s \in Sessions, NEW n \in Names, TryLock(s, n) PROVE LockTypeOK'
  BY <1>2 DEF LockTypeOK, TryLock, Names
<1>3. ASSUME NEW s \in Sessions, EnsureIdentity(s) PROVE LockTypeOK'
  BY <1>3 DEF LockTypeOK, EnsureIdentity, Comparisons
<1>4. ASSUME NEW s \in Sessions, StartRecovery(s) PROVE LockTypeOK'
  BY <1>4 DEF LockTypeOK, StartRecovery
<1>5. ASSUME NEW s \in Sessions, RecoveryEnds(s) \/ Fail(s) PROVE LockTypeOK'
  <2>1. running' = running \ {s} /\ orphans' = orphans /\ Close(s)
    BY <1>5 DEF RecoveryEnds, Fail
  <2>2. orphans' \in 0..MaxOrphans
    BY <2>1 DEF LockTypeOK
  <2>3. QED
    BY <2>1, <2>2, CloseType
<1>6. ASSUME NEW s \in Sessions, Kill(s) PROVE LockTypeOK'
  <2>1. running' = running \ {s} /\ Close(s)
    BY <1>6 DEF Kill
  <2>2. orphans' \in 0..MaxOrphans
    BY <1>6 DEF Kill, LockTypeOK
  <2>3. QED
    BY <2>1, <2>2, CloseType
<1>7. CASE OrphanEnds
  BY <1>7 DEF LockTypeOK, OrphanEnds
<1>8. ASSUME NEW n \in Meddled, Meddle(n) PROVE LockTypeOK'
  <2>1. path' \in [Names -> Inodes \cup {NoFile}]
    BY <1>8 DEF LockTypeOK, Meddle
  <2>2. replaced' \in [Sessions -> SUBSET Names]
    BY <1>8 DEF LockTypeOK, Meddle
  <2>3. QED
    BY <1>8, <2>1, <2>2 DEF LockTypeOK, Meddle
<1>9. CASE UNCHANGED lockVars
  BY <1>9 DEF LockTypeOK, lockVars
<1>10. QED
  BY <1>1, <1>2, <1>3, <1>4, <1>5, <1>6, <1>7, <1>8, <1>9 DEF LockNext

\* Type correctness, of every reachable state.
THEOREM LockTypeCorrect == LockSpec => []LockTypeOK
  BY LockInitType, LockTypeStep, PTL DEF LockSpec

-----------------------------------------------------------------------------
(***************************************************************************)
(* The invariant.  No file is locked twice; and a file that a session has  *)
(* compared is still the one at its path, unless it has been replaced.     *)
(***************************************************************************)
LockedOnce ==
  \A s, t \in Sessions : s # t =>
    \A m \in held[s] : \A n \in held[t] : file[s][m] # file[t][n]

HasCompared(s, n) == passed[s] > (IF n = "lock" THEN 0 ELSE 1)

AtPath ==
  \A s \in Sessions, n \in Names :
    HasCompared(s, n) /\ n \notin replaced[s] => path[n] = file[s][n]

LockInv == LockTypeOK /\ LockedOnce /\ AtPath

\* The invariant holds at the start.
LEMMA InitLockInv == LockInit => LockInv
<1>1. ASSUME LockInit PROVE LockedOnce /\ AtPath
  BY <1>1 DEF LockInit, LockedOnce, AtPath, HasCompared
<1>2. QED
  BY <1>1, LockInitType DEF LockInv

\* Closing a session disturbs nobody else.
LEMMA CloseLockInv ==
  ASSUME LockInv, NEW s \in Sessions, Close(s)
  PROVE  LockedOnce' /\ AtPath'
<1>1. LockedOnce'
  BY DEF LockInv, LockTypeOK, LockedOnce, Close
<1>2. AtPath'
  BY DEF LockInv, LockTypeOK, AtPath, HasCompared, Close
<1>3. QED
  BY <1>1, <1>2

\* Every step keeps the invariant.
LEMMA LockStep == LockInv /\ [LockNext]_lockVars => LockInv'
<1> SUFFICES ASSUME LockInv, [LockNext]_lockVars PROVE LockedOnce' /\ AtPath'
  BY LockTypeStep DEF LockInv
<1> USE LockAssumption DEF LockInv
<1>1. ASSUME NEW s \in Sessions, NEW n \in Names, Open(s, n)
      PROVE  LockedOnce' /\ AtPath'
  <2>1. PICK i \in Inodes :
          /\ path[n] # NoFile => path[n] = i
          /\ path' = [path EXCEPT ![n] = i]
          /\ file' = [file EXCEPT ![s][n] = i]
    BY <1>1 DEF Open
  <2>2. file[s][n] = NoFile /\ n \notin held[s] /\ held' = held /\ passed' = passed
        /\ replaced' = replaced
    BY <1>1 DEF Open, LockTypeOK
  <2>3. passed[s] = 0
    BY <2>2, <1>1 DEF LockTypeOK, Names, Comparisons
  <2>4. \A t \in Sessions : \A m \in held[t] : file'[t][m] = file[t][m]
    BY <2>1, <2>2 DEF LockTypeOK
  <2>5. LockedOnce'
    BY <2>2, <2>4 DEF LockedOnce, LockTypeOK
  <2>6. ASSUME NEW t \in Sessions, NEW m \in Names, HasCompared(t, m), m \notin replaced[t]
        PROVE  path'[m] = file'[t][m]
    <3>1. passed[t] > 0 /\ t # s
      BY <2>6, <2>3 DEF HasCompared, LockTypeOK, Comparisons
    <3>2. file[t][m] # NoFile /\ path[m] = file[t][m]
      BY <2>6, <3>1 DEF LockTypeOK, AtPath
    <3>3. path'[m] = path[m] /\ file'[t][m] = file[t][m]
      BY <2>1, <3>1, <3>2 DEF LockTypeOK
    <3>4. QED
      BY <3>2, <3>3
  <2>7. AtPath'
    BY <2>2, <2>6 DEF AtPath, HasCompared
  <2>8. QED
    BY <2>5, <2>7
<1>2. ASSUME NEW s \in Sessions, NEW n \in Names, TryLock(s, n)
      PROVE  LockedOnce' /\ AtPath'
  <2>1. \A t \in Sessions \ {s} : \A m \in held[t] : file[t][m] # file[s][n]
    BY <1>2 DEF TryLock, Contended
  <2>2. held' = [held EXCEPT ![s] = @ \cup {n}] /\ file' = file
    BY <1>2 DEF TryLock
  <2>3. LockedOnce'
    BY <2>1, <2>2 DEF LockedOnce, LockTypeOK
  <2>4. AtPath'
    BY <1>2 DEF TryLock, AtPath, HasCompared
  <2>5. QED
    BY <2>3, <2>4
<1>3. ASSUME NEW s \in Sessions, EnsureIdentity(s) PROVE LockedOnce' /\ AtPath'
  <2>1. LockedOnce'
    BY <1>3 DEF EnsureIdentity, LockedOnce
  <2>2. AtPath'
    <3> DEFINE c == Compared(passed[s])
    <3>1. /\ passed[s] \in 0..5
          /\ path[c] = file[s][c]
          /\ passed' = [passed EXCEPT ![s] = passed[s] + 1]
          /\ replaced' = [replaced EXCEPT ![s] = replaced[s] \ {c}]
          /\ path' = path /\ file' = file
      BY <1>3 DEF EnsureIdentity, LockTypeOK, Comparisons
    <3>2. c = IF passed[s] \in {0, 2, 4} THEN "lock" ELSE "guard"
      BY <3>1, ComparedName
    <3> HIDE DEF c
    <3>3. passed'[s] = passed[s] + 1 /\ replaced'[s] = replaced[s] \ {c}
      BY <3>1 DEF LockTypeOK
    <3>4. ASSUME NEW n \in Names, HasCompared(s, n)', n \notin replaced'[s]
          PROVE  path[n] = file[s][n]
      <4>1. CASE n = c
        BY <4>1, <3>1
      <4>2. CASE n # c
        <5>1. passed[s] # 0
          BY <4>2, <3>2, <3>3, <3>4, <3>1 DEF HasCompared, Names
        <5>2. n = "guard" => passed[s] > 1
          BY <4>2, <3>2, <3>3, <3>4, <3>1 DEF HasCompared, Names
        <5>3. HasCompared(s, n)
          BY <5>1, <5>2, <3>1 DEF HasCompared, Names
        <5>4. QED
          BY <5>3, <4>2, <3>3, <3>4 DEF AtPath
      <4>3. QED
        BY <4>1, <4>2
    <3>5. ASSUME NEW t \in Sessions, t # s
          PROVE  passed'[t] = passed[t] /\ replaced'[t] = replaced[t]
      BY <3>1, <3>5 DEF LockTypeOK
    <3>6. QED
      BY <3>1, <3>4, <3>5 DEF AtPath, HasCompared
  <2>3. QED
    BY <2>1, <2>2
<1>4. ASSUME NEW s \in Sessions, StartRecovery(s) PROVE LockedOnce' /\ AtPath'
  BY <1>4 DEF StartRecovery, LockedOnce, AtPath, HasCompared
<1>5. ASSUME NEW s \in Sessions, RecoveryEnds(s) \/ Fail(s) \/ Kill(s)
      PROVE  LockedOnce' /\ AtPath'
  BY <1>5, CloseLockInv DEF RecoveryEnds, Fail, Kill
<1>6. CASE OrphanEnds
  BY <1>6 DEF OrphanEnds, LockedOnce, AtPath, HasCompared
<1>7. ASSUME NEW n \in Meddled, Meddle(n) PROVE LockedOnce' /\ AtPath'
  <2>1. LockedOnce'
    BY <1>7 DEF Meddle, LockedOnce
  <2>2. ASSUME NEW t \in Sessions, NEW m \in Names, HasCompared(t, m), m \notin replaced'[t]
        PROVE  m # n /\ m \notin replaced[t]
    <3>1. file[t][m] # NoFile
      BY <2>2 DEF HasCompared, LockTypeOK, Comparisons
    <3>2. QED
      BY <1>7, <2>2, <3>1 DEF Meddle
  <2>3. AtPath'
    BY <1>7, <2>2 DEF Meddle, AtPath, HasCompared, LockTypeOK
  <2>4. QED
    BY <2>1, <2>3
<1>8. CASE UNCHANGED lockVars
  BY <1>8 DEF lockVars, LockedOnce, AtPath, HasCompared
<1>9. QED
  BY <1>1, <1>2, <1>3, <1>4, <1>5, <1>6, <1>7, <1>8 DEF LockNext

\* The invariant gives exclusion.
LEMMA LockInvExclusive == LockInv => Exclusive
<1> SUFFICES ASSUME LockInv, NEW s \in running, NEW t \in running, s # t,
                    NEW n \in Names, n \notin replaced[s], n \notin replaced[t]
             PROVE  FALSE
  BY DEF Exclusive, LockInv, LockTypeOK
<1>1. s \in Sessions /\ t \in Sessions /\ passed[s] = 6 /\ passed[t] = 6
  BY DEF LockInv, LockTypeOK, Comparisons
<1>2. held[s] = Names /\ held[t] = Names
  BY <1>1 DEF LockInv, LockTypeOK
<1>3. path[n] = file[s][n] /\ path[n] = file[t][n]
  BY <1>1 DEF LockInv, AtPath, HasCompared
<1>4. QED
  BY <1>1, <1>2, <1>3 DEF LockInv, LockedOnce

\* Two sessions only run a recovery at the same time if others have replaced
\* both files since one of them last looked at them.
THEOREM LockExcludes == LockSpec => []Exclusive
<1>1. LockSpec => []LockInv
  BY InitLockInv, LockStep, PTL DEF LockSpec
<1>2. QED
  BY <1>1, LockInvExclusive, PTL

-----------------------------------------------------------------------------
(***************************************************************************)
(* Where Git ends with its session, one file that nobody replaces is       *)
(* enough to serialize all recoveries.                                     *)
(***************************************************************************)
Kept(n) == orphans = 0 /\ \A s \in Sessions : n \notin replaced[s]

\* The lock serializes the recoveries of a repository if a killed session
\* takes its Git along and nobody replaces the guard.
THEOREM LockSerializes ==
  ASSUME GitOutlives = FALSE, "guard" \notin Meddled
  PROVE  LockSpec => []Serialized
<1>1. LockInit => Kept("guard")
  BY DEF LockInit, Kept
<1>2. ASSUME LockTypeOK, Kept("guard"), [LockNext]_lockVars PROVE Kept("guard")'
  <2> USE DEF Kept
  <2>1. ASSUME NEW s \in Sessions, Close(s) PROVE \A t \in Sessions : "guard" \notin replaced'[t]
    BY <1>2, <2>1 DEF Close, LockTypeOK
  <2>2. ASSUME NEW s \in Sessions, RecoveryEnds(s) \/ Fail(s) \/ Kill(s) PROVE Kept("guard")'
    BY <1>2, <2>1, <2>2 DEF RecoveryEnds, Fail, Kill
  <2>3. ASSUME NEW s \in Sessions, EnsureIdentity(s) PROVE Kept("guard")'
    BY <1>2, <2>3 DEF EnsureIdentity, LockTypeOK
  <2>4. ASSUME NEW s \in Sessions, StartRecovery(s) \/ \E n \in Names : Open(s, n) \/ TryLock(s, n)
        PROVE  Kept("guard")'
    BY <1>2, <2>4 DEF StartRecovery, Open, TryLock
  <2>5. CASE OrphanEnds
    BY <1>2, <2>5 DEF OrphanEnds
  <2>6. ASSUME NEW n \in Meddled, Meddle(n) PROVE Kept("guard")'
    BY <1>2, <2>6 DEF Meddle, LockTypeOK
  <2>7. CASE UNCHANGED lockVars
    BY <1>2, <2>7 DEF lockVars
  <2>8. QED
    BY <1>2, <2>2, <2>3, <2>4, <2>5, <2>6, <2>7 DEF LockNext
<1>3. LockSpec => []Kept("guard")
  BY <1>1, <1>2, LockTypeCorrect, PTL DEF LockSpec
<1>4. LockTypeOK /\ Kept("guard") /\ Exclusive => Serialized
  BY DEF LockTypeOK, Kept, Exclusive, Serialized, Names
<1>5. QED
  BY <1>3, <1>4, LockTypeCorrect, LockExcludes, PTL

-----------------------------------------------------------------------------
(***************************************************************************)
(* Induction.  Theorems that take an operator cannot be used here; that    *)
(* the order of the natural numbers is well-founded gives induction over   *)
(* sets instead: to show a property of all numbers, take the set of those  *)
(* that have it.                                                           *)
(***************************************************************************)
\* Every set of natural numbers but the empty one has a least element.
LEMMA LeastNatural ==
  ASSUME NEW T \in SUBSET Nat, T # {}
  PROVE  \E n \in T : \A m \in T : n <= m
<1>1. \E R : /\ IsWellFoundedOn(R, Nat)
             /\ \A x, y \in Nat : <<y, x>> \in R <=> y < x
  <2> DEFINE R == OpToRel(<, Nat)
  <2>1. IsWellFoundedOn(R, Nat)
    BY NatLessThanWellFounded
  <2>2. \A x, y \in Nat : <<y, x>> \in R <=> y < x
    BY DEF OpToRel
  <2> HIDE DEF R
  <2>3. QED
    BY <2>1, <2>2
<1>2. PICK R : /\ IsWellFoundedOn(R, Nat)
               /\ \A x, y \in Nat : <<y, x>> \in R <=> y < x
  BY <1>1
<1>3. PICK x \in T : \A y \in T : ~ (<<y, x>> \in R)
  BY <1>2, WFMin
<1>4. \A y \in T : ~ (y < x)
  <2> SUFFICES ASSUME NEW y \in T PROVE ~ (y < x)
    OBVIOUS
  <2>1. x \in Nat /\ y \in Nat /\ ~ (<<y, x>> \in R)
    BY <1>3
  <2>2. QED
    BY <1>2, <2>1
<1>5. QED
  BY <1>4

LEMMA SetInduction ==
  ASSUME NEW S, 0 \in S, \A n \in Nat : n \in S => n + 1 \in S
  PROVE  Nat \subseteq S
<1> SUFFICES ASSUME ~(Nat \subseteq S) PROVE FALSE
  OBVIOUS
<1>1. PICK n \in Nat \ S : \A m \in Nat \ S : n <= m
  BY LeastNatural
<1>2. n # 0 /\ n - 1 \in Nat
  BY <1>1
<1>3. n - 1 \in S
  BY <1>1, <1>2
<1>4. QED
  BY <1>1, <1>2, <1>3

-----------------------------------------------------------------------------
(***************************************************************************)
(* Text.                                                                   *)
(***************************************************************************)
LEMMA MarksAre ==
  /\ Blank \in Marks /\ Quote \in Marks /\ "&" \in Marks /\ ";" \in Marks
  /\ "&" # Quote /\ "&" # Blank /\ Quote # Blank /\ ";" # Quote /\ ";" # Blank
  BY DEF Marks, Blank, Quote

LEMMA ReverseType ==
  ASSUME NEW S, NEW s \in Seq(S)
  PROVE  Reverse(s) \in Seq(S)
<1>1. Len(s) \in Nat /\ \A i \in 1..Len(s) : (Len(s) - i) + 1 \in 1..Len(s)
  OBVIOUS
<1>2. \A i \in 1..Len(s) : s[(Len(s) - i) + 1] \in S
  BY <1>1
<1>3. Reverse(s) \in [1..Len(s) -> S]
  BY <1>2 DEF Reverse
<1>4. QED
  BY <1>1, <1>3, IsASeq

LEMMA TrimStartType ==
  ASSUME NEW S, NEW s \in Seq(S)
  PROVE  TrimStart(s) \in Seq(S)
<1>1. CASE \E i \in DOMAIN s : s[i] # Blank
  <2>1. PICK i \in 1..Len(s) : s[i] # Blank /\ \A j \in 1..Len(s) : s[j] # Blank => i <= j
    <3> DEFINE T == {i \in 1..Len(s) : s[i] # Blank}
    <3>1. T \in SUBSET Nat /\ T # {}
      BY <1>1
    <3>2. PICK i \in T : \A j \in T : i <= j
      BY <3>1, LeastNatural
    <3>3. QED
      BY <3>2
  <2>2. i \in DOMAIN s /\ s[i] # Blank /\ \A j \in 1..(i - 1) : s[j] = Blank
    BY <2>1
  <2> DEFINE first == CHOOSE i_1 \in DOMAIN s : s[i_1] # Blank /\ \A j \in 1..(i_1 - 1) : s[j] = Blank
  <2>3. first \in DOMAIN s
    BY <2>2
  <2>4. TrimStart(s) = SubSeq(s, first, Len(s))
    BY <1>1 DEF TrimStart, From
  <2> HIDE DEF first
  <2>5. first \in 1..Len(s)
    BY <2>3
  <2>6. SubSeq(s, first, Len(s)) \in Seq(S)
    BY <2>5
  <2>7. QED
    BY <2>4, <2>6
<1>2. CASE ~ \E i \in DOMAIN s : s[i] # Blank
  BY <1>2 DEF TrimStart
<1>3. QED
  BY <1>1, <1>2

LEMMA TrimType ==
  ASSUME NEW S, NEW s \in Seq(S)
  PROVE  Trim(s) \in Seq(S)
<1>1. TrimStart(s) \in Seq(S)
  BY TrimStartType
<1>2. Reverse(TrimStart(s)) \in Seq(S)
  BY <1>1, ReverseType
<1>3. TrimStart(Reverse(TrimStart(s))) \in Seq(S)
  BY <1>2, TrimStartType
<1>4. QED
  BY <1>3, ReverseType DEF Trim

\* A quote opens or closes a message, and no other token does.
LEMMA QuotedNext ==
  ASSUME NEW s, NEW i \in Nat, i >= 1
  PROVE  Quoted(s, i + 1) <=> IF s[i] = Quote THEN ~Quoted(s, i) ELSE Quoted(s, i)
<1> DEFINE T == {j \in 1..(i - 1) : s[j] = Quote}
           U == {j \in 1..i : s[j] = Quote}
<1>1. IsFiniteSet(T)
  <2>1. IsFiniteSet(1..(i - 1)) /\ T \in SUBSET (1..(i - 1))
    BY FS_Interval
  <2>2. QED
    BY <2>1, FS_Subset
<1>2. Cardinality(T) \in Nat
  BY <1>1, FS_CardinalityType
<1>3. i \notin T /\ U = IF s[i] = Quote THEN T \cup {i} ELSE T
  OBVIOUS
<1>4. Cardinality(U) = IF s[i] = Quote THEN Cardinality(T) + 1 ELSE Cardinality(T)
  <2> HIDE DEF T, U
  <2>1. QED
    BY <1>1, <1>3, FS_AddElement
<1>5. (i + 1) - 1 = i
  OBVIOUS
<1>6. /\ Quoted(s, i) <=> Cardinality(T) % 2 = 1
      /\ Quoted(s, i + 1) <=> Cardinality(U) % 2 = 1
  BY <1>5 DEF Quoted
<1> HIDE DEF T, U
<1>7. QED
  BY <1>2, <1>4, <1>6

LEMMA NotQuotedAtFirst == \A s : ~Quoted(s, 1)
<1> SUFFICES ASSUME NEW s PROVE ~Quoted(s, 1)
  OBVIOUS
<1>1. {j \in 1..(1 - 1) : s[j] = Quote} = {}
  OBVIOUS
<1>2. QED
  BY <1>1, FS_EmptySet DEF Quoted

-----------------------------------------------------------------------------
(***************************************************************************)
(* Connectors.  In a run of ampersands every other one opens a pair.       *)
(***************************************************************************)
BeginsRun(s, j, i) == (j = 1 \/ s[j - 1] # "&") /\ \A k \in j..i : s[k] = "&"
AtOddPlace(s, i) == \E j \in 1..i : BeginsRun(s, j, i) /\ (i - j) % 2 = 0

LEMMA PairIs ==
  ASSUME NEW s, NEW i
  PROVE  OpensPair(s, i) <=> ConnectorLen(s, i) = 2 /\ AtOddPlace(s, i)
  BY DEF OpensPair, AtOddPlace, BeginsRun

LEMMA RunBegins ==
  ASSUME NEW s, NEW i \in Nat, i >= 1, s[i] = "&", i = 1 \/ s[i - 1] # "&"
  PROVE  AtOddPlace(s, i)
<1>1. i \in 1..i /\ (i - i) % 2 = 0 /\ BeginsRun(s, i, i)
  BY DEF BeginsRun
<1>2. QED
  BY <1>1 DEF AtOddPlace

LEMMA PairIsClosed ==
  ASSUME NEW s, NEW i \in Nat, i >= 1, AtOddPlace(s, i)
  PROVE  ~AtOddPlace(s, i + 1)
<1> SUFFICES ASSUME AtOddPlace(s, i + 1) PROVE FALSE
  OBVIOUS
<1>1. PICK j \in 1..i : BeginsRun(s, j, i) /\ (i - j) % 2 = 0
  BY DEF AtOddPlace
<1>2. PICK m \in 1..(i + 1) : BeginsRun(s, m, i + 1) /\ ((i + 1) - m) % 2 = 0
  BY DEF AtOddPlace
<1>3. m # i + 1
  <2>1. s[i] = "&"
    BY <1>1 DEF BeginsRun
  <2>2. (i + 1) - 1 = i /\ i + 1 # 1
    OBVIOUS
  <2>3. QED
    BY <1>2, <2>1, <2>2 DEF BeginsRun
<1>4. ~ (j < m)
  <2> SUFFICES ASSUME j < m PROVE FALSE
    OBVIOUS
  <2>1. m # 1 /\ m - 1 \in j..i
    BY <1>3
  <2>2. QED
    BY <1>1, <1>2, <2>1 DEF BeginsRun
<1>5. ~ (m < j)
  <2> SUFFICES ASSUME m < j PROVE FALSE
    OBVIOUS
  <2>1. j # 1 /\ j - 1 \in m..(i + 1)
    OBVIOUS
  <2>2. QED
    BY <1>1, <1>2, <2>1 DEF BeginsRun
<1>6. m = j
  BY <1>4, <1>5
<1>7. QED
  BY <1>1, <1>2, <1>6

LEMMA PairIsOpened ==
  ASSUME NEW s, NEW i \in Nat, i >= 1, s[i] = "&", s[i + 1] = "&", ~AtOddPlace(s, i)
  PROVE  AtOddPlace(s, i + 1)
<1> DEFINE T == {j \in 1..i : \A k \in j..i : s[k] = "&"}
<1>1. T \in SUBSET Nat /\ i \in T
  OBVIOUS
<1>2. PICK j \in T : \A m \in T : j <= m
  BY <1>1, LeastNatural
<1>3. j \in 1..i /\ \A k \in j..i : s[k] = "&"
  BY <1>2
<1>4. j = 1 \/ s[j - 1] # "&"
  <2> SUFFICES ASSUME j # 1, s[j - 1] = "&" PROVE FALSE
    OBVIOUS
  <2>1. j - 1 \in 1..i
    BY <1>3
  <2>2. \A k \in (j - 1)..i : k = j - 1 \/ k \in j..i
    BY <1>3
  <2>3. \A k \in (j - 1)..i : s[k] = "&"
    BY <1>3, <2>2
  <2>4. j - 1 \in T
    BY <2>1, <2>3
  <2>5. QED
    BY <1>2, <1>3, <2>4
<1> HIDE DEF T
<1>5. BeginsRun(s, j, i)
  BY <1>3, <1>4 DEF BeginsRun
<1>6. (i - j) % 2 # 0
  BY <1>3, <1>5 DEF AtOddPlace
<1>7. ((i + 1) - j) % 2 = 0
  BY <1>3, <1>6
<1>8. BeginsRun(s, j, i + 1)
  <2>1. \A k \in j..(i + 1) : k = i + 1 \/ k \in j..i
    BY <1>3
  <2>2. QED
    BY <1>3, <1>4, <2>1 DEF BeginsRun
<1>9. j \in 1..(i + 1)
  BY <1>3
<1>10. QED
  BY <1>7, <1>8, <1>9 DEF AtOddPlace

\* A connector is a pair of ampersands or a word.
LEMMA ConnectorIs ==
  ASSUME NEW s \in Seq(Tokens), NEW i \in 1..Len(s)
  PROVE  /\ ConnectorLen(s, i) \in {0, 1, 2}
         /\ ConnectorLen(s, i) = 2 <=> s[i] = "&" /\ i < Len(s) /\ s[i + 1] = "&"
         /\ ConnectorLen(s, i) = 1 => s[i] \notin Marks
<1>1. \A t \in Marks : Lower[t] = t
  BY PromptAssumption
<1>2. IsWordAt(s, i, {"and", "then"}) => s[i] \notin Marks
  BY <1>1 DEF IsWordAt, Marks, Blank, Quote
<1> DEFINE pair == s[i] = "&" /\ i < Len(s) /\ s[i + 1] = "&"
           word == IsWordAt(s, i, {"and", "then"})
<1>3. ConnectorLen(s, i) = CASE pair -> 2 [] word -> 1 [] OTHER -> 0
  BY DEF ConnectorLen
<1>4. word => s[i] \notin Marks
  BY <1>2
<1>5. pair => s[i] \in Marks
  BY MarksAre
<1> HIDE DEF word, pair
<1>6. ConnectorLen(s, i) = IF pair THEN 2 ELSE IF word THEN 1 ELSE 0
  BY <1>3, <1>4, <1>5
<1>7. QED
  BY <1>4, <1>5, <1>6 DEF pair

\* A place where a prompt is cut.
LEMMA CutIs ==
  ASSUME NEW s \in Seq(Tokens), NEW c \in Cuts(s)
  PROVE  /\ c \in 1..Len(s) /\ s[c] # Quote /\ ~Quoted(s, c)
         /\ ConnectorLen(s, c) > 0
         /\ Ends(s, c) \in Nat /\ c <= Ends(s, c) /\ Ends(s, c) <= c + 1 /\ Ends(s, c) <= Len(s)
         /\ Ends(s, c) = c + 1 => /\ ConnectorLen(s, c) = 2 /\ s[c + 1] = "&"
                                  /\ AtOddPlace(s, c) /\ ~Quoted(s, c + 1)
         /\ s[c] = "&" => ConnectorLen(s, c) = 2 /\ AtOddPlace(s, c)
<1>1. /\ c \in 1..Len(s) /\ s[c] # Quote /\ ~Quoted(s, c)
      /\ OpensPair(s, c) \/ ConnectorLen(s, c) = 1
  BY DEF Cuts
<1>2. \/ ConnectorLen(s, c) = 2 /\ s[c] = "&" /\ c < Len(s) /\ s[c + 1] = "&" /\ AtOddPlace(s, c)
      \/ ConnectorLen(s, c) = 1 /\ s[c] # "&"
  BY <1>1, ConnectorIs, PairIs, MarksAre
<1>3. ~Quoted(s, c + 1)
  BY <1>1, QuotedNext
<1>4. QED
  BY <1>1, <1>2, <1>3 DEF Ends

\* No cut is within the connector of another one.
LEMMA CutsAreApart ==
  ASSUME NEW s \in Seq(Tokens), NEW c \in Cuts(s), NEW d \in Cuts(s), c < d
  PROVE  Ends(s, c) < d
<1> SUFFICES ASSUME ~ (Ends(s, c) < d) PROVE FALSE
  OBVIOUS
<1>1. c \in 1..Len(s) /\ d \in 1..Len(s) /\ Ends(s, c) \in Nat /\ Ends(s, c) <= c + 1
  BY CutIs
<1>2. Ends(s, c) = c + 1 /\ d = c + 1
  BY <1>1
<1>3. s[d] = "&" /\ AtOddPlace(s, c)
  BY <1>2, CutIs
<1>4. AtOddPlace(s, c + 1)
  BY <1>2, <1>3, CutIs
<1>5. QED
  BY <1>1, <1>3, <1>4, PairIsClosed

-----------------------------------------------------------------------------
(***************************************************************************)
(* The cuts up to a place, and the pieces between cuts.                    *)
(***************************************************************************)
CutsUpTo(s, k) == {c \in Cuts(s) : c <= k}
CutsBefore(s, x) == {c \in Cuts(s) : c < x}

LEMMA CutsCounted ==
  ASSUME NEW s \in Seq(Tokens), NEW k \in 0..Len(s)
  PROVE  /\ IsFiniteSet(CutsUpTo(s, k)) /\ Cardinality(CutsUpTo(s, k)) \in Nat
         /\ k < Len(s) => CutsUpTo(s, k + 1) = IF k + 1 \in Cuts(s) THEN CutsUpTo(s, k) \cup {k + 1}
                                               ELSE CutsUpTo(s, k)
         /\ k < Len(s) => Cardinality(CutsUpTo(s, k + 1)) =
              IF k + 1 \in Cuts(s) THEN Cardinality(CutsUpTo(s, k)) + 1
              ELSE Cardinality(CutsUpTo(s, k))
         /\ k + 1 \notin CutsUpTo(s, k)
<1>0. Len(s) \in Nat /\ k \in Nat
  OBVIOUS
<1>1. IsFiniteSet(CutsUpTo(s, k))
  <2>1. IsFiniteSet(1..Len(s))
    BY <1>0, FS_Interval
  <2>2. CutsUpTo(s, k) \in SUBSET (1..Len(s))
    BY CutIs DEF CutsUpTo
  <2>3. QED
    BY <2>1, <2>2, FS_Subset
<1>2. k + 1 \notin CutsUpTo(s, k)
  BY <1>0 DEF CutsUpTo
<1>3. ASSUME k < Len(s)
      PROVE  CutsUpTo(s, k + 1) = IF k + 1 \in Cuts(s) THEN CutsUpTo(s, k) \cup {k + 1}
                                  ELSE CutsUpTo(s, k)
  <2>1. \A c \in Cuts(s) : c <= k + 1 <=> c <= k \/ c = k + 1
    BY <1>0, CutIs
  <2>2. QED
    BY <1>0, <2>1 DEF CutsUpTo
<1>4. Cardinality(CutsUpTo(s, k)) \in Nat
  BY <1>1, FS_CardinalityType
<1>5. ASSUME k < Len(s)
      PROVE  Cardinality(CutsUpTo(s, k + 1)) =
               IF k + 1 \in Cuts(s) THEN Cardinality(CutsUpTo(s, k)) + 1
               ELSE Cardinality(CutsUpTo(s, k))
  <2> DEFINE T == CutsUpTo(s, k)
  <2>1. Cardinality(T \cup {k + 1}) = Cardinality(T) + 1
    <3> HIDE DEF T
    <3>1. IsFiniteSet(T) /\ k + 1 \notin T
      BY <1>1, <1>2 DEF T
    <3>2. QED
      BY <3>1, FS_AddElement
  <2>2. QED
    BY <1>3, <1>5, <2>1
<1>6. QED
  BY <1>1, <1>2, <1>3, <1>4, <1>5

\* Where the piece begins that follows the cuts up to a place.
GoesOnAt(s, a, k) ==
  /\ \A c \in CutsUpTo(s, k) : Ends(s, c) < a
  /\ \/ a = 1 /\ CutsUpTo(s, k) = {}
     \/ \E c \in CutsUpTo(s, k) : a = Ends(s, c) + 1

LEMMA GoesOnAtIs ==
  ASSUME NEW s \in Seq(Tokens), NEW k \in 0..Len(s), NEW a, GoesOnAt(s, a, k)
  PROVE  /\ a \in Nat /\ 1 <= a /\ a <= k + 2 /\ a <= Len(s) + 1
         /\ a = k + 2 => /\ k \in Cuts(s) /\ Ends(s, k) = k + 1
<1>1. CASE a = 1 /\ CutsUpTo(s, k) = {}
  BY <1>1
<1>2. CASE \E c \in CutsUpTo(s, k) : a = Ends(s, c) + 1
  <2>1. PICK c \in CutsUpTo(s, k) : a = Ends(s, c) + 1
    BY <1>2
  <2>2. c \in Cuts(s) /\ c <= k
    BY <2>1 DEF CutsUpTo
  <2>3. c \in 1..Len(s) /\ Ends(s, c) \in Nat /\ c <= Ends(s, c) /\ Ends(s, c) <= c + 1 /\ Ends(s, c) <= Len(s)
    BY <2>2, CutIs
  <2>4. QED
    BY <2>1, <2>2, <2>3
<1>3. QED
  BY <1>1, <1>2 DEF GoesOnAt

LEMMA PieceIs ==
  ASSUME NEW s, NEW p
  PROVE  p \in Pieces(s, Cuts(s)) <=>
           /\ \E a, b : p = <<a, b>>
           /\ p[1] = 1 \/ \E c \in Cuts(s) : p[1] = Ends(s, c) + 1
           /\ p[2] = Len(s) \/ \E c \in Cuts(s) : p[2] = c - 1
           /\ p[1] <= p[2] + 1
           /\ \A c \in Cuts(s) : c < p[1] \/ c > p[2]
<1> DEFINE Firsts == {1} \cup {Ends(s, c) + 1 : c \in Cuts(s)}
           Lasts == {Len(s)} \cup {c - 1 : c \in Cuts(s)}
<1>1. p \in Pieces(s, Cuts(s)) <=>
        p \in Firsts \X Lasts /\ p[1] <= p[2] + 1 /\ \A c \in Cuts(s) : c < p[1] \/ c > p[2]
  BY DEF Pieces
<1>2. p \in Firsts \X Lasts <=> (\E a, b : p = <<a, b>>) /\ p[1] \in Firsts /\ p[2] \in Lasts
  OBVIOUS
<1>3. QED
  BY <1>1, <1>2

\* There is one piece, and one only, that ends at a place before a cut or at
\* the end, and it begins where the cuts so far let it.
LEMMA PieceEndsHere ==
  ASSUME NEW s \in Seq(Tokens), NEW k \in 0..Len(s), NEW a, GoesOnAt(s, a, k), a <= k + 1
  PROVE  /\ k = Len(s) \/ k + 1 \in Cuts(s) => <<a, k>> \in Pieces(s, Cuts(s))
         /\ \A p \in Pieces(s, Cuts(s)) :
              p[2] = k => p = <<a, k>> /\ CutsBefore(s, p[1]) = CutsUpTo(s, k)
<1>1. a \in Nat /\ k \in Nat
  BY GoesOnAtIs
<1>2. \A c \in Cuts(s) : c \in Nat /\ Ends(s, c) \in Nat /\ c <= Ends(s, c)
  BY CutIs
<1>3. \A c \in Cuts(s) : c < a \/ c > k
  BY <1>1, <1>2 DEF GoesOnAt, CutsUpTo
<1>4. ASSUME k = Len(s) \/ k + 1 \in Cuts(s)
      PROVE  <<a, k>> \in Pieces(s, Cuts(s))
  <2>1. a = 1 \/ \E c \in Cuts(s) : a = Ends(s, c) + 1
    BY DEF GoesOnAt, CutsUpTo
  <2>2. k = Len(s) \/ \E c \in Cuts(s) : k = c - 1
    <3>1. k = (k + 1) - 1
      BY <1>1
    <3>2. QED
      BY <1>4, <3>1
  <2>3. <<a, k>>[1] = a /\ <<a, k>>[2] = k
    OBVIOUS
  <2>4. QED
    BY <1>3, <2>1, <2>2, <2>3, PieceIs
<1>5. ASSUME NEW p \in Pieces(s, Cuts(s)), p[2] = k
      PROVE  p = <<a, k>> /\ CutsBefore(s, p[1]) = CutsUpTo(s, k)
  <2>1. /\ \E x, y : p = <<x, y>>
        /\ p[1] = 1 \/ \E c \in Cuts(s) : p[1] = Ends(s, c) + 1
        /\ p[1] <= k + 1
        /\ \A c \in Cuts(s) : c < p[1] \/ c > k
    BY <1>5, PieceIs
  <2>2. p[1] \in Nat
    BY <1>2, <2>1
  <2>3. CutsBefore(s, p[1]) = CutsUpTo(s, k)
    <3>1. \A c \in Cuts(s) : c < p[1] <=> c <= k
      BY <1>1, <1>2, <2>1, <2>2
    <3>2. QED
      BY <3>1 DEF CutsBefore, CutsUpTo
  <2>4. p[1] = a
    <3>1. CASE p[1] = 1
      <4>1. CutsUpTo(s, k) = {}
        <5> SUFFICES ASSUME NEW c \in Cuts(s), c < 1 PROVE FALSE
          BY <2>3, <3>1 DEF CutsBefore
        <5>1. QED
          BY CutIs
      <4>2. QED
        BY <3>1, <4>1 DEF GoesOnAt
    <3>2. CASE \E c \in Cuts(s) : p[1] = Ends(s, c) + 1
      <4>1. PICK c \in Cuts(s) : p[1] = Ends(s, c) + 1
        BY <3>2
      <4>2. c < p[1]
        BY <1>2, <4>1
      <4>3. c \in CutsUpTo(s, k)
        BY <2>3, <4>2 DEF CutsBefore
      <4>4. PICK d \in CutsUpTo(s, k) : a = Ends(s, d) + 1
        BY <4>3 DEF GoesOnAt
      <4>5. d \in Cuts(s) /\ d < p[1]
        BY <2>3, <4>4 DEF CutsBefore
      <4>6. Ends(s, c) < a
        BY <4>3 DEF GoesOnAt
      <4>7. ~ (c < d)
        BY <1>2, <4>1, <4>5, CutsAreApart
      <4>8. ~ (d < c)
        BY <1>2, <4>4, <4>5, <4>6, CutsAreApart
      <4>9. c = d
        BY <1>2, <4>5, <4>7, <4>8
      <4>10. QED
        BY <4>1, <4>4, <4>9
    <3>3. QED
      BY <2>1, <3>1, <3>2
  <2>5. p = <<a, k>>
    BY <1>5, <2>1, <2>4
  <2>6. QED
    BY <2>3, <2>5
<1>6. QED
  BY <1>4, <1>5

-----------------------------------------------------------------------------
(***************************************************************************)
(* The scan, place by place.                                               *)
(***************************************************************************)
Segments == Seq(Seq(Tokens))
Scans == [segments : Segments, start : Nat, quoted : BOOLEAN, next : Nat, failed : BOOLEAN]

\* A character of the shell outside of quotes that belongs to no connector.
Stray(s, i) ==
  /\ IsShell(s[i]) /\ ~Quoted(s, i)
  /\ \A c \in Cuts(s) : i < c \/ i > Ends(s, c)

\* What is wrong with a prompt whose quotes are closed.
IsBroken(s) ==
  \/ \E p \in Pieces(s, Cuts(s)) : Piece(s, p) = <<>>
  \/ \E i \in DOMAIN s : Stray(s, i)

\* The segments hold a piece at its place, and it is not blank.
Holds(segments, s, p) ==
  /\ Piece(s, p) # <<>>
  /\ Cardinality(CutsBefore(s, p[1])) \in Nat
  /\ 1 + Cardinality(CutsBefore(s, p[1])) <= Len(segments)
  /\ segments[1 + Cardinality(CutsBefore(s, p[1]))] = Piece(s, p)

HoldsUpTo(segments, s, k) ==
  /\ Len(segments) = Cardinality(CutsUpTo(s, k))
  /\ \A p \in Pieces(s, Cuts(s)) : p[2] + 1 \in CutsUpTo(s, k) => Holds(segments, s, p)

NoStrayUpTo(s, k) == \A i \in 1..k : ~Stray(s, i)

\* An ampersand that the scan comes to opens a pair.
OpensHere(s, a, k) ==
  k + 1 <= Len(s) /\ ~Quoted(s, k + 1) /\ s[k + 1] = "&" =>
    (a <= k + 1 <=> AtOddPlace(s, k + 1))

Scanned(scan, s, k) ==
  /\ scan \in Scans
  /\ scan.failed => IsBroken(s)
  /\ ~scan.failed =>
       /\ scan.quoted <=> Quoted(s, k + 1)
       /\ scan.next = scan.start
       /\ GoesOnAt(s, scan.start, k)
       /\ OpensHere(s, scan.start, k)
       /\ HoldsUpTo(scan.segments, s, k)
       /\ NoStrayUpTo(s, k)

\* A step that does not cut keeps what is known of the segments.
LEMMA NoCutHere ==
  ASSUME NEW s \in Seq(Tokens), NEW k \in 0..Len(s), k < Len(s), k + 1 \notin Cuts(s),
         ~Stray(s, k + 1), NEW a, GoesOnAt(s, a, k), NEW segments,
         HoldsUpTo(segments, s, k), NoStrayUpTo(s, k)
  PROVE  /\ GoesOnAt(s, a, k + 1) /\ HoldsUpTo(segments, s, k + 1) /\ NoStrayUpTo(s, k + 1)
<1>1. CutsUpTo(s, k + 1) = CutsUpTo(s, k)
  BY CutsCounted
<1>2. GoesOnAt(s, a, k + 1) /\ HoldsUpTo(segments, s, k + 1)
  BY <1>1 DEF GoesOnAt, HoldsUpTo
<1>3. \A i \in 1..(k + 1) : i = k + 1 \/ i \in 1..k
  OBVIOUS
<1>4. NoStrayUpTo(s, k + 1)
  BY <1>3 DEF NoStrayUpTo
<1>5. QED
  BY <1>2, <1>4

\* EndSegment at a cut, or at the end of the prompt.
LEMMA SegmentEnds ==
  ASSUME NEW s \in Seq(Tokens), NEW k \in 0..Len(s), k = Len(s) \/ k + 1 \in Cuts(s),
         NEW scan \in Scans, ~scan.failed,
         GoesOnAt(s, scan.start, k), scan.start <= k + 1, HoldsUpTo(scan.segments, s, k)
  PROVE  LET ended == EndSegment(scan, s, k)
         IN /\ ended \in Scans
            /\ ended.failed => IsBroken(s)
            /\ ~ended.failed =>
                 /\ ended.quoted = scan.quoted
                 /\ Len(ended.segments) = Cardinality(CutsUpTo(s, k)) + 1
                 /\ \A p \in Pieces(s, Cuts(s)) :
                      p[2] = k \/ p[2] + 1 \in CutsUpTo(s, k) => Holds(ended.segments, s, p)
<1> DEFINE p == <<scan.start, k>>
           ended == EndSegment(scan, s, k)
           segment == Piece(s, p)
<1>1. /\ p \in Pieces(s, Cuts(s))
      /\ \A q \in Pieces(s, Cuts(s)) :
           q[2] = k => q = p /\ CutsBefore(s, q[1]) = CutsUpTo(s, k)
  BY PieceEndsHere
<1>2. /\ scan.segments \in Segments /\ scan.start \in Nat /\ scan.quoted \in BOOLEAN
      /\ scan.next \in Nat /\ scan.failed \in BOOLEAN
  BY DEF Scans
<1>3. /\ segment = Trim(SubSeq(s, scan.start, k))
      /\ ended = IF segment = <<>> THEN [scan EXCEPT !.failed = TRUE]
                 ELSE [scan EXCEPT !.segments = Append(@, segment)]
  BY DEF EndSegment, Piece
<1>4. segment \in Seq(Tokens)
  <2>1. 1 <= scan.start /\ k <= Len(s) /\ k \in Nat
    BY GoesOnAtIs
  <2>2. SubSeq(s, scan.start, k) \in Seq(Tokens)
    <3>1. scan.start \in Int /\ k \in Int
      BY <1>2, <2>1
    <3>2. \A i \in scan.start..k : i \in 1..Len(s)
      BY <1>2, <2>1
    <3>3. QED
      BY <3>1, <3>2, SubSeqProperties
  <2>3. QED
    BY <1>3, <2>2, TrimType
<1> HIDE DEF ended, segment
<1>5. CASE segment = <<>>
  <2>1. ended = [scan EXCEPT !.failed = TRUE]
    BY <1>3, <1>5
  <2>2. ended \in Scans /\ ended.failed
    BY <2>1 DEF Scans
  <2>3. IsBroken(s)
    BY <1>1, <1>5 DEF IsBroken, segment
  <2>4. QED
    BY <2>2, <2>3 DEF ended
<1>6. CASE segment # <<>>
  <2> DEFINE more == Append(scan.segments, segment)
             n == Len(scan.segments)
  <2>1. ended = [scan EXCEPT !.segments = more]
    BY <1>3, <1>6
  <2>2. /\ more \in Segments /\ Len(more) = n + 1 /\ n \in Nat
        /\ more[n + 1] = segment /\ \A i \in 1..n : more[i] = scan.segments[i]
    BY <1>2, <1>4 DEF Segments
  <2> HIDE DEF more, n
  <2>3. ended \in Scans /\ ~ended.failed /\ ended.quoted = scan.quoted /\ ended.segments = more
    BY <2>1, <2>2 DEF Scans
  <2>4. n = Cardinality(CutsUpTo(s, k))
    BY DEF HoldsUpTo, n
  <2>5. ASSUME NEW q \in Pieces(s, Cuts(s)), q[2] = k
        PROVE  Holds(more, s, q)
    <3>1. q = p /\ CutsBefore(s, q[1]) = CutsUpTo(s, k)
      BY <1>1, <2>5
    <3>2. Piece(s, q) = segment
      BY <3>1 DEF segment
    <3>3. Cardinality(CutsBefore(s, q[1])) = n
      BY <2>4, <3>1
    <3>4. 1 + n = n + 1 /\ 1 + n <= n + 1
      BY <2>2
    <3>5. QED
      BY <1>6, <2>2, <3>2, <3>3, <3>4 DEF Holds
  <2>6. ASSUME NEW q \in Pieces(s, Cuts(s)), q[2] + 1 \in CutsUpTo(s, k)
        PROVE  Holds(more, s, q)
    <3>1. Holds(scan.segments, s, q)
      BY <2>6 DEF HoldsUpTo
    <3> DEFINE m == Cardinality(CutsBefore(s, q[1]))
    <3>2. m \in Nat /\ 1 + m <= n /\ scan.segments[1 + m] = Piece(s, q) /\ Piece(s, q) # <<>>
      BY <3>1 DEF Holds, n
    <3>3. 1 + m \in 1..n /\ 1 + m <= n + 1
      BY <2>2, <3>2
    <3>4. more[1 + m] = Piece(s, q)
      BY <2>2, <3>2, <3>3
    <3>5. QED
      BY <2>2, <3>2, <3>3, <3>4 DEF Holds
  <2>7. /\ Len(ended.segments) = Cardinality(CutsUpTo(s, k)) + 1
        /\ \A q \in Pieces(s, Cuts(s)) :
             q[2] = k \/ q[2] + 1 \in CutsUpTo(s, k) => Holds(ended.segments, s, q)
    BY <2>2, <2>3, <2>4, <2>5, <2>6
  <2>8. QED
    BY <2>3, <2>7 DEF ended
<1>7. QED
  BY <1>5, <1>6

\* The cases of ScanAt.
LEMMA ScanStays ==
  ASSUME NEW s, NEW scan \in Scans, NEW i \in Nat, scan.failed \/ i < scan.next
  PROVE  ScanAt(s, scan, i) = scan
<1>1. ~ (~scan.failed /\ i >= scan.next /\ s[i] = Quote)
  BY DEF Scans
<1>2. QED
  BY <1>1 DEF ScanAt

LEMMA ScanTurns ==
  ASSUME NEW s, NEW scan \in Scans, NEW i \in Nat,
         ~scan.failed, scan.next <= i, s[i] = Quote
  PROVE  ScanAt(s, scan, i) = [scan EXCEPT !.quoted = ~scan.quoted]
<1>1. ~ (scan.failed \/ i < scan.next) /\ i >= scan.next
  BY DEF Scans
<1>2. QED
  BY <1>1 DEF ScanAt

LEMMA ScanCuts ==
  ASSUME NEW s, NEW scan \in Scans, NEW i \in Nat,
         ~scan.failed, scan.next <= i, s[i] # Quote, ~scan.quoted, ConnectorLen(s, i) > 0
  PROVE  ScanAt(s, scan, i) =
           [EndSegment(scan, s, i - 1) EXCEPT !.start = i + ConnectorLen(s, i),
                                              !.next = i + ConnectorLen(s, i)]
<1>1. ~ (scan.failed \/ i < scan.next) /\ i >= scan.next
  BY DEF Scans
<1>2. AtConnector(scan, s, i)
  BY DEF AtConnector
<1>3. QED
  BY <1>1, <1>2 DEF ScanAt

LEMMA ScanPasses ==
  ASSUME NEW s, NEW scan \in Scans, NEW i \in Nat,
         ~scan.failed, scan.next <= i, s[i] # Quote, scan.quoted \/ ~ (ConnectorLen(s, i) > 0)
  PROVE  ScanAt(s, scan, i) = [scan EXCEPT !.failed = ~scan.quoted /\ IsShell(s[i])]
<1>1. ~ (scan.failed \/ i < scan.next) /\ i >= scan.next
  BY DEF Scans
<1>2. ~AtConnector(scan, s, i)
  BY DEF AtConnector
<1>3. QED
  BY <1>1, <1>2 DEF ScanAt

LEMMA ScanStep ==
  ASSUME NEW s \in Seq(Tokens), NEW k \in 0..Len(s), k < Len(s), NEW scan, Scanned(scan, s, k)
  PROVE  Scanned(ScanAt(s, scan, k + 1), s, k + 1)
<1> DEFINE i == k + 1
           next == ScanAt(s, scan, i)
<1>1. /\ scan \in Scans /\ scan.start \in Nat /\ scan.next \in Nat
      /\ scan.quoted \in BOOLEAN /\ scan.failed \in BOOLEAN
  BY DEF Scanned, Scans
<1>2. /\ i \in 1..Len(s) /\ i \in Nat /\ i >= 1 /\ k \in Nat /\ i - 1 = k
      /\ (i + 1) - 1 = i /\ Len(s) \in Nat /\ i \in DOMAIN s
  OBVIOUS
<1>3. CASE scan.failed
  <2>1. next = scan
    BY <1>1, <1>2, <1>3, ScanStays
  <2>2. QED
    BY <1>3, <2>1 DEF Scanned
<1>4. CASE ~scan.failed
  <2>1. /\ scan.quoted <=> Quoted(s, i)
        /\ scan.next = scan.start
        /\ GoesOnAt(s, scan.start, k)
        /\ OpensHere(s, scan.start, k)
        /\ HoldsUpTo(scan.segments, s, k)
        /\ NoStrayUpTo(s, k)
    BY <1>4 DEF Scanned
  <2>2. Quoted(s, i + 1) <=> IF s[i] = Quote THEN ~Quoted(s, i) ELSE Quoted(s, i)
    BY <1>2, QuotedNext
  <2>3. \A c \in CutsUpTo(s, k) : c \in Cuts(s) /\ c <= k /\ Ends(s, c) < scan.start
    BY <2>1 DEF GoesOnAt, CutsUpTo
  <2>4. CASE i < scan.start
    <3>1. next = scan
      BY <1>1, <1>2, <2>1, <2>4, ScanStays
    <3>2. scan.start = k + 2 /\ k \in Cuts(s) /\ Ends(s, k) = k + 1
      BY <1>2, <2>1, <2>4, GoesOnAtIs
    <3>3. k \in 1..Len(s) /\ s[i] = "&" /\ AtOddPlace(s, k) /\ ~Quoted(s, i)
      BY <3>2, CutIs
    <3>4. ~AtOddPlace(s, i)
      BY <3>3, PairIsClosed
    <3>5. i \notin Cuts(s)
      BY <3>3, <3>4, CutIs
    <3>6. ~Stray(s, i)
      BY <1>2, <3>2 DEF Stray
    <3>7. /\ GoesOnAt(s, scan.start, i) /\ HoldsUpTo(scan.segments, s, i) /\ NoStrayUpTo(s, i)
      BY <2>1, <3>5, <3>6, NoCutHere
    <3>8. scan.quoted <=> Quoted(s, i + 1)
      BY <2>1, <2>2, <3>3, MarksAre
    <3>9. OpensHere(s, scan.start, i)
      <4> SUFFICES ASSUME s[i + 1] = "&" PROVE scan.start <= i + 1 <=> AtOddPlace(s, i + 1)
        BY DEF OpensHere
      <4>1. AtOddPlace(s, i + 1)
        BY <1>2, <3>3, <3>4, PairIsOpened
      <4>2. QED
        BY <1>2, <3>2, <4>1
    <3>10. QED
      BY <1>1, <1>4, <2>1, <3>1, <3>7, <3>8, <3>9 DEF Scanned
  <2>5. CASE scan.start <= i /\ s[i] = Quote
    <3>1. next = [scan EXCEPT !.quoted = ~scan.quoted]
      <4>1. i \in Nat /\ ~scan.failed /\ scan.next <= i /\ s[i] = Quote
        BY <1>2, <1>4, <2>1, <2>5
      <4> HIDE DEF i
      <4>2. QED
        BY <1>1, <4>1, ScanTurns
    <3>2. /\ next \in Scans /\ ~next.failed /\ next.quoted = ~scan.quoted
          /\ next.next = scan.next /\ next.start = scan.start /\ next.segments = scan.segments
      BY <1>1, <1>4, <3>1 DEF Scans
    <3>3. i \notin Cuts(s)
      BY <2>5, CutIs
    <3>4. ~Stray(s, i)
      BY <2>5, MarksAre DEF Stray, IsShell
    <3>5. /\ GoesOnAt(s, scan.start, i) /\ HoldsUpTo(scan.segments, s, i) /\ NoStrayUpTo(s, i)
      BY <2>1, <3>3, <3>4, NoCutHere
    <3>6. OpensHere(s, scan.start, i)
      <4> SUFFICES ASSUME s[i + 1] = "&" PROVE scan.start <= i + 1 <=> AtOddPlace(s, i + 1)
        BY DEF OpensHere
      <4>1. s[i] # "&"
        BY <2>5, MarksAre
      <4> HIDE DEF i
      <4>2. s[(i + 1) - 1] # "&" /\ i + 1 \in Nat /\ i + 1 >= 1
        BY <1>2, <4>1
      <4>3. AtOddPlace(s, i + 1)
        BY <4>2, RunBegins
      <4>4. QED
        BY <1>1, <1>2, <2>5, <4>3
    <3>7. next.quoted <=> Quoted(s, i + 1)
      BY <2>1, <2>2, <2>5, <3>2
    <3> HIDE DEF next
    <3>8. QED
      BY <2>1, <3>2, <3>5, <3>6, <3>7 DEF Scanned, next
  <2>6. CASE scan.start <= i /\ s[i] # Quote /\ ~scan.quoted /\ ConnectorLen(s, i) > 0
    <3> DEFINE ended == EndSegment(scan, s, k)
               after == i + ConnectorLen(s, i)
    <3>1. next = [ended EXCEPT !.start = after, !.next = after]
      <4>1. /\ i \in Nat /\ ~scan.failed /\ scan.next <= i /\ s[i] # Quote /\ ~scan.quoted
            /\ ConnectorLen(s, i) > 0 /\ i - 1 = k
        BY <1>2, <1>4, <2>1, <2>6
      <4> HIDE DEF i
      <4>2. next = [EndSegment(scan, s, i - 1) EXCEPT !.start = after, !.next = after]
        BY <1>1, <4>1, ScanCuts
      <4>3. QED
        BY <4>1, <4>2
    <3>2. ConnectorLen(s, i) \in {1, 2}
      BY <1>2, <2>6, ConnectorIs
    <3>3. ConnectorLen(s, i) = 2 => s[i] = "&" /\ AtOddPlace(s, i)
      <4> SUFFICES ASSUME ConnectorLen(s, i) = 2 PROVE s[i] = "&" /\ AtOddPlace(s, i)
        OBVIOUS
      <4>1. s[i] = "&"
        BY <1>2, ConnectorIs
      <4>2. QED
        BY <1>2, <2>1, <2>6, <4>1 DEF OpensHere
    <3>4. i \in Cuts(s)
      BY <1>2, <2>1, <2>6, <3>2, <3>3, PairIs DEF Cuts
    <3>5. /\ ended \in Scans
          /\ ended.failed => IsBroken(s)
          /\ ~ended.failed =>
               /\ ended.quoted = scan.quoted
               /\ Len(ended.segments) = Cardinality(CutsUpTo(s, k)) + 1
               /\ \A p \in Pieces(s, Cuts(s)) :
                    p[2] = k \/ p[2] + 1 \in CutsUpTo(s, k) => Holds(ended.segments, s, p)
      BY <1>1, <1>4, <2>1, <2>6, <3>4, SegmentEnds
    <3>6. after \in Nat /\ after = Ends(s, i) + 1
      BY <1>2, <3>2 DEF Ends
    <3> HIDE DEF ended, after
    <3>7. /\ next \in Scans /\ next.failed = ended.failed /\ next.quoted = ended.quoted
          /\ next.next = after /\ next.start = after /\ next.segments = ended.segments
      BY <3>1, <3>5, <3>6 DEF Scans
    <3>8. CASE ended.failed
      BY <3>5, <3>7, <3>8 DEF Scanned
    <3>9. CASE ~ended.failed
      <4>1. CutsUpTo(s, i) = CutsUpTo(s, k) \cup {i}
        BY <1>2, <3>4, CutsCounted
      <4>2. Cardinality(CutsUpTo(s, i)) = Cardinality(CutsUpTo(s, k)) + 1
        BY <1>2, <3>4, CutsCounted
      <4>3. GoesOnAt(s, after, i)
        <5>1. \A c \in CutsUpTo(s, i) : Ends(s, c) < after
          <6> SUFFICES ASSUME NEW c \in CutsUpTo(s, i) PROVE Ends(s, c) < after
            OBVIOUS
          <6>1. CASE c = i
            <7>1. Ends(s, i) \in Nat
              BY <3>4, CutIs
            <7>2. QED
              BY <3>6, <6>1, <7>1
          <6>2. CASE c \in CutsUpTo(s, k)
            <7>1. c \in Cuts(s) /\ c < i
              BY <1>2, <2>3, <6>2, CutIs
            <7>2. Ends(s, c) < i /\ Ends(s, c) \in Nat
              BY <3>4, <7>1, CutsAreApart, CutIs
            <7>3. i <= Ends(s, i) /\ Ends(s, i) \in Nat
              BY <3>4, CutIs
            <7>4. QED
              BY <1>2, <3>6, <7>2, <7>3
          <6>3. QED
            BY <4>1, <6>1, <6>2
        <5>2. i \in CutsUpTo(s, i)
          BY <4>1
        <5>3. QED
          BY <3>6, <5>1, <5>2 DEF GoesOnAt
      <4>4. HoldsUpTo(next.segments, s, i)
        <5>1. ASSUME NEW p \in Pieces(s, Cuts(s)), p[2] + 1 \in CutsUpTo(s, i)
              PROVE  p[2] = k \/ p[2] + 1 \in CutsUpTo(s, k)
          <6>1. CASE p[2] + 1 = i
            <7>1. p[2] \in Int
              <8>1. p[2] = Len(s) \/ \E c \in Cuts(s) : p[2] = c - 1
                BY PieceIs
              <8>2. QED
                BY <1>2, <8>1, CutIs
            <7>2. QED
              BY <1>2, <6>1, <7>1
          <6>2. QED
            BY <4>1, <5>1, <6>1
        <5>2. QED
          BY <3>5, <3>7, <3>9, <4>2, <5>1 DEF HoldsUpTo
      <4>5. NoStrayUpTo(s, i)
        <5>1. ~Stray(s, i)
          <6>1. i <= Ends(s, i) /\ Ends(s, i) \in Nat
            BY <3>4, CutIs
          <6>2. QED
            BY <1>2, <3>4, <6>1 DEF Stray
        <5>2. \A j \in 1..i : j = i \/ j \in 1..k
          BY <1>2
        <5>3. QED
          BY <2>1, <5>1, <5>2 DEF NoStrayUpTo
      <4>6. OpensHere(s, after, i)
        <5> SUFFICES ASSUME s[i + 1] = "&" PROVE after <= i + 1 <=> AtOddPlace(s, i + 1)
          BY DEF OpensHere
        <5>1. CASE ConnectorLen(s, i) = 2
          <6>1. ~AtOddPlace(s, i + 1)
            BY <1>2, <3>3, <5>1, PairIsClosed
          <6>2. QED
            BY <1>2, <5>1, <6>1 DEF after
        <5>2. CASE ConnectorLen(s, i) = 1
          <6>1. s[i] # "&"
            BY <1>2, <5>2, ConnectorIs, MarksAre
          <6>2. s[(i + 1) - 1] # "&" /\ i + 1 \in Nat /\ i + 1 >= 1
            BY <1>2, <6>1
          <6>3. AtOddPlace(s, i + 1)
            BY <6>2, RunBegins
          <6>4. QED
            BY <1>2, <5>2, <6>3 DEF after
        <5>3. QED
          BY <3>2, <5>1, <5>2
      <4>7. next.quoted <=> Quoted(s, i + 1)
        BY <2>1, <2>2, <2>6, <3>5, <3>7, <3>9
      <4> HIDE DEF next
      <4>8. QED
        BY <3>7, <3>9, <4>3, <4>4, <4>5, <4>6, <4>7 DEF Scanned, next
    <3>10. QED
      BY <3>8, <3>9
  <2>7. CASE scan.start <= i /\ s[i] # Quote /\ (scan.quoted \/ ~ (ConnectorLen(s, i) > 0))
    <3>1. next = [scan EXCEPT !.failed = ~scan.quoted /\ IsShell(s[i])]
      BY <1>1, <1>2, <1>4, <2>1, <2>7, ScanPasses
    <3>2. /\ next \in Scans /\ next.failed = (~scan.quoted /\ IsShell(s[i]))
          /\ next.quoted = scan.quoted
          /\ next.next = scan.next /\ next.start = scan.start /\ next.segments = scan.segments
      <4> DEFINE b == ~scan.quoted /\ IsShell(s[i])
      <4>1. b \in BOOLEAN
        BY <1>1
      <4> HIDE DEF b
      <4>2. next = [scan EXCEPT !.failed = b]
        BY <3>1 DEF b
      <4> HIDE DEF next
      <4>3. /\ next \in Scans /\ next.failed = b /\ next.quoted = scan.quoted
            /\ next.next = scan.next /\ next.start = scan.start /\ next.segments = scan.segments
        BY <1>1, <4>1, <4>2 DEF Scans
      <4>4. QED
        BY <4>3 DEF b
    <3>3. i \notin Cuts(s)
      BY <2>1, <2>7, CutIs
    <3>4. CASE ~scan.quoted /\ IsShell(s[i])
      <4>1. \A c \in Cuts(s) : i < c \/ i > Ends(s, c)
        <5> SUFFICES ASSUME NEW c \in Cuts(s), ~ (i < c) PROVE i > Ends(s, c)
          OBVIOUS
        <5>1. c \in 1..Len(s) /\ Ends(s, c) \in Nat
          BY CutIs
        <5>2. c <= k
          BY <1>2, <3>3, <5>1
        <5>3. Ends(s, c) < scan.start
          BY <2>1, <5>2 DEF GoesOnAt, CutsUpTo
        <5>4. QED
          BY <1>1, <1>2, <2>7, <5>1, <5>3
      <4>2. Stray(s, i)
        BY <2>1, <3>4, <4>1 DEF Stray
      <4>3. IsBroken(s)
        BY <1>2, <4>2 DEF IsBroken
      <4> HIDE DEF next
      <4>4. QED
        BY <3>2, <3>4, <4>3 DEF Scanned, next
    <3>5. CASE scan.quoted \/ ~IsShell(s[i])
      <4>1. ~Stray(s, i)
        BY <2>1, <3>5 DEF Stray
      <4>2. /\ GoesOnAt(s, scan.start, i) /\ HoldsUpTo(scan.segments, s, i) /\ NoStrayUpTo(s, i)
        BY <2>1, <3>3, <4>1, NoCutHere
      <4>3. OpensHere(s, scan.start, i)
        <5> SUFFICES ASSUME i + 1 <= Len(s), s[i + 1] = "&", ~Quoted(s, i + 1)
                     PROVE  scan.start <= i + 1 <=> AtOddPlace(s, i + 1)
          BY DEF OpensHere
        <5>1. ~scan.quoted
          BY <2>1, <2>2, <2>7
        <5>2. ConnectorLen(s, i) # 2
          BY <2>7, <5>1
        <5>3. s[i] # "&"
          BY <1>2, <5>2, ConnectorIs
        <5>4. s[(i + 1) - 1] # "&" /\ i + 1 \in Nat /\ i + 1 >= 1
          BY <1>2, <5>3
        <5>5. AtOddPlace(s, i + 1)
          BY <5>4, RunBegins
        <5>6. QED
          BY <1>1, <1>2, <2>7, <5>5
      <4>4. next.quoted <=> Quoted(s, i + 1)
        BY <2>1, <2>2, <2>7, <3>2
      <4> HIDE DEF next
      <4>5. QED
        BY <2>1, <3>2, <3>5, <4>2, <4>3, <4>4 DEF Scanned, next
    <3>6. QED
      BY <1>1, <3>4, <3>5
  <2>8. QED
    BY <1>1, <1>2, <2>4, <2>5, <2>6, <2>7
<1>5. QED
  BY <1>3, <1>4

\* The function by which ScanOf is defined, on the first places of a prompt.
IsScan(scan, s, n) ==
  scan = [i \in 0..n |-> IF i = 0 THEN Scan ELSE ScanAt(s, scan[i - 1], i)]

LEMMA ScanExists ==
  ASSUME NEW s, NEW n \in Nat
  PROVE  \E scan : IsScan(scan, s, n)
<1> DEFINE T == {k \in Nat : \E scan : IsScan(scan, s, k)}
<1>1. 0 \in T
  <2>1. IsScan([i \in 0..0 |-> Scan], s, 0)
    BY DEF IsScan
  <2>2. QED
    BY <2>1
<1>2. ASSUME NEW k \in Nat, k \in T PROVE k + 1 \in T
  <2>1. PICK scan : IsScan(scan, s, k)
    BY <1>2
  <2> DEFINE last == ScanAt(s, scan[k], k + 1)
             next == [i \in 0..(k + 1) |-> IF i = k + 1 THEN last ELSE scan[i]]
             step(f, i) == IF i = 0 THEN Scan ELSE ScanAt(s, f[i - 1], i)
  <2>2. ASSUME NEW i \in 0..(k + 1)
        PROVE  next[i] = step(next, i)
    <3>1. CASE i = k + 1
      <4>1. next[i] = last /\ next[i - 1] = scan[k] /\ i # 0
        BY <3>1
      <4> HIDE DEF next
      <4>2. QED
        BY <3>1, <4>1
    <3>2. CASE i \in 0..k
      <4>1. next[i] = scan[i] /\ (i # 0 => next[i - 1] = scan[i - 1])
        BY <3>2
      <4>2. scan[i] = step(scan, i)
        BY <2>1, <3>2 DEF IsScan
      <4> HIDE DEF next
      <4>3. QED
        BY <4>1, <4>2
    <3>3. QED
      BY <3>1, <3>2
  <2>3. next = [i \in 0..(k + 1) |-> next[i]]
    OBVIOUS
  <2> HIDE DEF next
  <2>4. IsScan(next, s, k + 1)
    BY <2>2, <2>3 DEF IsScan
  <2>5. QED
    BY <2>4
<1> HIDE DEF T
<1>3. Nat \subseteq T
  BY <1>1, <1>2, SetInduction
<1>4. QED
  BY <1>3 DEF T

LEMMA ScanBegins ==
  ASSUME NEW s \in Seq(Tokens)
  PROVE  Scanned(Scan, s, 0)
<1>1. Scan \in Scans /\ ~Scan.failed /\ Scan.start = 1 /\ Scan.next = 1 /\ ~Scan.quoted
      /\ Scan.segments = <<>>
  BY DEF Scan, Scans, Segments
<1>2. CutsUpTo(s, 0) = {}
  <2> SUFFICES ASSUME NEW c \in Cuts(s), c <= 0 PROVE FALSE
    BY DEF CutsUpTo
  <2>1. QED
    BY CutIs
<1>3. GoesOnAt(s, 1, 0)
  BY <1>2 DEF GoesOnAt
<1>4. OpensHere(s, 1, 0)
  <2> SUFFICES ASSUME s[0 + 1] = "&" PROVE 1 <= 0 + 1 <=> AtOddPlace(s, 0 + 1)
    BY DEF OpensHere
  <2>1. AtOddPlace(s, 1)
    BY RunBegins
  <2>2. QED
    BY <2>1
<1>5. HoldsUpTo(<<>>, s, 0)
  BY <1>2, FS_EmptySet DEF HoldsUpTo
<1>6. NoStrayUpTo(s, 0)
  BY DEF NoStrayUpTo
<1>7. ~Quoted(s, 0 + 1)
  BY NotQuotedAtFirst
<1>8. QED
  BY <1>1, <1>3, <1>4, <1>5, <1>6, <1>7 DEF Scanned

LEMMA PromptIsScanned ==
  ASSUME NEW s \in Seq(Tokens)
  PROVE  Scanned(ScanOf(s), s, Len(s))
<1> DEFINE n == Len(s)
           scan == CHOOSE f : IsScan(f, s, n)
<1>1. n \in Nat
  OBVIOUS
<1>2. IsScan(scan, s, n)
  BY <1>1, ScanExists
<1>3. ScanOf(s) = scan[n]
  BY DEF ScanOf, IsScan
<1> HIDE DEF scan
<1> DEFINE T == {k \in Nat : k <= n => Scanned(scan[k], s, k)}
<1>4. 0 \in T
  <2>1. scan[0] = Scan
    BY <1>1, <1>2 DEF IsScan
  <2>2. QED
    BY <2>1, ScanBegins
<1>5. ASSUME NEW k \in Nat, k \in T PROVE k + 1 \in T
  <2> SUFFICES ASSUME k + 1 <= n PROVE Scanned(scan[k + 1], s, k + 1)
    OBVIOUS
  <2>1. k \in 0..n /\ k < n /\ k <= n /\ k + 1 \in 0..n /\ k + 1 # 0 /\ (k + 1) - 1 = k
    OBVIOUS
  <2>2. scan[k + 1] = ScanAt(s, scan[k], k + 1)
    BY <1>2, <2>1 DEF IsScan
  <2>3. Scanned(scan[k], s, k)
    BY <1>5, <2>1
  <2>4. QED
    BY <2>1, <2>2, <2>3, ScanStep
<1> HIDE DEF T
<1>6. Nat \subseteq T
  BY <1>4, <1>5, SetInduction
<1>7. n \in T /\ n <= n
  BY <1>1, <1>6
<1>8. QED
  BY <1>3, <1>7 DEF T

\* How a prompt is split, by the definition that does not follow the scan.
IsSplitAtCuts(split, s) ==
  /\ split.segments \in Segments
  /\ split.failed <=> Quoted(s, Len(s) + 1) \/ IsBroken(s)
  /\ ~split.failed =>
       /\ Len(split.segments) = Cardinality(Cuts(s)) + 1
       /\ \A p \in Pieces(s, Cuts(s)) :
            split.segments[1 + Cardinality(CutsBefore(s, p[1]))] = Piece(s, p)

LEMMA PromptIsSplit ==
  ASSUME NEW s \in Seq(Tokens)
  PROVE  IsSplitAtCuts(SplitPrompt(s), s)
<1> DEFINE n == Len(s)
           scan == ScanOf(s)
           ended == EndSegment(scan, s, n)
           refused == [scan EXCEPT !.failed = TRUE]
<1>1. Scanned(scan, s, n)
  BY PromptIsScanned
<1>2. SplitPrompt(s) = IF scan.failed \/ scan.quoted THEN refused ELSE ended
  BY DEF SplitPrompt
<1> HIDE DEF scan
<1>3. scan \in Scans /\ scan.failed \in BOOLEAN /\ scan.quoted \in BOOLEAN
      /\ scan.segments \in Segments /\ scan.start \in Nat
  BY <1>1 DEF Scanned, Scans
<1>4. refused.failed /\ refused.segments = scan.segments
  BY <1>3 DEF Scans
<1>5. n \in Nat /\ n \in 0..n
  OBVIOUS
<1> HIDE DEF ended, refused
<1>6. CASE scan.failed
  <2>1. IsBroken(s)
    BY <1>1, <1>6 DEF Scanned
  <2>2. QED
    BY <1>2, <1>3, <1>4, <1>6, <2>1 DEF IsSplitAtCuts
<1>7. CASE ~scan.failed /\ scan.quoted
  <2>1. Quoted(s, n + 1)
    BY <1>1, <1>7 DEF Scanned
  <2>2. QED
    BY <1>2, <1>3, <1>4, <1>7, <2>1 DEF IsSplitAtCuts
<1>8. CASE ~scan.failed /\ ~scan.quoted
  <2>1. /\ ~Quoted(s, n + 1) /\ GoesOnAt(s, scan.start, n)
        /\ HoldsUpTo(scan.segments, s, n) /\ NoStrayUpTo(s, n)
    BY <1>1, <1>8 DEF Scanned
  <2>2. scan.start <= n + 1
    BY <1>5, <2>1, GoesOnAtIs
  <2>3. /\ ended \in Scans
        /\ ended.failed => IsBroken(s)
        /\ ~ended.failed =>
             /\ Len(ended.segments) = Cardinality(CutsUpTo(s, n)) + 1
             /\ \A p \in Pieces(s, Cuts(s)) :
                  p[2] = n \/ p[2] + 1 \in CutsUpTo(s, n) => Holds(ended.segments, s, p)
    BY <1>3, <1>5, <1>8, <2>1, <2>2, SegmentEnds DEF ended
  <2>4. CutsUpTo(s, n) = Cuts(s)
    BY CutIs DEF CutsUpTo
  <2>5. ASSUME NEW p \in Pieces(s, Cuts(s))
        PROVE  p[2] = n \/ p[2] + 1 \in CutsUpTo(s, n)
    <3>1. p[2] = n \/ \E c \in Cuts(s) : p[2] = c - 1
      BY PieceIs
    <3>2. \A c \in Cuts(s) : (c - 1) + 1 = c
      BY CutIs
    <3>3. QED
      BY <2>4, <3>1, <3>2
  <2>6. SplitPrompt(s) = ended /\ ended.segments \in Segments /\ ended.failed \in BOOLEAN
    BY <1>2, <1>8, <2>3 DEF Scans
  <2>7. CASE ended.failed
    BY <2>3, <2>6, <2>7 DEF IsSplitAtCuts
  <2>8. CASE ~ended.failed
    <3>1. \A p \in Pieces(s, Cuts(s)) : Holds(ended.segments, s, p)
      BY <2>3, <2>5, <2>8
    <3>2. ~IsBroken(s)
      <4>1. DOMAIN s = 1..n
        OBVIOUS
      <4>2. \A i \in DOMAIN s : ~Stray(s, i)
        BY <2>1, <4>1 DEF NoStrayUpTo
      <4>3. QED
        BY <3>1, <4>2 DEF IsBroken, Holds
    <3>3. QED
      BY <2>1, <2>3, <2>4, <2>6, <2>8, <3>1, <3>2 DEF IsSplitAtCuts, Holds
  <2>9. QED
    BY <2>6, <2>7, <2>8
<1>9. QED
  BY <1>3, <1>6, <1>7, <1>8

LEMMA SplitIsAtCuts ==
  ASSUME Trim(prompt) \in Seq(Tokens)
  PROVE  SplitsAtUnquotedConnectors
<1> DEFINE s == Trim(prompt)
           split == SplitPrompt(s)
           cuts == Cuts(s)
           pieces == Pieces(s, cuts)
<1>1. IsSplitAtCuts(split, s)
  BY PromptIsSplit
<1>2. \A x : {c \in cuts : c < x} = CutsBefore(s, x)
  BY DEF CutsBefore
<1>3. IsBroken(s) <=>
        \/ \E p \in pieces : Piece(s, p) = <<>>
        \/ \E i \in DOMAIN s : /\ IsShell(s[i]) /\ ~Quoted(s, i)
                               /\ \A c \in cuts : i < c \/ i > Ends(s, c)
  BY DEF IsBroken, Stray
<1> HIDE DEF s
<1>4. /\ split.failed <=>
           \/ Quoted(s, Len(s) + 1)
           \/ \E p \in pieces : Piece(s, p) = <<>>
           \/ \E i \in DOMAIN s : /\ IsShell(s[i]) /\ ~Quoted(s, i)
                                  /\ \A c \in cuts : i < c \/ i > Ends(s, c)
      /\ ~split.failed =>
           /\ Len(split.segments) = Cardinality(cuts) + 1
           /\ \A p \in pieces :
                split.segments[1 + Cardinality({c \in cuts : c < p[1]})] = Piece(s, p)
  <2>1. split.failed <=>
           \/ Quoted(s, Len(s) + 1)
           \/ \E p \in pieces : Piece(s, p) = <<>>
           \/ \E i \in DOMAIN s : /\ IsShell(s[i]) /\ ~Quoted(s, i)
                                  /\ \A c \in cuts : i < c \/ i > Ends(s, c)
    BY <1>1, <1>3 DEF IsSplitAtCuts
  <2>2. ~split.failed =>
           /\ Len(split.segments) = Cardinality(cuts) + 1
           /\ \A p \in pieces :
                split.segments[1 + Cardinality({c \in cuts : c < p[1]})] = Piece(s, p)
    BY <1>1, <1>2 DEF IsSplitAtCuts
  <2>3. QED
    BY <2>1, <2>2
<1> QED
  BY <1>4 DEF SplitsAtUnquotedConnectors, s

-----------------------------------------------------------------------------
(***************************************************************************)
(* A step, as it is written, alone and joined to another one.              *)
(***************************************************************************)
\* A text is found in a prompt, behind so many tokens.
Occurs(s, a, w) == a + Len(w) <= Len(s) /\ \A i \in 1..Len(w) : s[a + i] = w[i]

LEMMA TrimStartIs ==
  ASSUME NEW S, NEW s \in Seq(S), NEW a \in Nat, a < Len(s), s[a + 1] # Blank,
         \A j \in 1..a : s[j] = Blank
  PROVE  /\ TrimStart(s) \in Seq(S) /\ Len(TrimStart(s)) = Len(s) - a
         /\ \A i \in 1..(Len(s) - a) : TrimStart(s)[i] = s[a + i]
<1> DEFINE first == CHOOSE i \in DOMAIN s : s[i] # Blank /\ \A j \in 1..(i - 1) : s[j] = Blank
           n == Len(s)
<1>1. n \in Nat /\ DOMAIN s = 1..n /\ a + 1 \in 1..n /\ (a + 1) - 1 = a
  OBVIOUS
<1>2. TrimStart(s) = SubSeq(s, first, n)
  <2>1. \E i \in DOMAIN s : s[i] # Blank
    BY <1>1
  <2>2. QED
    BY <2>1 DEF TrimStart, From
<1>3. first \in 1..n /\ s[first] # Blank /\ \A j \in 1..(first - 1) : s[j] = Blank
  <2> DEFINE Leads(i) == s[i] # Blank /\ \A j \in 1..(i - 1) : s[j] = Blank
  <2>1. Leads(a + 1)
    BY <1>1
  <2>2. first = CHOOSE i \in 1..n : Leads(i)
    BY <1>1
  <2> HIDE DEF first, Leads, n
  <2>3. first \in 1..n /\ Leads(first)
    BY <1>1, <2>1, <2>2
  <2>4. QED
    BY <2>3 DEF Leads
<1> HIDE DEF first
<1>4. first = a + 1
  <2>1. ~ (first < a + 1)
    BY <1>1, <1>3
  <2>2. ~ (a + 1 < first)
    <3> SUFFICES ASSUME a + 1 < first PROVE FALSE
      OBVIOUS
    <3>1. a + 1 \in 1..(first - 1)
      BY <1>1, <1>3
    <3>2. QED
      BY <1>3, <3>1
  <2>3. QED
    BY <1>1, <1>3, <2>1, <2>2
<1> DEFINE t == SubSeq(s, a + 1, n)
<1>5. t \in Seq(S) /\ Len(t) = n - a /\ \A i \in 1..(n - a) : t[i] = s[(a + 1) + i - 1]
  <2>1. \A i \in (a + 1)..n : s[i] \in S
    BY <1>1
  <2>2. /\ t \in Seq(S) /\ Len(t) = IF a + 1 <= n THEN n - (a + 1) + 1 ELSE 0
        /\ \A i \in 1..(n - (a + 1) + 1) : t[i] = s[(a + 1) + i - 1]
    <3>1. a + 1 \in Int /\ n \in Int
      BY <1>1
    <3> HIDE DEF n
    <3>2. QED
      BY <2>1, <3>1, SubSeqProperties
  <2>3. a + 1 <= n /\ n - (a + 1) + 1 = n - a
    BY <1>1
  <2> HIDE DEF t
  <2>4. QED
    BY <2>2, <2>3
<1>6. TrimStart(s) = t
  BY <1>2, <1>4
<1> HIDE DEF t
<1>7. \A i \in 1..(n - a) : (a + 1) + i - 1 = a + i
  BY <1>1
<1>8. QED
  BY <1>5, <1>6, <1>7

LEMMA ReverseIs ==
  ASSUME NEW S, NEW s \in Seq(S)
  PROVE  /\ Reverse(s) \in Seq(S) /\ Len(Reverse(s)) = Len(s)
         /\ \A i \in 1..Len(s) : Reverse(s)[i] = s[(Len(s) - i) + 1]
<1>1. Reverse(s) = [i \in 1..Len(s) |-> s[(Len(s) - i) + 1]] /\ Len(s) \in Nat
  BY DEF Reverse
<1>2. Reverse(s) \in Seq(S)
  BY ReverseType
<1>3. QED
  BY <1>1, <1>2

\* What is left of a text with blanks around it.
LEMMA TrimmedTo ==
  ASSUME NEW S, NEW s \in Seq(S), NEW w \in Seq(S), NEW a \in Nat,
         w # <<>>, w[1] # Blank, w[Len(w)] # Blank, Occurs(s, a, w),
         \A j \in 1..Len(s) : j <= a \/ a + Len(w) < j => s[j] = Blank
  PROVE  Trim(s) = w
<1> DEFINE n == Len(s)
           m == Len(w)
           u == TrimStart(s)
           r == Reverse(u)
           b == n - (a + m)
           v == TrimStart(r)
           t == Reverse(v)
<1>1. n \in Nat /\ m \in Nat /\ m >= 1 /\ a + m <= n /\ b \in Nat /\ \A i \in 1..m : s[a + i] = w[i]
  BY DEF Occurs
<1>2. u \in Seq(S) /\ Len(u) = n - a /\ \A i \in 1..(n - a) : u[i] = s[a + i]
  <2>1. a < n /\ s[a + 1] # Blank /\ \A j \in 1..a : s[j] = Blank
    BY <1>1
  <2>2. QED
    BY <2>1, TrimStartIs
<1> HIDE DEF u
<1>3. r \in Seq(S) /\ Len(r) = n - a /\ \A i \in 1..(n - a) : r[i] = u[((n - a) - i) + 1]
  <2>1. r \in Seq(S) /\ Len(r) = Len(u) /\ \A i \in 1..Len(u) : r[i] = u[(Len(u) - i) + 1]
    BY <1>2, ReverseIs
  <2> HIDE DEF r, n
  <2>2. QED
    BY <1>2, <2>1
<1> HIDE DEF r
<1>4. \A i \in 1..(n - a) : r[i] = s[(n - i) + 1]
  <2> SUFFICES ASSUME NEW i \in 1..(n - a) PROVE r[i] = s[(n - i) + 1]
    OBVIOUS
  <2>1. ((n - a) - i) + 1 \in 1..(n - a) /\ a + (((n - a) - i) + 1) = (n - i) + 1
    BY <1>1
  <2>2. QED
    BY <1>2, <1>3, <2>1
<1>5. v \in Seq(S) /\ Len(v) = m /\ \A i \in 1..m : v[i] = r[b + i]
  <2>1. b < n - a /\ b + 1 \in 1..(n - a) /\ (n - (b + 1)) + 1 = a + m /\ (n - a) - b = m
    BY <1>1
  <2>2. r[b + 1] # Blank
    <3>1. r[b + 1] = s[(n - (b + 1)) + 1]
      BY <1>4, <2>1
    <3>2. s[a + m] = w[m]
      BY <1>1
    <3>3. QED
      BY <2>1, <3>1, <3>2
  <2>3. \A j \in 1..b : r[j] = Blank
    <3> SUFFICES ASSUME NEW j \in 1..b PROVE r[j] = Blank
      OBVIOUS
    <3>1. j \in 1..(n - a) /\ (n - j) + 1 \in 1..n /\ a + m < (n - j) + 1
      BY <1>1
    <3>2. QED
      BY <1>4, <3>1
  <2> HIDE DEF b, n, m
  <2>4. b < Len(r)
    BY <1>3, <2>1
  <2>5. /\ v \in Seq(S) /\ Len(v) = Len(r) - b
        /\ \A i \in 1..(Len(r) - b) : v[i] = r[b + i]
    <3>1. b \in Nat /\ r \in Seq(S)
      BY <1>1, <1>3
    <3>2. QED
      BY <2>2, <2>3, <2>4, <3>1, TrimStartIs
  <2> HIDE DEF v
  <2>6. QED
    BY <1>3, <2>1, <2>5
<1> HIDE DEF v
<1>6. t \in Seq(S) /\ Len(t) = m /\ \A i \in 1..m : t[i] = v[(m - i) + 1]
  BY <1>5, ReverseIs
<1>7. \A i \in 1..m : t[i] = w[i]
  <2> SUFFICES ASSUME NEW i \in 1..m PROVE t[i] = w[i]
    OBVIOUS
  <2>1. /\ (m - i) + 1 \in 1..m /\ b + ((m - i) + 1) \in 1..(n - a)
        /\ (n - (b + ((m - i) + 1))) + 1 = a + i
    BY <1>1
  <2> HIDE DEF b, n, m, t
  <2>2. t[i] = r[b + ((m - i) + 1)]
    BY <1>5, <1>6, <2>1
  <2>3. r[b + ((m - i) + 1)] = s[a + i]
    BY <1>4, <2>1
  <2>4. QED
    BY <1>1, <2>2, <2>3
<1>8. Trim(s) = t
  BY DEF Trim, t, v, r, u
<1> HIDE DEF t
<1>9. t = w
  BY <1>6, <1>7, SeqEqual
<1>10. QED
  BY <1>8, <1>9

LEMMA BlankIsTrimmed == Trim(<<>>) = <<>> /\ TrimStart(<<>>) = <<>>
<1>1. TrimStart(<<>>) = <<>>
  BY DEF TrimStart
<1>2. Reverse(<<>>) = <<>>
  BY DEF Reverse
<1>3. QED
  BY <1>1, <1>2 DEF Trim

\* A step that stands for itself: neither a connector nor a character of the
\* shell is in it outside of quotes, and its quotes are closed.
IsStep(w) ==
  /\ w \in Seq(Tokens) /\ w # <<>> /\ w[1] # Blank /\ w[Len(w)] # Blank
  /\ ~Quoted(w, Len(w) + 1)
  /\ \A i \in 1..Len(w) :
       Quoted(w, i) \/ w[i] = Quote \/ (~IsShell(w[i]) /\ ~IsWordAt(w, i, ConnectorWords))

LEMMA QuotedInside ==
  ASSUME NEW s \in Seq(Tokens), NEW w \in Seq(Tokens), NEW a \in Nat, Occurs(s, a, w),
         ~Quoted(s, a + 1)
  PROVE  \A j \in 1..(Len(w) + 1) : Quoted(s, a + j) <=> Quoted(w, j)
<1> DEFINE m == Len(w)
           T == {k \in Nat : k + 1 <= m + 1 => (Quoted(s, a + (k + 1)) <=> Quoted(w, k + 1))}
<1>1. m \in Nat
  OBVIOUS
<1>2. 0 \in T
  <2>1. ~Quoted(w, 0 + 1) /\ a + (0 + 1) = a + 1
    BY NotQuotedAtFirst
  <2>2. QED
    BY <2>1
<1>3. ASSUME NEW k \in Nat, k \in T PROVE k + 1 \in T
  <2> SUFFICES ASSUME (k + 1) + 1 <= m + 1
               PROVE  Quoted(s, a + ((k + 1) + 1)) <=> Quoted(w, (k + 1) + 1)
    OBVIOUS
  <2>1. k + 1 \in 1..m /\ k + 1 <= m + 1
    BY <1>1
  <2>2. Quoted(s, a + (k + 1)) <=> Quoted(w, k + 1)
    BY <1>3, <2>1
  <2>3. s[a + (k + 1)] = w[k + 1]
    BY <2>1 DEF Occurs
  <2>4. Quoted(w, (k + 1) + 1) <=> IF w[k + 1] = Quote THEN ~Quoted(w, k + 1) ELSE Quoted(w, k + 1)
    <3>1. k + 1 \in Nat /\ k + 1 >= 1
      OBVIOUS
    <3>2. QED
      BY <3>1, QuotedNext
  <2>5. Quoted(s, (a + (k + 1)) + 1) <=>
          IF s[a + (k + 1)] = Quote THEN ~Quoted(s, a + (k + 1)) ELSE Quoted(s, a + (k + 1))
    <3>1. a + (k + 1) \in Nat /\ a + (k + 1) >= 1
      OBVIOUS
    <3>2. QED
      BY <3>1, QuotedNext
  <2>6. (a + (k + 1)) + 1 = a + ((k + 1) + 1)
    OBVIOUS
  <2>7. QED
    BY <2>2, <2>3, <2>4, <2>5, <2>6
<1> HIDE DEF T
<1>4. Nat \subseteq T
  BY <1>2, <1>3, SetInduction
<1>5. QED
  <2> SUFFICES ASSUME NEW j \in 1..(m + 1) PROVE Quoted(s, a + j) <=> Quoted(w, j)
    OBVIOUS
  <2>1. j - 1 \in Nat /\ (j - 1) + 1 = j /\ j <= m + 1
    BY <1>1
  <2>2. j - 1 \in T
    BY <1>4, <2>1
  <2>3. QED
    BY <2>1, <2>2 DEF T

\* Nothing is cut within a step, wherever it stands.
LEMMA NothingInside ==
  ASSUME NEW s \in Seq(Tokens), NEW w, IsStep(w), NEW a \in Nat, Occurs(s, a, w),
         ~Quoted(s, a + 1)
  PROVE  /\ \A j \in 1..Len(w) : a + j \notin Cuts(s) /\ ~Stray(s, a + j)
         /\ ~Quoted(s, a + (Len(w) + 1))
         /\ w[Len(w)] # "&"
<1>1. w \in Seq(Tokens) /\ Len(w) \in Nat /\ Len(w) \in 1..Len(w)
  BY DEF IsStep
<1>2. \A j \in 1..(Len(w) + 1) : Quoted(s, a + j) <=> Quoted(w, j)
  BY <1>1, QuotedInside
<1>3. Len(w) + 1 \in 1..(Len(w) + 1)
  BY <1>1
<1>4. ~Quoted(s, a + (Len(w) + 1))
  BY <1>2, <1>3 DEF IsStep
<1>5. ASSUME NEW j \in 1..Len(w)
      PROVE  a + j \notin Cuts(s) /\ ~Stray(s, a + j)
  <2>1. /\ s[a + j] = w[j] /\ a + j \in 1..Len(s) /\ j \in 1..(Len(w) + 1)
        /\ Quoted(s, a + j) <=> Quoted(w, j)
    BY <1>1, <1>2 DEF Occurs
  <2>2. CASE Quoted(w, j) \/ w[j] = Quote
    <3>1. a + j \notin Cuts(s)
      BY <2>1, <2>2, CutIs
    <3>2. ~Stray(s, a + j)
      BY <2>1, <2>2, MarksAre DEF Stray, IsShell
    <3>3. QED
      BY <3>1, <3>2
  <2>3. CASE ~Quoted(w, j) /\ w[j] # Quote
    <3>1. ~IsShell(w[j]) /\ ~IsWordAt(w, j, ConnectorWords)
      BY <2>3 DEF IsStep
    <3>2. ~IsWordAt(s, a + j, ConnectorWords)
      <4> SUFFICES ASSUME IsWordAt(s, a + j, ConnectorWords) PROVE IsWordAt(w, j, ConnectorWords)
        BY <3>1
      <4>1. /\ Lower[s[a + j]] \in ConnectorWords
            /\ a + j = 1 \/ s[(a + j) - 1] = Blank
            /\ a + j = Len(s) \/ s[(a + j) + 1] = Blank
        BY DEF IsWordAt
      <4>2. j = 1 \/ w[j - 1] = Blank
        <5> SUFFICES ASSUME j # 1 PROVE w[j - 1] = Blank
          OBVIOUS
        <5>1. j - 1 \in 1..Len(w) /\ a + (j - 1) = (a + j) - 1 /\ a + j # 1
          BY <1>1
        <5>2. s[a + (j - 1)] = w[j - 1]
          BY <5>1 DEF Occurs
        <5>3. QED
          BY <4>1, <5>1, <5>2
      <4>3. j = Len(w) \/ w[j + 1] = Blank
        <5> SUFFICES ASSUME j # Len(w) PROVE w[j + 1] = Blank
          OBVIOUS
        <5>1. j + 1 \in 1..Len(w) /\ a + (j + 1) = (a + j) + 1
          BY <1>1
        <5>2. s[a + (j + 1)] = w[j + 1] /\ a + j # Len(s)
          BY <1>1, <5>1 DEF Occurs
        <5>3. QED
          BY <4>1, <5>1, <5>2
      <4>4. QED
        BY <2>1, <4>1, <4>2, <4>3 DEF IsWordAt
    <3>3. s[a + j] # "&"
      BY <2>1, <3>1 DEF IsShell
    <3>4. a + j \notin Cuts(s)
      <4> SUFFICES ASSUME a + j \in Cuts(s) PROVE FALSE
        OBVIOUS
      <4>1. ConnectorLen(s, a + j) > 0
        BY CutIs
      <4>2. ConnectorLen(s, a + j) # 2
        BY <2>1, <3>3, ConnectorIs
      <4>3. QED
        BY <3>2, <3>3, <4>1 DEF ConnectorLen
    <3>5. ~Stray(s, a + j)
      BY <2>1, <3>1 DEF Stray
    <3>6. QED
      BY <3>4, <3>5
  <2>4. QED
    BY <2>2, <2>3
<1>6. w[Len(w)] # "&"
  <2> SUFFICES ASSUME w[Len(w)] = "&" PROVE FALSE
    OBVIOUS
  <2>1. Quoted(w, Len(w))
    BY <1>1, MarksAre DEF IsStep, IsShell
  <2>2. Quoted(w, Len(w) + 1)
    <3>1. w[Len(w)] # Quote
      BY DEF Quote
    <3>2. Len(w) \in Nat /\ Len(w) >= 1
      BY <1>1
    <3>3. QED
      BY <2>1, <3>1, <3>2, QuotedNext
  <2>3. QED
    BY <2>2 DEF IsStep
<1>7. QED
  BY <1>4, <1>5, <1>6

LEMMA IsPiece ==
  ASSUME NEW s, NEW a, NEW b,
         a = 1 \/ \E c \in Cuts(s) : a = Ends(s, c) + 1,
         b = Len(s) \/ \E c \in Cuts(s) : b = c - 1,
         a <= b + 1, \A c \in Cuts(s) : c < a \/ c > b
  PROVE  <<a, b>> \in Pieces(s, Cuts(s))
<1>1. PICK p : p = <<a, b>>
  OBVIOUS
<1>2. p[1] = a /\ p[2] = b /\ \E x, y : p = <<x, y>>
  BY <1>1
<1>3. p \in Pieces(s, Cuts(s))
  BY <1>2, PieceIs
<1>4. QED
  BY <1>1, <1>3

LEMMA PieceOf ==
  ASSUME NEW s, NEW a, NEW b
  PROVE  Piece(s, <<a, b>>) = Trim(SubSeq(s, a, b))
  BY DEF Piece

\* A step alone is one segment.
LEMMA StepAlone ==
  ASSUME NEW w, IsStep(w)
  PROVE  ~SplitPrompt(w).failed /\ SplitPrompt(w).segments = <<w>> /\ Trim(w) = w
<1> DEFINE n == Len(w)
           split == SplitPrompt(w)
<1>1. w \in Seq(Tokens) /\ n \in Nat /\ n >= 1 /\ w # <<>> /\ w[1] # Blank /\ w[n] # Blank
      /\ ~Quoted(w, n + 1)
  BY DEF IsStep
<1>2. Occurs(w, 0, w)
  BY <1>1 DEF Occurs
<1>3. ~Quoted(w, 0 + 1)
  BY NotQuotedAtFirst
<1>4. \A j \in 1..n : j \notin Cuts(w) /\ ~Stray(w, j)
  <2>1. \A j \in 1..n : 0 + j \notin Cuts(w) /\ ~Stray(w, 0 + j)
    BY <1>1, <1>2, <1>3, NothingInside
  <2>2. \A j \in 1..n : 0 + j = j
    OBVIOUS
  <2>3. QED
    BY <2>1, <2>2
<1>5. Cuts(w) = {}
  BY <1>1, <1>4, CutIs
<1>6. Trim(w) = w
  <2>1. \A j \in 1..Len(w) : j <= 0 \/ 0 + Len(w) < j => w[j] = Blank
    BY <1>1
  <2>2. QED
    BY <1>1, <1>2, <2>1, TrimmedTo
<1>7. Piece(w, <<1, n>>) = w
  <2>1. SubSeq(w, 1, n) = w
    <3> DEFINE t == SubSeq(w, 1, n)
    <3>1. t \in Seq(Tokens) /\ Len(t) = n /\ \A i \in 1..n : t[i] = w[i]
      BY <1>1
    <3> HIDE DEF t
    <3>2. t = w
      BY <1>1, <3>1, SeqEqual
    <3>3. QED
      BY <3>2 DEF t
  <2> HIDE DEF n
  <2>2. Piece(w, <<1, n>>) = Trim(SubSeq(w, 1, n))
    BY PieceOf
  <2>3. QED
    BY <1>6, <2>1, <2>2
<1>8. \A p \in Pieces(w, Cuts(w)) : p = <<1, n>>
  <2> SUFFICES ASSUME NEW p \in Pieces(w, Cuts(w)) PROVE p = <<1, n>>
    OBVIOUS
  <2>1. (\E a, b : p = <<a, b>>) /\ p[1] = 1 /\ p[2] = n
    BY <1>5, PieceIs
  <2>2. QED
    BY <2>1
<1>9. <<1, n>> \in Pieces(w, Cuts(w))
  <2>1. n = Len(w) /\ 1 <= n + 1 /\ \A c \in Cuts(w) : c < 1 \/ c > n
    BY <1>1, <1>5
  <2> HIDE DEF n
  <2>2. QED
    BY <2>1, IsPiece
<1>10. ~IsBroken(w)
  BY <1>1, <1>4, <1>7, <1>8 DEF IsBroken
<1>11. IsSplitAtCuts(split, w)
  BY <1>1, PromptIsSplit
<1>12. CutsBefore(w, <<1, n>>[1]) = {} /\ Cardinality({}) = 0
  BY <1>5, FS_EmptySet DEF CutsBefore
<1> HIDE DEF split, n
<1>13. ~split.failed /\ split.segments \in Segments /\ Len(split.segments) = 1 /\ split.segments[1] = w
  <2>1. ~split.failed
    BY <1>1, <1>10, <1>11 DEF IsSplitAtCuts, n
  <2>2. Len(split.segments) = 0 + 1
    BY <1>5, <1>11, <1>12, <2>1 DEF IsSplitAtCuts
  <2>3. split.segments[1 + 0] = Piece(w, <<1, n>>)
    BY <1>9, <1>11, <1>12, <2>1 DEF IsSplitAtCuts
  <2>4. split.segments \in Segments
    BY <1>11 DEF IsSplitAtCuts
  <2>5. QED
    BY <1>7, <2>1, <2>2, <2>3, <2>4
<1>14. split.segments = <<w>>
  BY <1>1, <1>13 DEF Segments
<1>15. QED
  BY <1>6, <1>13, <1>14 DEF split

\* A prompt with one cut is two segments.
LEMMA CutInTwo ==
  ASSUME NEW s \in Seq(Tokens), NEW one, NEW two, IsStep(one), IsStep(two),
         NEW c, Cuts(s) = {c}, Len(one) < c, Ends(s, c) = Len(one) + 2,
         NEW e \in Nat, Len(one) + 2 <= e, e + Len(two) = Len(s),
         Occurs(s, 0, one), Occurs(s, e, two), ~Quoted(s, Len(s) + 1),
         \A j \in 1..Len(s) : Len(one) < j /\ j < c => s[j] = Blank,
         \A j \in 1..Len(s) : Len(one) + 2 < j /\ j <= e => s[j] = Blank,
         \A j \in 1..Len(s) : ~Stray(s, j)
  PROVE  ~SplitPrompt(s).failed /\ SplitPrompt(s).segments = <<one, two>>
<1> DEFINE m == Len(one)
           n == Len(s)
           split == SplitPrompt(s)
           first == <<1, c - 1>>
           last == <<m + 3, n>>
<1>1. /\ one \in Seq(Tokens) /\ two \in Seq(Tokens) /\ m \in Nat /\ m >= 1 /\ n \in Nat
      /\ Len(two) \in Nat /\ Len(two) >= 1 /\ m + 3 <= n
      /\ one # <<>> /\ one[1] # Blank /\ one[m] # Blank
      /\ two # <<>> /\ two[1] # Blank /\ two[Len(two)] # Blank
  BY DEF IsStep
<1>2. c \in 1..n /\ c <= m + 2
  BY CutIs
<1>3. Piece(s, first) = one
  <2> DEFINE t == SubSeq(s, 1, c - 1)
  <2>1. t \in Seq(Tokens) /\ Len(t) = c - 1 /\ \A i \in 1..(c - 1) : t[i] = s[i]
    <3>1. c - 1 \in Nat /\ c - 1 <= Len(s)
      BY <1>1, <1>2
    <3>2. \A r \in Nat : r <= Len(s) =>
            /\ SubSeq(s, 1, r) \in Seq(Tokens) /\ Len(SubSeq(s, 1, r)) = r
            /\ \A i \in 1..r : SubSeq(s, 1, r)[i] = s[i]
      OBVIOUS
    <3>3. QED
      BY <3>1, <3>2
  <2> HIDE DEF t
  <2>2. Occurs(t, 0, one)
    <3> SUFFICES ASSUME NEW i \in 1..m PROVE t[0 + i] = one[i]
      BY <1>1, <1>2, <2>1 DEF Occurs
    <3>1. 0 + i = i /\ i \in 1..(c - 1)
      BY <1>1, <1>2
    <3>2. s[0 + i] = one[i]
      BY DEF Occurs
    <3>3. QED
      BY <2>1, <3>1, <3>2
  <2>3. \A j \in 1..Len(t) : j <= 0 \/ 0 + m < j => t[j] = Blank
    <3> SUFFICES ASSUME NEW j \in 1..(c - 1), m < j PROVE t[j] = Blank
      BY <1>1, <2>1
    <3>1. j \in 1..n /\ j < c
      BY <1>1, <1>2
    <3>2. QED
      BY <2>1, <3>1
  <2>4. Trim(t) = one
    BY <1>1, <2>1, <2>2, <2>3, TrimmedTo
  <2>5. QED
    BY <2>4 DEF Piece, t
<1>4. Piece(s, last) = two
  <2> DEFINE t == SubSeq(s, m + 3, n)
             a == e - (m + 2)
  <2>1. t \in Seq(Tokens) /\ Len(t) = n - (m + 2) /\ \A i \in 1..(n - (m + 2)) : t[i] = s[(m + 2) + i]
    BY <1>1
  <2> HIDE DEF t
  <2>2. a \in Nat
    BY <1>1
  <2>3. Occurs(t, a, two)
    <3>1. a + Len(two) <= Len(t)
      BY <1>1, <2>1
    <3>2. ASSUME NEW i \in 1..Len(two) PROVE t[a + i] = two[i]
      <4>1. a + i \in 1..(n - (m + 2)) /\ (m + 2) + (a + i) = e + i
        BY <1>1, <2>2
      <4>2. s[e + i] = two[i]
        BY DEF Occurs
      <4>3. QED
        BY <2>1, <4>1, <4>2
    <3>3. QED
      BY <3>1, <3>2 DEF Occurs
  <2>4. \A j \in 1..Len(t) : j <= a \/ a + Len(two) < j => t[j] = Blank
    <3> SUFFICES ASSUME NEW j \in 1..(n - (m + 2)), j <= a \/ a + Len(two) < j PROVE t[j] = Blank
      BY <2>1
    <3>1. j <= a /\ (m + 2) + j \in 1..n /\ m + 2 < (m + 2) + j /\ (m + 2) + j <= e
      BY <1>1, <2>2
    <3>2. s[(m + 2) + j] = Blank
      BY <3>1
    <3>3. QED
      BY <2>1, <3>2
  <2> HIDE DEF a
  <2>5. Trim(t) = two
    BY <1>1, <2>1, <2>2, <2>3, <2>4, TrimmedTo
  <2>6. QED
    BY <2>5 DEF Piece, t
<1>5. \A p \in Pieces(s, Cuts(s)) : p = first \/ p = last
  <2> SUFFICES ASSUME NEW p \in Pieces(s, Cuts(s)) PROVE p = first \/ p = last
    OBVIOUS
  <2>1. /\ \E a, b : p = <<a, b>>
        /\ p[1] = 1 \/ p[1] = (m + 2) + 1
        /\ p[2] = n \/ p[2] = c - 1
        /\ p[1] <= p[2] + 1
        /\ c < p[1] \/ c > p[2]
    BY PieceIs
  <2>2. \/ p[1] = 1 /\ p[2] = c - 1
        \/ p[1] = m + 3 /\ p[2] = n
    <3> HIDE DEF m, n
    <3>1. p[1] = 1 \/ p[1] = m + 3
      BY <1>1, <2>1
    <3>2. QED
      BY <1>1, <1>2, <2>1, <3>1
  <2>3. QED
    BY <2>1, <2>2
<1>6. first \in Pieces(s, Cuts(s)) /\ last \in Pieces(s, Cuts(s))
  <2> HIDE DEF m, n
  <2>1. first \in Pieces(s, Cuts(s))
    <3>1. 1 <= (c - 1) + 1 /\ c > c - 1
      BY <1>2
    <3>2. QED
      BY <3>1, IsPiece
  <2>2. last \in Pieces(s, Cuts(s))
    <3>1. m + 3 <= n + 1 /\ c < m + 3 /\ m + 3 = (m + 2) + 1
      BY <1>1, <1>2
    <3>2. n = Len(s) /\ m = Len(one)
      BY DEF n, m
    <3>3. QED
      BY <3>1, <3>2, IsPiece
  <2>3. QED
    BY <2>1, <2>2
<1>7. ~IsBroken(s)
  <2> HIDE DEF first, last
  <2>1. \A p \in Pieces(s, Cuts(s)) : Piece(s, p) # <<>>
    BY <1>1, <1>3, <1>4, <1>5
  <2>2. DOMAIN s = 1..Len(s)
    OBVIOUS
  <2>3. QED
    BY <2>1, <2>2 DEF IsBroken
<1>8. IsSplitAtCuts(split, s)
  BY PromptIsSplit
<1>9. Cardinality(CutsBefore(s, first[1])) = 0 /\ Cardinality(CutsBefore(s, last[1])) = 1
      /\ Cardinality(Cuts(s)) = 1
  <2>1. CutsBefore(s, first[1]) = {} /\ CutsBefore(s, last[1]) = {c}
    BY <1>1, <1>2 DEF CutsBefore
  <2>2. QED
    BY <2>1, FS_EmptySet, FS_Singleton
<1> HIDE DEF split, first, last, m, n
<1>10. ~split.failed
  BY <1>7, <1>8 DEF IsSplitAtCuts
<1>11. split.segments \in Segments /\ Len(split.segments) = 1 + 1
  BY <1>8, <1>9, <1>10 DEF IsSplitAtCuts
<1>12. split.segments[1 + 0] = one /\ split.segments[1 + 1] = two
  BY <1>3, <1>4, <1>6, <1>8, <1>9, <1>10 DEF IsSplitAtCuts
<1>13. split.segments = <<one, two>>
  BY <1>1, <1>11, <1>12 DEF Segments
<1>14. QED
  BY <1>10, <1>13 DEF split

\* Two steps with a connector between them.
Joins(s, one, connector, two) ==
  /\ s \in Seq(Tokens)
  /\ Len(s) = (Len(one) + Len(connector)) + Len(two)
  /\ Occurs(s, 0, one) /\ Occurs(s, Len(one), connector)
  /\ Occurs(s, Len(one) + Len(connector), two)

LEMMA IsJoined ==
  ASSUME NEW one \in Seq(Tokens), NEW connector \in Seq(Tokens), NEW two \in Seq(Tokens)
  PROVE  Joins(one \o connector \o two, one, connector, two)
<1> DEFINE left == one \o connector
           s == left \o two
<1>1. /\ left \in Seq(Tokens) /\ Len(left) = Len(one) + Len(connector)
      /\ \A i \in 1..Len(left) :
           left[i] = IF i <= Len(one) THEN one[i] ELSE connector[i - Len(one)]
  BY ConcatProperties
<1> HIDE DEF left
<1>2. /\ s \in Seq(Tokens) /\ Len(s) = Len(left) + Len(two)
      /\ \A i \in 1..Len(s) : s[i] = IF i <= Len(left) THEN left[i] ELSE two[i - Len(left)]
  <2>1. left \in Seq(Tokens)
    BY <1>1
  <2>2. QED
    BY <2>1, ConcatProperties
<1> HIDE DEF s
<1>3. Len(one) \in Nat /\ Len(connector) \in Nat /\ Len(two) \in Nat
  OBVIOUS
<1>4. ASSUME NEW i \in 1..Len(one) PROVE s[0 + i] = one[i]
  BY <1>1, <1>2, <1>3
<1>5. ASSUME NEW i \in 1..Len(connector) PROVE s[Len(one) + i] = connector[i]
  <2>1. Len(one) + i \in 1..Len(s) /\ Len(one) + i \in 1..Len(left) /\ (Len(one) + i) - Len(one) = i
        /\ ~ (Len(one) + i <= Len(one))
    BY <1>1, <1>2, <1>3
  <2>2. QED
    BY <1>1, <1>2, <2>1
<1>6. ASSUME NEW i \in 1..Len(two) PROVE s[(Len(one) + Len(connector)) + i] = two[i]
  <2>1. Len(left) + i \in 1..Len(s) /\ (Len(left) + i) - Len(left) = i /\ ~ (Len(left) + i <= Len(left))
    BY <1>1, <1>2, <1>3
  <2>2. QED
    BY <1>1, <1>2, <2>1
<1>7. Joins(s, one, connector, two)
  BY <1>1, <1>2, <1>3, <1>4, <1>5, <1>6 DEF Joins, Occurs
<1>8. QED
  BY <1>7 DEF s, left

LEMMA QuotedNot ==
  ASSUME NEW s, NEW i \in Nat, i >= 1, ~Quoted(s, i), s[i] # Quote
  PROVE  ~Quoted(s, i + 1)
  BY QuotedNext

\* Every cut and every stray character of two joined steps is in the connector.
LEMMA OnlyBetween ==
  ASSUME NEW s, NEW one, NEW connector \in Seq(Tokens), NEW two, IsStep(one), IsStep(two),
         Joins(s, one, connector, two), ~Quoted(s, (Len(one) + Len(connector)) + 1)
  PROVE  /\ ~Quoted(s, Len(s) + 1)
         /\ \A j \in 1..Len(s) : (j \in Cuts(s) \/ Stray(s, j)) =>
              \E i \in 1..Len(connector) : j = Len(one) + i
<1> DEFINE m == Len(one)
           e == Len(one) + Len(connector)
<1>1. one \in Seq(Tokens) /\ two \in Seq(Tokens) /\ s \in Seq(Tokens)
      /\ m \in Nat /\ Len(connector) \in Nat /\ e \in Nat /\ Len(two) \in Nat
      /\ Len(s) = e + Len(two)
  BY DEF IsStep, Joins
<1>2. ~Quoted(s, 0 + 1) /\ Occurs(s, 0, one) /\ Occurs(s, e, two)
  BY NotQuotedAtFirst DEF Joins
<1>3. \A j \in 1..m : 0 + j \notin Cuts(s) /\ ~Stray(s, 0 + j)
  BY <1>1, <1>2, NothingInside
<1>4. /\ \A j \in 1..Len(two) : e + j \notin Cuts(s) /\ ~Stray(s, e + j)
      /\ ~Quoted(s, e + (Len(two) + 1))
  <2> HIDE DEF e
  <2>1. ~Quoted(s, e + 1)
    BY DEF e
  <2>2. QED
    BY <1>1, <1>2, <2>1, NothingInside
<1>5. ~Quoted(s, Len(s) + 1)
  <2>1. e + (Len(two) + 1) = Len(s) + 1
    BY <1>1
  <2>2. QED
    BY <1>4, <2>1
<1>6. ASSUME NEW j \in 1..Len(s), j \in Cuts(s) \/ Stray(s, j)
      PROVE  \E i \in 1..Len(connector) : j = m + i
  <2>1. ~ (j <= m)
    <3> SUFFICES ASSUME j <= m PROVE FALSE
      OBVIOUS
    <3>1. j \in 1..m /\ 0 + j = j
      BY <1>1
    <3>2. QED
      BY <1>3, <1>6, <3>1
  <2>2. ~ (j > e)
    <3> SUFFICES ASSUME j > e PROVE FALSE
      OBVIOUS
    <3>1. j - e \in 1..Len(two) /\ e + (j - e) = j
      BY <1>1
    <3>2. QED
      BY <1>4, <1>6, <3>1
  <2>3. j - m \in 1..Len(connector) /\ j = m + (j - m)
    BY <1>1, <2>1, <2>2
  <2>4. QED
    BY <2>3
<1>7. QED
  BY <1>5, <1>6

\* A word between blanks.
IsWordConnector(w) ==
  /\ w \in Seq(Tokens) /\ Len(w) >= 3 /\ w[1] = Blank
  /\ Lower[w[2]] \in ConnectorWords
  /\ \A i \in 3..Len(w) : w[i] = Blank

LEMMA ConnectorsAre ==
  ASSUME NEW w \in Connectors
  PROVE  w \in Seq(Tokens) /\ (w = <<"&", "&">> \/ IsWordConnector(w))
<1>1. /\ Blank \in Tokens /\ "&" \in Tokens /\ "and" \in Tokens /\ "then" \in Tokens
      /\ "AND" \in Tokens /\ Lower["and"] = "and" /\ Lower["then"] = "then" /\ Lower["AND"] = "and"
  BY PromptAssumption DEF Marks, Keywords, ConnectorWords
<1>2. CASE w = <<"&", "&">>
  BY <1>1, <1>2
<1>3. CASE w = <<Blank, "and", Blank>>
  BY <1>1, <1>3 DEF IsWordConnector, ConnectorWords
<1>4. CASE w = <<Blank, "then", Blank>>
  BY <1>1, <1>4 DEF IsWordConnector, ConnectorWords
<1>5. CASE w = <<Blank, "AND", Blank, Blank>>
  BY <1>1, <1>5 DEF IsWordConnector, ConnectorWords
<1>6. QED
  BY <1>2, <1>3, <1>4, <1>5 DEF Connectors

LEMMA JoinedByWord ==
  ASSUME NEW s, NEW one, NEW connector, NEW two, IsStep(one), IsStep(two),
         IsWordConnector(connector), Joins(s, one, connector, two)
  PROVE  ~SplitPrompt(s).failed /\ SplitPrompt(s).segments = <<one, two>>
<1> DEFINE m == Len(one)
           q == Len(connector)
           e == m + q
           c == m + 2
<1>1. /\ one \in Seq(Tokens) /\ two \in Seq(Tokens) /\ s \in Seq(Tokens) /\ connector \in Seq(Tokens)
      /\ m \in Nat /\ q \in Nat /\ q >= 3 /\ e \in Nat /\ Len(two) \in Nat /\ Len(two) >= 1
      /\ Len(s) = e + Len(two) /\ c \in 1..Len(s) /\ c + 1 \in 1..Len(s)
  BY DEF IsStep, Joins, IsWordConnector
<1>2. \A i \in 1..q : m + i \in 1..Len(s) /\ s[m + i] = connector[i]
  BY <1>1 DEF Joins, Occurs
<1>3. \A i \in 1..q : i # 2 => s[m + i] = Blank
  BY <1>1, <1>2 DEF IsWordConnector
<1>4. Lower[s[c]] \in ConnectorWords /\ s[c - 1] = Blank /\ s[c + 1] = Blank
  <2>1. 2 \in 1..q /\ c - 1 = m + 1 /\ c + 1 = m + 3 /\ 1 \in 1..q /\ 3 \in 1..q
    BY <1>1
  <2>2. s[m + 2] = connector[2] /\ s[m + 1] = Blank /\ s[m + 3] = Blank
    BY <1>2, <1>3, <2>1
  <2>3. QED
    BY <2>1, <2>2 DEF IsWordConnector
<1>5. s[c] \notin Marks
  BY PromptAssumption, <1>4 DEF Marks, ConnectorWords, Blank, Quote
<1>6. \A i \in 1..q : s[m + i] # Quote
  <2> SUFFICES ASSUME NEW i \in 1..q PROVE s[m + i] # Quote
    OBVIOUS
  <2>1. CASE i = 2
    BY <1>5, <2>1 DEF Marks
  <2>2. CASE i # 2
    BY <1>3, <2>2 DEF Blank, Quote
  <2>3. QED
    BY <2>1, <2>2
<1>7. ~Quoted(s, 1) /\ Occurs(s, 0, one)
  BY NotQuotedAtFirst DEF Joins
<1>8. ~Quoted(s, m + 1)
  <2>1. 0 + 1 = 1 /\ 0 + (m + 1) = m + 1
    BY <1>1
  <2>2. ~Quoted(s, 0 + (m + 1))
    BY <1>1, <1>7, <2>1, NothingInside
  <2>3. QED
    BY <2>1, <2>2
<1>9. \A i \in 1..(q + 1) : ~Quoted(s, m + i)
  <2> DEFINE T == {k \in Nat : k <= q => ~Quoted(s, m + (k + 1))}
  <2>1. 0 \in T
    BY <1>8
  <2>2. ASSUME NEW k \in Nat, k \in T PROVE k + 1 \in T
    <3> SUFFICES ASSUME k + 1 <= q PROVE ~Quoted(s, m + ((k + 1) + 1))
      OBVIOUS
    <3>1. k <= q /\ k + 1 \in 1..q /\ m + (k + 1) \in Nat /\ m + (k + 1) >= 1
          /\ (m + (k + 1)) + 1 = m + ((k + 1) + 1)
      BY <1>1
    <3>2. ~Quoted(s, m + (k + 1)) /\ s[m + (k + 1)] # Quote
      BY <1>6, <2>2, <3>1
    <3>3. QED
      BY <3>1, <3>2, QuotedNot
  <2> HIDE DEF T
  <2>3. Nat \subseteq T
    BY <2>1, <2>2, SetInduction
  <2>4. QED
    <3> SUFFICES ASSUME NEW i \in 1..(q + 1) PROVE ~Quoted(s, m + i)
      OBVIOUS
    <3>1. i - 1 \in Nat /\ i - 1 <= q /\ (i - 1) + 1 = i
      BY <1>1
    <3>2. QED
      BY <2>3, <3>1 DEF T
<1>10. ~Quoted(s, (m + q) + 1)
  <2>1. q + 1 \in 1..(q + 1) /\ m + (q + 1) = (m + q) + 1
    BY <1>1
  <2>2. QED
    BY <1>9, <2>1
<1>11. /\ ~Quoted(s, Len(s) + 1)
       /\ \A j \in 1..Len(s) : (j \in Cuts(s) \/ Stray(s, j)) => \E i \in 1..q : j = m + i
  <2>1. ~Quoted(s, (Len(one) + Len(connector)) + 1) /\ connector \in Seq(Tokens)
    BY <1>1, <1>10
  <2> HIDE DEF m, q, e, c
  <2>2. /\ ~Quoted(s, Len(s) + 1)
        /\ \A j \in 1..Len(s) : (j \in Cuts(s) \/ Stray(s, j)) =>
             \E i \in 1..Len(connector) : j = Len(one) + i
    BY <2>1, OnlyBetween
  <2>3. QED
    BY <2>2 DEF m, q
<1>12. ConnectorLen(s, c) = 1 /\ Ends(s, c) = c /\ c \in Cuts(s)
  <2>1. IsWordAt(s, c, ConnectorWords) /\ s[c] # "&" /\ s[c] # Quote
    BY <1>4, <1>5 DEF IsWordAt, Marks
  <2>2. ConnectorLen(s, c) = 1
    BY <2>1 DEF ConnectorLen
  <2>3. ~Quoted(s, c)
    BY <1>1, <1>9
  <2>4. Ends(s, c) = (c + 1) - 1
    <3>1. c \in Nat
      BY <1>1
    <3> HIDE DEF c
    <3>2. QED
      BY <2>2, <3>1 DEF Ends
  <2>5. DOMAIN s = 1..Len(s)
    BY <1>1
  <2>6. QED
    BY <1>1, <2>1, <2>2, <2>3, <2>4, <2>5 DEF Cuts
<1>13. ASSUME NEW i \in 1..q, i # 2 PROVE m + i \notin Cuts(s) /\ ~Stray(s, m + i)
  <2>1. s[m + i] = Blank /\ m + i \in 1..Len(s)
    BY <1>2, <1>3, <1>13
  <2>2. ~IsShell(s[m + i])
    BY <2>1 DEF IsShell, Blank
  <2>3. Blank \in Marks
    BY DEF Marks
  <2>4. ConnectorLen(s, m + i) # 1 /\ ConnectorLen(s, m + i) # 2 /\ ConnectorLen(s, m + i) \in {0, 1, 2}
    <3>1. Blank # "&"
      BY DEF Blank
    <3>2. QED
      BY <1>1, <2>1, <2>3, <3>1, ConnectorIs
  <2>5. m + i \notin Cuts(s)
    <3> SUFFICES ASSUME m + i \in Cuts(s) PROVE FALSE
      OBVIOUS
    <3>1. ConnectorLen(s, m + i) > 0
      BY <1>1, CutIs
    <3>2. QED
      BY <2>4, <3>1
  <2>6. QED
    BY <2>2, <2>5 DEF Stray
<1>14. ~Stray(s, c)
  BY <1>5 DEF Stray, IsShell, Marks
<1> HIDE DEF c, q, e, m
<1>15. Cuts(s) = {c}
  <2> SUFFICES ASSUME NEW j \in Cuts(s) PROVE j = c
    BY <1>12
  <2>1. j \in 1..Len(s)
    BY <1>1, CutIs
  <2>2. PICK i \in 1..q : j = m + i
    BY <1>11, <2>1
  <2>3. i = 2
    BY <1>13, <2>2
  <2>4. QED
    BY <2>2, <2>3 DEF c
<1>16. \A j \in 1..Len(s) : ~Stray(s, j)
  <2> SUFFICES ASSUME NEW j \in 1..Len(s), Stray(s, j) PROVE FALSE
    OBVIOUS
  <2>1. PICK i \in 1..q : j = m + i
    BY <1>11
  <2>2. i = 2
    BY <1>13, <2>1
  <2>3. QED
    BY <1>14, <2>1, <2>2 DEF c
<1>17. ASSUME NEW j \in 1..Len(s), (m < j /\ j < c) \/ (m + 2 < j /\ j <= e) PROVE s[j] = Blank
  <2>1. j - m \in 1..q /\ j - m # 2 /\ m + (j - m) = j
    BY <1>1, <1>17 DEF c, e
  <2>2. QED
    BY <1>3, <2>1
<1>18. Occurs(s, e, two) /\ c > m /\ Ends(s, c) = m + 2 /\ m + 2 <= e
  BY <1>1, <1>12 DEF Joins, c, e, m, q
<1>19. QED
  <2>1. m = Len(one)
    BY DEF m
  <2>2. \A j \in 1..Len(s) : m < j /\ j < c => s[j] = Blank
    BY <1>17
  <2>3. \A j \in 1..Len(s) : m + 2 < j /\ j <= e => s[j] = Blank
    BY <1>17
  <2>4. Len(one) < c /\ Ends(s, c) = Len(one) + 2 /\ e \in Nat /\ Len(one) + 2 <= e
        /\ e + Len(two) = Len(s)
    BY <1>1, <1>18, <2>1
  <2>5. QED
    BY <1>1, <1>7, <1>11, <1>15, <1>16, <1>18, <2>1, <2>2, <2>3, <2>4, CutInTwo

LEMMA JoinedByPair ==
  ASSUME NEW s, NEW one, NEW two, IsStep(one), IsStep(two), Joins(s, one, <<"&", "&">>, two)
  PROVE  ~SplitPrompt(s).failed /\ SplitPrompt(s).segments = <<one, two>>
<1>1. PICK pair : pair = <<"&", "&">>
  OBVIOUS
<1>2. pair \in Seq(Tokens) /\ Len(pair) = 2 /\ pair[1] = "&" /\ pair[2] = "&"
  <2>1. "&" \in Tokens
    BY PromptAssumption DEF Marks
  <2>2. QED
    BY <1>1, <2>1
<1>3. Joins(s, one, pair, two)
  BY <1>1
<1> DEFINE m == Len(one)
           e == m + 2
           c == m + 1
<1>4. /\ one \in Seq(Tokens) /\ two \in Seq(Tokens) /\ s \in Seq(Tokens)
      /\ m \in Nat /\ m >= 1 /\ e \in Nat /\ Len(two) \in Nat /\ Len(two) >= 1
      /\ Len(s) = e + Len(two) /\ c \in 1..Len(s) /\ e \in 1..Len(s) /\ c < Len(s)
      /\ Occurs(s, 0, one) /\ Occurs(s, m, pair) /\ Occurs(s, e, two)
  BY <1>2, <1>3 DEF IsStep, Joins
<1>5. s[c] = "&" /\ s[e] = "&"
  <2>1. 1 \in 1..2 /\ 2 \in 1..2
    OBVIOUS
  <2>2. s[m + 1] = pair[1] /\ s[m + 2] = pair[2]
    BY <1>2, <1>4, <2>1 DEF Occurs
  <2>3. QED
    BY <1>2, <2>2
<1>6. ~Quoted(s, 0 + 1)
  BY NotQuotedAtFirst
<1>7. ~Quoted(s, c) /\ one[m] # "&"
  <2>1. ~Quoted(s, 0 + (m + 1)) /\ one[m] # "&"
    BY <1>4, <1>6, NothingInside
  <2>2. 0 + (m + 1) = c
    BY <1>4
  <2>3. QED
    BY <2>1, <2>2
<1>8. s[m] # "&"
  <2>1. m \in 1..m /\ 0 + m = m
    BY <1>4
  <2>2. s[0 + m] = one[m]
    BY <1>4, <2>1 DEF Occurs
  <2>3. QED
    BY <1>7, <2>1, <2>2
<1>9. AtOddPlace(s, c) /\ ~AtOddPlace(s, e)
  <2>1. c \in Nat /\ c >= 1 /\ c - 1 = m /\ c + 1 = e
    BY <1>4
  <2>2. AtOddPlace(s, c)
    BY <1>5, <1>8, <2>1, RunBegins
  <2>3. ~AtOddPlace(s, c + 1)
    <3> HIDE DEF c, e
    <3>1. QED
      BY <2>1, <2>2, PairIsClosed
  <2>4. QED
    BY <2>1, <2>2, <2>3
<1>10. ConnectorLen(s, c) = 2
  <2>1. s[c + 1] = "&"
    BY <1>4, <1>5
  <2>2. c < Len(s) /\ s[c] = "&" /\ c \in 1..Len(s) /\ s \in Seq(Tokens)
    BY <1>4, <1>5
  <2> HIDE DEF c
  <2>3. QED
    BY <2>1, <2>2, ConnectorIs
<1>11. ~Quoted(s, e) /\ ~Quoted(s, e + 1)
  <2>1. c \in Nat /\ c >= 1 /\ c + 1 = e /\ e \in Nat /\ e >= 1
    BY <1>4
  <2>2. s[c] # Quote /\ s[e] # Quote
    BY <1>5 DEF Quote
  <2> HIDE DEF c, e
  <2>3. ~Quoted(s, c + 1)
    BY <1>7, <2>1, <2>2, QuotedNot
  <2>4. ~Quoted(s, e)
    BY <2>1, <2>3
  <2>5. QED
    BY <2>1, <2>2, <2>4, QuotedNot
<1>12. Ends(s, c) = e /\ c \in Cuts(s)
  <2>1. c \in Nat /\ c + 2 - 1 = e
    BY <1>4
  <2>2. DOMAIN s = 1..Len(s) /\ s[c] # Quote
    BY <1>4, <1>5 DEF Quote
  <2>3. OpensPair(s, c)
    BY <1>9, <1>10, PairIs
  <2> HIDE DEF c, e
  <2>4. Ends(s, c) = e
    BY <1>10, <2>1 DEF Ends
  <2>5. c \in Cuts(s)
    BY <1>4, <1>7, <2>2, <2>3 DEF Cuts
  <2>6. QED
    BY <2>4, <2>5
<1>13. ~Stray(s, c) /\ ~Stray(s, e)
  <2>1. ~ (c < c) /\ ~ (c > Ends(s, c)) /\ ~ (e < c) /\ ~ (e > Ends(s, c))
    BY <1>4, <1>12
  <2> HIDE DEF c, e
  <2>2. QED
    BY <1>12, <2>1 DEF Stray
<1>14. e \notin Cuts(s)
  BY <1>4, <1>5, <1>9, CutIs
<1>15. /\ ~Quoted(s, Len(s) + 1)
       /\ \A j \in 1..Len(s) : j \in Cuts(s) \/ Stray(s, j) => j = c \/ j = e
  <2>1. (Len(one) + Len(pair)) + 1 = e + 1
    BY <1>2, <1>4
  <2>2. ~Quoted(s, (Len(one) + Len(pair)) + 1)
    BY <1>11, <2>1
  <2>3. /\ ~Quoted(s, Len(s) + 1)
        /\ \A j \in 1..Len(s) : (j \in Cuts(s) \/ Stray(s, j)) =>
             \E i \in 1..Len(pair) : j = Len(one) + i
    <3>1. pair \in Seq(Tokens)
      BY <1>2
    <3> HIDE DEF c, e, m
    <3>2. QED
      BY <1>3, <2>2, <3>1, OnlyBetween
  <2>4. \A i \in 1..Len(pair) : i = 1 \/ i = 2
    BY <1>2
  <2>5. QED
    BY <2>3, <2>4
<1> HIDE DEF c, e, m
<1>16. Cuts(s) = {c}
  BY <1>4, <1>12, <1>14, <1>15, CutIs
<1>17. \A j \in 1..Len(s) : ~Stray(s, j)
  BY <1>13, <1>15
<1>18. /\ Len(one) < c /\ Ends(s, c) = Len(one) + 2 /\ Len(one) + 2 <= e /\ e + Len(two) = Len(s)
       /\ \A j \in 1..Len(s) : ~ (Len(one) < j /\ j < c)
       /\ \A j \in 1..Len(s) : ~ (Len(one) + 2 < j /\ j <= e)
  BY <1>4, <1>12 DEF c, e, m
<1>19. QED
  BY <1>4, <1>15, <1>16, <1>17, <1>18, CutInTwo

\* Two steps joined by any connector are two segments.
LEMMA StepsJoined ==
  ASSUME NEW one, NEW connector \in Connectors, NEW two, IsStep(one), IsStep(two)
  PROVE  LET s == one \o connector \o two
         IN /\ s \in Seq(Tokens) /\ s # <<>> /\ Trim(s) = s
            /\ ~SplitPrompt(s).failed /\ SplitPrompt(s).segments = <<one, two>>
<1>1. PICK s : s = one \o connector \o two
  OBVIOUS
<1>2. one \in Seq(Tokens) /\ two \in Seq(Tokens) /\ connector \in Seq(Tokens)
      /\ (connector = <<"&", "&">> \/ IsWordConnector(connector))
  BY ConnectorsAre DEF IsStep
<1>3. Joins(s, one, connector, two)
  BY <1>1, <1>2, IsJoined
<1>4. ~SplitPrompt(s).failed /\ SplitPrompt(s).segments = <<one, two>>
  <2>1. CASE connector = <<"&", "&">>
    BY <1>3, <2>1, JoinedByPair
  <2>2. CASE IsWordConnector(connector)
    BY <1>3, <2>2, JoinedByWord
  <2>3. QED
    BY <1>2, <2>1, <2>2
<1>5. s \in Seq(Tokens) /\ s # <<>> /\ s[1] # Blank /\ s[Len(s)] # Blank
  <2> DEFINE e == Len(one) + Len(connector)
  <2>1. /\ s \in Seq(Tokens) /\ Len(s) = e + Len(two) /\ e \in Nat /\ Occurs(s, 0, one) /\ Occurs(s, e, two)
    BY <1>2, <1>3 DEF Joins
  <2>2. /\ Len(one) \in Nat /\ Len(two) \in Nat /\ Len(one) >= 1 /\ Len(two) >= 1
        /\ one[1] # Blank /\ two[Len(two)] # Blank
    BY <1>2 DEF IsStep
  <2> HIDE DEF e
  <2>3. s[0 + 1] = one[1]
    BY <2>1, <2>2 DEF Occurs
  <2>4. s[e + Len(two)] = two[Len(two)]
    BY <2>1, <2>2 DEF Occurs
  <2>5. QED
    BY <2>1, <2>2, <2>3, <2>4
<1>6. Trim(s) = s
  <2>1. Occurs(s, 0, s)
    BY <1>5 DEF Occurs
  <2>2. \A j \in 1..Len(s) : j <= 0 \/ 0 + Len(s) < j => s[j] = Blank
    BY <1>5
  <2>3. QED
    BY <1>5, <2>1, <2>2, TrimmedTo
<1>7. QED
  BY <1>1, <1>4, <1>5, <1>6

-----------------------------------------------------------------------------
(***************************************************************************)
(* A request, as it is written.                                            *)
(***************************************************************************)
\* A text without quotes that stands for itself.
IsPlain(w) ==
  /\ w \in Seq(Tokens) /\ w # <<>> /\ w[1] # Blank /\ w[Len(w)] # Blank
  /\ \A i \in 1..Len(w) : w[i] # Quote /\ ~IsShell(w[i]) /\ ~IsWordAt(w, i, ConnectorWords)

LEMMA NoQuotes ==
  ASSUME NEW s, NEW n \in Nat, \A j \in 1..n : s[j] # Quote
  PROVE  ~Quoted(s, n + 1)
<1>1. \A j \in 1..((n + 1) - 1) : s[j] # Quote
  OBVIOUS
<1>2. {j \in 1..((n + 1) - 1) : s[j] = Quote} = {}
  BY <1>1
<1>3. Cardinality({}) = 0 /\ 0 % 2 # 1
  BY FS_EmptySet
<1>4. QED
  BY <1>2, <1>3 DEF Quoted

LEMMA PlainIsStep ==
  ASSUME NEW w, IsPlain(w)
  PROVE  IsStep(w)
<1>1. w \in Seq(Tokens) /\ Len(w) \in Nat /\ \A j \in 1..Len(w) : w[j] # Quote
  BY DEF IsPlain
<1>2. ~Quoted(w, Len(w) + 1)
  BY <1>1, NoQuotes
<1>3. QED
  BY <1>2 DEF IsPlain, IsStep

LEMMA BlankIs == Blank \in Tokens /\ Lower[Blank] = Blank /\ Lower[Blank] \notin ConnectorWords
<1>1. Blank \in Marks
  BY DEF Marks
<1>2. QED
  BY <1>1, PromptAssumption DEF Blank, ConnectorWords

\* Two plain texts with a blank between them are one.
LEMMA PlainJoined ==
  ASSUME NEW s, NEW one, NEW two, IsPlain(one), IsPlain(two), Joins(s, one, <<Blank>>, two)
  PROVE  IsPlain(s)
<1>1. PICK gap : gap = <<Blank>>
  OBVIOUS
<1>2. Joins(s, one, gap, two) /\ Len(gap) = 1 /\ gap[1] = Blank
  BY <1>1
<1> DEFINE m == Len(one)
           e == m + 1
           n == Len(two)
<1>3. /\ s \in Seq(Tokens) /\ one \in Seq(Tokens) /\ two \in Seq(Tokens)
      /\ m \in Nat /\ m >= 1 /\ n \in Nat /\ n >= 1 /\ Len(s) = e + n
      /\ Occurs(s, 0, one) /\ Occurs(s, m, gap) /\ Occurs(s, e, two)
  BY <1>2 DEF IsPlain, Joins
<1>4. s[e] = Blank
  <2>1. 1 \in 1..Len(gap)
    BY <1>2
  <2>2. s[m + 1] = gap[1]
    BY <1>3, <2>1 DEF Occurs
  <2>3. QED
    BY <1>2, <2>2
<1>5. ASSUME NEW i \in 1..m PROVE s[i] = one[i]
  <2>1. s[0 + i] = one[i] /\ 0 + i = i
    BY <1>3 DEF Occurs
  <2>2. QED
    BY <2>1
<1>6. ASSUME NEW i \in 1..n PROVE s[e + i] = two[i]
  BY <1>3 DEF Occurs
<1>7. ASSUME NEW i \in 1..m PROVE s[i] # Quote /\ ~IsShell(s[i]) /\ ~IsWordAt(s, i, ConnectorWords)
  <2>1. s[i] = one[i] /\ one[i] # Quote /\ ~IsShell(one[i]) /\ ~IsWordAt(one, i, ConnectorWords)
    BY <1>5 DEF IsPlain
  <2>2. ASSUME IsWordAt(s, i, ConnectorWords) PROVE FALSE
    <3>1. i = 1 \/ one[i - 1] = Blank
      <4> SUFFICES ASSUME i # 1 PROVE one[i - 1] = Blank
        OBVIOUS
      <4>1. i - 1 \in 1..m
        BY <1>3
      <4>2. QED
        BY <1>5, <2>2, <4>1 DEF IsWordAt
    <3>2. i = m \/ one[i + 1] = Blank
      <4> SUFFICES ASSUME i # m PROVE one[i + 1] = Blank
        OBVIOUS
      <4>1. i + 1 \in 1..m /\ i # Len(s)
        BY <1>3
      <4>2. QED
        BY <1>5, <2>2, <4>1 DEF IsWordAt
    <3>3. QED
      BY <2>1, <2>2, <3>1, <3>2 DEF IsWordAt
  <2>3. QED
    BY <2>1, <2>2
<1>8. ASSUME NEW i \in 1..n
      PROVE  s[e + i] # Quote /\ ~IsShell(s[e + i]) /\ ~IsWordAt(s, e + i, ConnectorWords)
  <2>1. s[e + i] = two[i] /\ two[i] # Quote /\ ~IsShell(two[i]) /\ ~IsWordAt(two, i, ConnectorWords)
    BY <1>6 DEF IsPlain
  <2>2. ASSUME IsWordAt(s, e + i, ConnectorWords) PROVE FALSE
    <3>1. i = 1 \/ two[i - 1] = Blank
      <4> SUFFICES ASSUME i # 1 PROVE two[i - 1] = Blank
        OBVIOUS
      <4>1. i - 1 \in 1..n /\ e + (i - 1) = (e + i) - 1 /\ e + i # 1
        BY <1>3
      <4>2. s[(e + i) - 1] = Blank
        BY <2>2, <4>1 DEF IsWordAt
      <4>3. s[e + (i - 1)] = two[i - 1]
        BY <1>6, <4>1
      <4>4. QED
        BY <4>1, <4>2, <4>3
    <3>2. i = n \/ two[i + 1] = Blank
      <4> SUFFICES ASSUME i # n PROVE two[i + 1] = Blank
        OBVIOUS
      <4>1. i + 1 \in 1..n /\ e + (i + 1) = (e + i) + 1 /\ e + i # Len(s)
        BY <1>3
      <4>2. s[(e + i) + 1] = Blank
        BY <2>2, <4>1 DEF IsWordAt
      <4>3. s[e + (i + 1)] = two[i + 1]
        BY <1>6, <4>1
      <4>4. QED
        BY <4>1, <4>2, <4>3
    <3>3. QED
      BY <2>1, <2>2, <3>1, <3>2 DEF IsWordAt
  <2>3. QED
    BY <2>1, <2>2
<1>9. s[e] # Quote /\ ~IsShell(s[e]) /\ ~IsWordAt(s, e, ConnectorWords)
  BY <1>4, BlankIs DEF Quote, Blank, IsShell, IsWordAt
<1>10. s # <<>> /\ s[1] # Blank /\ s[Len(s)] # Blank
  <2>1. 1 \in 1..m /\ n \in 1..n /\ e + n = Len(s)
    BY <1>3
  <2>2. s[1] = one[1] /\ s[e + n] = two[n]
    BY <1>5, <1>6, <2>1
  <2>3. QED
    BY <1>3, <2>1, <2>2 DEF IsPlain
<1>11. ASSUME NEW i \in 1..Len(s) PROVE s[i] # Quote /\ ~IsShell(s[i]) /\ ~IsWordAt(s, i, ConnectorWords)
  <2>1. CASE i <= m
    BY <1>3, <1>7, <2>1
  <2>2. CASE i = e
    BY <1>9, <2>2
  <2>3. CASE i > e
    <3>1. i - e \in 1..n /\ e + (i - e) = i
      BY <1>3, <2>3
    <3> HIDE DEF e
    <3>2. QED
      BY <1>8, <3>1
  <2>4. QED
    BY <1>3, <2>1, <2>2, <2>3
<1>12. QED
  BY <1>3, <1>10, <1>11 DEF IsPlain

\* The words of the grammar that join nothing.
GrammarWords == Options \cup (Keywords \ ConnectorWords)

LEMMA GrammarWordIs ==
  ASSUME NEW t \in GrammarWords
  PROVE  t \in Tokens /\ Lower[t] = t /\ t \notin Marks /\ t \notin ConnectorWords
<1>1. t \in Options \cup Keywords /\ t \notin ConnectorWords
  BY DEF GrammarWords, Options, ConnectorWords
<1>2. t \notin Marks
  BY <1>1 DEF Options, Keywords, ConnectorWords, Marks, Blank, Quote
<1>3. QED
  BY <1>1, <1>2, PromptAssumption

LEMMA WordIsPlain ==
  ASSUME NEW w \in Seq(Tokens), w # <<>>, \A i \in DOMAIN w : w[i] \notin Marks,
         Len(w) = 1 => Lower[w[1]] \notin ConnectorWords
  PROVE  IsPlain(w)
<1>1. Len(w) \in Nat /\ Len(w) >= 1 /\ DOMAIN w = 1..Len(w)
  OBVIOUS
<1>2. \A i \in 1..Len(w) : w[i] # Blank /\ w[i] # Quote /\ ~IsShell(w[i])
  BY <1>1 DEF Marks, IsShell
<1>3. ASSUME NEW i \in 1..Len(w), IsWordAt(w, i, ConnectorWords) PROVE FALSE
  <2>1. i = 1
    <3> SUFFICES ASSUME i # 1 PROVE FALSE
      OBVIOUS
    <3>1. i - 1 \in 1..Len(w)
      BY <1>1
    <3>2. QED
      BY <1>2, <1>3, <3>1 DEF IsWordAt
  <2>2. i = Len(w)
    <3> SUFFICES ASSUME i # Len(w) PROVE FALSE
      OBVIOUS
    <3>1. i + 1 \in 1..Len(w)
      <4>1. PICK n \in Nat : n = Len(w)
        BY <1>1
      <4>2. i \in 1..n /\ i # n
        BY <4>1
      <4>3. i + 1 \in 1..n
        BY <4>2
      <4>4. QED
        BY <4>1, <4>3
    <3>2. QED
      BY <1>2, <1>3, <3>1 DEF IsWordAt
  <2>3. QED
    BY <1>3, <2>1, <2>2 DEF IsWordAt
<1>4. 1 \in 1..Len(w) /\ Len(w) \in 1..Len(w)
  BY <1>1
<1>5. QED
  BY <1>2, <1>3, <1>4 DEF IsPlain

LEMMA NameIsPlain ==
  ASSUME NEW w, IsName(w)
  PROVE  IsPlain(w)
<1>1. /\ w \in Seq(Tokens) /\ w # <<>> /\ \A i \in DOMAIN w : w[i] \notin Marks
      /\ Len(w) = 1 => Lower[w[1]] \notin ConnectorWords
  BY DEF IsName, IsBranchArg
<1>2. QED
  BY <1>1, WordIsPlain

LEMMA GrammarWordIsPlain ==
  ASSUME NEW t \in GrammarWords
  PROVE  IsPlain(<<t>>)
<1>1. PICK w : w = <<t>>
  OBVIOUS
<1>2. t \in Tokens /\ Lower[t] = t /\ t \notin Marks /\ t \notin ConnectorWords
  BY GrammarWordIs
<1>3. w \in Seq(Tokens) /\ w # <<>> /\ Len(w) = 1 /\ DOMAIN w = {1} /\ w[1] = t
  BY <1>1, <1>2
<1>4. IsPlain(w)
  BY <1>2, <1>3, WordIsPlain
<1>5. QED
  BY <1>1, <1>4

LEMMA InLowerIs ==
  ASSUME NEW s \in Seq(Tokens)
  PROVE  InLower(s) \in Seq(Tokens) /\ Len(InLower(s)) = Len(s)
         /\ \A i \in 1..Len(s) : InLower(s)[i] = Lower[s[i]]
<1>1. DOMAIN s = 1..Len(s) /\ Len(s) \in Nat /\ \A i \in 1..Len(s) : s[i] \in Tokens
  OBVIOUS
<1>2. InLower(s) = [i \in 1..Len(s) |-> Lower[s[i]]]
  BY <1>1 DEF InLower
<1>3. \A i \in 1..Len(s) : Lower[s[i]] \in Tokens
  BY <1>1, PromptAssumption
<1>4. InLower(s) \in [1..Len(s) -> Tokens]
  BY <1>2, <1>3
<1>5. InLower(s) \in Seq(Tokens)
  BY <1>1, <1>4, IsASeq
<1>6. QED
  BY <1>1, <1>2, <1>5

LEMMA StartsIs ==
  ASSUME NEW s \in Seq(Tokens), NEW words \in Seq(Tokens)
  PROVE  Starts(s, words) <=>
           Len(words) <= Len(s) /\ \A i \in 1..Len(words) : Lower[s[i]] = words[i]
<1> DEFINE t == InLower(s)
           n == Len(words)
           a == SubSeq(words, 1, n)
           b == SubSeq(t, 1, n)
<1>1. t \in Seq(Tokens) /\ Len(t) = Len(s) /\ \A i \in 1..Len(s) : t[i] = Lower[s[i]]
  BY InLowerIs
<1>2. n \in Nat /\ Len(s) \in Nat
  OBVIOUS
<1> HIDE DEF t
<1>3. Starts(s, words) <=> n <= Len(s) /\ a = b
  BY <1>1 DEF Starts, IsPrefix, t
<1>4. ASSUME n <= Len(s)
      PROVE  a = b <=> \A i \in 1..n : Lower[s[i]] = words[i]
  <2>1. a \in Seq(Tokens) /\ Len(a) = n /\ \A i \in 1..n : a[i] = words[i]
    BY <1>2
  <2>2. b \in Seq(Tokens) /\ Len(b) = n /\ \A i \in 1..n : b[i] = t[i]
    BY <1>1, <1>2, <1>4
  <2> HIDE DEF a, b
  <2>3. \A i \in 1..n : t[i] = Lower[s[i]]
    BY <1>1, <1>2, <1>4
  <2>4. a = b <=> \A i \in 1..n : a[i] = b[i]
    BY <2>1, <2>2, SeqEqual
  <2> HIDE DEF n
  <2>5. QED
    BY <2>1, <2>2, <2>3, <2>4
<1>5. QED
  BY <1>3, <1>4

LEMMA OneOccurs ==
  ASSUME NEW s, NEW a \in Nat, NEW x, s[a + 1] = x, a + 1 <= Len(s)
  PROVE  Occurs(s, a, <<x>>)
<1>1. Len(<<x>>) = 1 /\ <<x>>[1] = x /\ \A i \in 1..1 : i = 1
  OBVIOUS
<1>2. \A i \in 1..1 : s[a + i] = <<x>>[i]
  BY <1>1
<1>3. QED
  BY <1>1, <1>2 DEF Occurs

LEMMA OneIsPlain ==
  ASSUME NEW a \in GrammarWords, NEW t, t = <<a>>
  PROVE  IsPlain(t) /\ InLower(t) = t /\ Len(t) = 1 /\ t[1] = a
<1>1. a \in Tokens /\ Lower[a] = a
  BY GrammarWordIs
<1>2. IsPlain(t)
  BY GrammarWordIsPlain
<1>3. t \in Seq(Tokens) /\ Len(t) = 1 /\ t[1] = a /\ DOMAIN t = {1}
  BY <1>1
<1>4. InLower(t) = t
  BY <1>1, <1>3 DEF InLower
<1>5. QED
  BY <1>2, <1>3, <1>4

LEMMA ThreeArePlain ==
  ASSUME NEW a \in GrammarWords, NEW b \in GrammarWords, NEW t, t = <<a, Blank, b>>
  PROVE  IsPlain(t) /\ InLower(t) = t /\ Len(t) = 3 /\ t[1] = a /\ t[2] = Blank /\ t[3] = b
<1>1. a \in Tokens /\ Lower[a] = a /\ b \in Tokens /\ Lower[b] = b
  BY GrammarWordIs
<1>2. t \in Seq(Tokens) /\ Len(t) = 3 /\ t[1] = a /\ t[2] = Blank /\ t[3] = b
  BY <1>1, BlankIs
<1>3. IsPlain(<<a>>) /\ IsPlain(<<b>>)
  BY GrammarWordIsPlain
<1>4. Joins(t, <<a>>, <<Blank>>, <<b>>)
  <2>1. Len(<<a>>) = 1 /\ Len(<<Blank>>) = 1 /\ Len(<<b>>) = 1
    OBVIOUS
  <2>2. Occurs(t, 0, <<a>>) /\ Occurs(t, 1, <<Blank>>) /\ Occurs(t, 2, <<b>>)
    <3>1. /\ t[0 + 1] = a /\ 0 + 1 <= Len(t) /\ t[1 + 1] = Blank /\ 1 + 1 <= Len(t)
          /\ t[2 + 1] = b /\ 2 + 1 <= Len(t)
      BY <1>2
    <3>2. QED
      BY <3>1, OneOccurs
  <2>3. QED
    BY <1>2, <2>1, <2>2 DEF Joins
<1>5. IsPlain(t)
  BY <1>3, <1>4, PlainJoined
<1>6. InLower(t) = t
  <2>1. InLower(t) \in Seq(Tokens) /\ Len(InLower(t)) = 3 /\ \A i \in 1..3 : InLower(t)[i] = Lower[t[i]]
    BY <1>2, InLowerIs
  <2>2. \A i \in 1..3 : Lower[t[i]] = t[i]
    BY <1>1, <1>2, BlankIs
  <2>3. QED
    BY <1>2, <2>1, <2>2, SeqEqual
<1>7. QED
  BY <1>2, <1>5, <1>6

LEMMA FiveArePlain ==
  ASSUME NEW a \in GrammarWords, NEW b \in GrammarWords, NEW c \in GrammarWords,
         NEW t, t = <<a, Blank, b, Blank, c>>
  PROVE  IsPlain(t) /\ InLower(t) = t /\ Len(t) = 5 /\ t[1] = a
<1>1. a \in Tokens /\ Lower[a] = a /\ b \in Tokens /\ Lower[b] = b /\ c \in Tokens /\ Lower[c] = c
  BY GrammarWordIs
<1>2. t \in Seq(Tokens) /\ Len(t) = 5 /\ t[1] = a /\ t[2] = Blank /\ t[3] = b /\ t[4] = Blank /\ t[5] = c
  BY <1>1, BlankIs
<1>3. PICK u : u = <<a, Blank, b>>
  OBVIOUS
<1>4. /\ IsPlain(u) /\ Len(u) = 3 /\ u[1] = a /\ u[2] = Blank /\ u[3] = b
      /\ IsPlain(<<c>>)
  BY <1>3, ThreeArePlain, GrammarWordIsPlain
<1>5. Joins(t, u, <<Blank>>, <<c>>)
  <2>1. Len(<<Blank>>) = 1 /\ Len(<<c>>) = 1
    OBVIOUS
  <2>2. Occurs(t, 0, u)
    BY <1>2, <1>4 DEF Occurs
  <2>3. Occurs(t, 3, <<Blank>>) /\ Occurs(t, 4, <<c>>)
    BY <1>2 DEF Occurs
  <2>4. QED
    BY <1>2, <1>4, <2>1, <2>2, <2>3 DEF Joins
<1>6. IsPlain(t)
  BY <1>4, <1>5, PlainJoined
<1>7. InLower(t) = t
  <2>1. InLower(t) \in Seq(Tokens) /\ Len(InLower(t)) = 5 /\ \A i \in 1..5 : InLower(t)[i] = Lower[t[i]]
    BY <1>2, InLowerIs
  <2>2. \A i \in 1..5 : Lower[t[i]] = t[i]
    BY <1>1, <1>2, BlankIs
  <2>3. QED
    BY <1>2, <2>1, <2>2, SeqEqual
<1>8. QED
  BY <1>2, <1>6, <1>7

\* What a phrase says.
PhraseSays(t) ==
  CASE t[1] = "branches"                     -> Plain("Branches")
    [] t[1] = "fetch"                        -> Plain("Fetch")
    [] t[1] = "push"                         -> Plain("Push")
    [] t[1] = "open"                         -> Plain("OpenPullRequest")
    [] t[1] = "pull" /\ Len(t) = 1           -> Plain("Pull")
    [] t[1] = "pull" /\ Len(t) = 3           -> Plain("PullRebase")
    [] t[1] = "merge" /\ t[3] = "--continue"  -> Plain("MergeContinue")
    [] t[1] = "merge" /\ t[3] = "--abort"     -> Plain("MergeAbort")
    [] t[1] = "rebase" /\ t[3] = "--continue" -> Plain("RebaseContinue")
    [] t[1] = "rebase" /\ t[3] = "--abort"    -> Plain("RebaseAbort")
    [] t[1] = "rebase" /\ t[3] = "--skip"     -> Plain("RebaseSkip")
    [] OTHER                                 -> Plain("")

IsPhrase(t, r) ==
  /\ IsPlain(t) /\ InLower(t) = t
  /\ t[1] \notin {"checkout", "branch", "commit"}
  /\ t[1] \in {"merge", "rebase"} => Len(t) = 3 /\ t[3] \in Options
  /\ t[1] = "open" => Len(t) \in {3, 5}
  /\ r = PhraseSays(t)

LEMMA PhrasesOfOne ==
  /\ IsPhrase(<<"branches">>, Plain("Branches"))
  /\ IsPhrase(<<"fetch">>, Plain("Fetch"))
  /\ IsPhrase(<<"push">>, Plain("Push"))
  /\ IsPhrase(<<"pull">>, Plain("Pull"))
<1>1. {"branches", "fetch", "push", "pull"} \subseteq GrammarWords
  BY DEF GrammarWords, Keywords, ConnectorWords
<1>2. ASSUME NEW a \in {"branches", "fetch", "push", "pull"}, NEW r,
             r = CASE a = "branches" -> Plain("Branches")
                   [] a = "fetch"    -> Plain("Fetch")
                   [] a = "push"     -> Plain("Push")
                   [] OTHER          -> Plain("Pull")
      PROVE  IsPhrase(<<a>>, r)
  <2>1. PICK t : t = <<a>>
    OBVIOUS
  <2>2. IsPlain(t) /\ InLower(t) = t /\ Len(t) = 1 /\ t[1] = a
    BY <1>1, <2>1, OneIsPlain
  <2>3. r = PhraseSays(t)
    <3>1. CASE a = "branches"
      BY <1>2, <2>2, <3>1 DEF PhraseSays
    <3>2. CASE a = "fetch"
      BY <1>2, <2>2, <3>2 DEF PhraseSays
    <3>3. CASE a = "push"
      BY <1>2, <2>2, <3>3 DEF PhraseSays
    <3>4. CASE a = "pull"
      BY <1>2, <2>2, <3>4 DEF PhraseSays
    <3>5. QED
      BY <1>2, <3>1, <3>2, <3>3, <3>4
  <2>4. IsPhrase(t, r)
    BY <2>2, <2>3 DEF IsPhrase
  <2>5. QED
    BY <2>1, <2>4
<1>3. QED
  BY <1>2

LEMMA PhrasesOfPull ==
  ASSUME NEW b \in {"--rebase", "rebase"}
  PROVE  IsPhrase(<<"pull", Blank, b>>, Plain("PullRebase"))
<1>1. "pull" \in GrammarWords /\ b \in GrammarWords
  BY DEF GrammarWords, Keywords, ConnectorWords, Options
<1>2. PICK t : t = <<"pull", Blank, b>>
  OBVIOUS
<1>3. IsPlain(t) /\ InLower(t) = t /\ Len(t) = 3 /\ t[1] = "pull" /\ t[3] = b
  BY <1>1, <1>2, ThreeArePlain
<1>4. PhraseSays(t) = Plain("PullRebase")
  BY <1>3 DEF PhraseSays
<1>5. QED
  BY <1>2, <1>3, <1>4 DEF IsPhrase

LEMMA PhrasesOfOpen ==
  /\ IsPhrase(<<"open", Blank, "pr">>, Plain("OpenPullRequest"))
  /\ IsPhrase(<<"open", Blank, "pull", Blank, "request">>, Plain("OpenPullRequest"))
<1>1. /\ "open" \in GrammarWords /\ "pr" \in GrammarWords
      /\ "pull" \in GrammarWords /\ "request" \in GrammarWords
  BY DEF GrammarWords, Keywords, ConnectorWords
<1>2. PICK t : t = <<"open", Blank, "pr">>
  OBVIOUS
<1>3. PICK u : u = <<"open", Blank, "pull", Blank, "request">>
  OBVIOUS
<1>4. IsPlain(t) /\ InLower(t) = t /\ Len(t) = 3 /\ t[1] = "open"
  BY <1>1, <1>2, ThreeArePlain
<1>5. IsPlain(u) /\ InLower(u) = u /\ Len(u) = 5 /\ u[1] = "open"
  BY <1>1, <1>3, FiveArePlain
<1>6. PhraseSays(t) = Plain("OpenPullRequest") /\ PhraseSays(u) = Plain("OpenPullRequest")
  BY <1>4, <1>5 DEF PhraseSays
<1>7. IsPhrase(t, Plain("OpenPullRequest")) /\ IsPhrase(u, Plain("OpenPullRequest"))
  BY <1>4, <1>5, <1>6 DEF IsPhrase
<1>8. QED
  BY <1>2, <1>3, <1>7

LEMMA PhrasesOfConflict ==
  ASSUME NEW a \in {"merge", "rebase"}, NEW b \in {"--continue", "--abort", "--skip"}, NEW r,
         r = PhraseSays(<<a, Blank, b>>)
  PROVE  IsPhrase(<<a, Blank, b>>, r)
<1>1. a \in GrammarWords /\ b \in GrammarWords /\ b \in Options
  BY DEF GrammarWords, Keywords, ConnectorWords, Options
<1>2. PICK t : t = <<a, Blank, b>>
  OBVIOUS
<1>3. IsPlain(t) /\ InLower(t) = t /\ Len(t) = 3 /\ t[1] = a /\ t[3] = b
  BY <1>1, <1>2, ThreeArePlain
<1>4. IsPhrase(t, r)
  BY <1>1, <1>2, <1>3 DEF IsPhrase
<1>5. QED
  BY <1>2, <1>4

LEMMA PhrasesAre ==
  ASSUME NEW p \in Phrases
  PROVE  IsPhrase(p[1], p[2])
<1>1. /\ PhraseSays(<<"merge", Blank, "--continue">>) = Plain("MergeContinue")
      /\ PhraseSays(<<"merge", Blank, "--abort">>) = Plain("MergeAbort")
      /\ PhraseSays(<<"rebase", Blank, "--continue">>) = Plain("RebaseContinue")
      /\ PhraseSays(<<"rebase", Blank, "--abort">>) = Plain("RebaseAbort")
      /\ PhraseSays(<<"rebase", Blank, "--skip">>) = Plain("RebaseSkip")
  BY DEF PhraseSays
<1>2. /\ IsPhrase(<<"merge", Blank, "--continue">>, Plain("MergeContinue"))
      /\ IsPhrase(<<"merge", Blank, "--abort">>, Plain("MergeAbort"))
      /\ IsPhrase(<<"rebase", Blank, "--continue">>, Plain("RebaseContinue"))
      /\ IsPhrase(<<"rebase", Blank, "--abort">>, Plain("RebaseAbort"))
      /\ IsPhrase(<<"rebase", Blank, "--skip">>, Plain("RebaseSkip"))
  BY <1>1, PhrasesOfConflict
<1>3. /\ IsPhrase(<<"pull", Blank, "--rebase">>, Plain("PullRebase"))
      /\ IsPhrase(<<"pull", Blank, "rebase">>, Plain("PullRebase"))
  BY PhrasesOfPull
<1>4. \A t, r : p = <<t, r>> /\ IsPhrase(t, r) => IsPhrase(p[1], p[2])
  OBVIOUS
<1>5. QED
  BY <1>2, <1>3, <1>4, PhrasesOfOne, PhrasesOfOpen DEF Phrases

-----------------------------------------------------------------------------
(***************************************************************************)
(* A request, as it is parsed.                                             *)
(***************************************************************************)
LEMMA PhraseIsParsed ==
  ASSUME NEW p \in Phrases
  PROVE  IsStep(p[1]) /\ ParseSingle(p[1]) = p[2]
<1> DEFINE spelled == {q \in Phrases : q[1] = InLower(p[1])}
           chosen == CHOOSE q \in spelled : TRUE
<1>1. IsPhrase(p[1], p[2])
  BY PhrasesAre
<1>2. IsStep(p[1]) /\ InLower(p[1]) = p[1] /\ p[2] = PhraseSays(p[1])
  BY <1>1, PlainIsStep DEF IsPhrase
<1>3. p \in spelled
  BY <1>2
<1>4. chosen \in spelled
  BY <1>3
<1>5. ParseSingle(p[1]) = chosen[2]
  BY <1>3 DEF ParseSingle
<1> HIDE DEF chosen
<1>6. chosen \in Phrases /\ chosen[1] = p[1]
  BY <1>2, <1>4
<1>7. chosen[2] = PhraseSays(chosen[1])
  BY <1>6, PhrasesAre DEF IsPhrase
<1>8. QED
  BY <1>2, <1>5, <1>6, <1>7

NotAPhrase(s) == {p \in Phrases : p[1] = InLower(s)} = {}

LEMMA NoPhraseBegins ==
  ASSUME NEW s \in Seq(Tokens), Len(s) >= 3,
         \/ Lower[s[1]] \in {"checkout", "branch", "commit"}
         \/ Lower[s[1]] \in {"merge", "rebase"} /\ Lower[s[3]] \notin Options
         \/ Lower[s[1]] = "open" /\ Len(s) > 5
  PROVE  NotAPhrase(s)
<1> SUFFICES ASSUME NEW p \in Phrases, p[1] = InLower(s) PROVE FALSE
  BY DEF NotAPhrase
<1> DEFINE t == InLower(s)
<1>1. Len(t) = Len(s) /\ \A i \in 1..Len(s) : t[i] = Lower[s[i]]
  BY InLowerIs
<1>2. Len(s) \in Nat /\ 1 \in 1..Len(s) /\ 3 \in 1..Len(s)
  OBVIOUS
<1>3. t[1] = Lower[s[1]] /\ t[3] = Lower[s[3]]
  BY <1>1, <1>2
<1>4. IsPhrase(t, p[2])
  BY PhrasesAre
<1> HIDE DEF t
<1>5. QED
  BY <1>1, <1>2, <1>3, <1>4 DEF IsPhrase

LEMMA StartsWith ==
  ASSUME NEW s \in Seq(Tokens), NEW words \in Seq(Tokens), NEW k \in 1..Len(words),
         Starts(s, words)
  PROVE  Lower[s[k]] = words[k]
  BY StartsIs

\* What is left of a text from a place on, with blanks before it.
LEMMA TrimmedFrom ==
  ASSUME NEW s \in Seq(Tokens), NEW k \in Nat, k >= 1, NEW e \in Nat, k <= e + 1,
         NEW w \in Seq(Tokens), w # <<>>, w[1] # Blank, w[Len(w)] # Blank,
         Occurs(s, e, w), e + Len(w) = Len(s), \A j \in k..e : s[j] = Blank
  PROVE  Trim(From(s, k)) = w
<1> DEFINE n == Len(s)
           t == SubSeq(s, k, n)
           d == k - 1
           a == e - d
<1>1. n \in Nat /\ d \in Nat /\ a \in Nat /\ Len(w) \in Nat /\ Len(w) >= 1 /\ n - d \in Nat
      /\ a + Len(w) = n - d /\ k <= n
  OBVIOUS
<1>2. t \in Seq(Tokens) /\ Len(t) = n - d /\ \A i \in 1..(n - d) : t[i] = s[d + i]
  <2>1. \A i \in k..n : s[i] \in Tokens
    OBVIOUS
  <2>2. k \in Int /\ n \in Int
    BY <1>1
  <2>3. /\ t \in Seq(Tokens) /\ Len(t) = IF k <= n THEN n - k + 1 ELSE 0
        /\ \A i \in 1..(n - k + 1) : t[i] = s[k + i - 1]
    <3> HIDE DEF n
    <3>1. QED
      BY <2>1, <2>2, SubSeqProperties
  <2> HIDE DEF t
  <2>4. n - k + 1 = n - d /\ \A i \in 1..(n - d) : k + i - 1 = d + i
    BY <1>1
  <2>5. QED
    BY <1>1, <2>3, <2>4
<1> HIDE DEF t
<1>3. Occurs(t, a, w)
  <2>1. ASSUME NEW i \in 1..Len(w) PROVE t[a + i] = w[i]
    <3>1. a + i \in 1..(n - d) /\ d + (a + i) = e + i
      BY <1>1
    <3>2. s[e + i] = w[i]
      BY DEF Occurs
    <3>3. QED
      BY <1>2, <3>1, <3>2
  <2>2. a + Len(w) <= Len(t)
    BY <1>1, <1>2
  <2>3. QED
    BY <2>1, <2>2 DEF Occurs
<1>4. \A j \in 1..Len(t) : j <= a \/ a + Len(w) < j => t[j] = Blank
  <2> SUFFICES ASSUME NEW j \in 1..(n - d), j <= a \/ a + Len(w) < j PROVE t[j] = Blank
    BY <1>2
  <2>1. j <= a /\ d + j \in k..e
    BY <1>1
  <2>2. s[d + j] = Blank
    BY <2>1
  <2>3. QED
    BY <1>2, <2>2
<1> HIDE DEF a
<1>5. Trim(t) = w
  BY <1>1, <1>2, <1>3, <1>4, TrimmedTo
<1>6. QED
  BY <1>5 DEF From, t, n

\* The alternatives of ParseSingle that are no phrase and no command.
OpensPr(s) == Starts(s, <<"open", Blank, "pr", Blank, "to", Blank>>)
OpensPull(s) == Starts(s, <<"open", Blank, "pull", Blank, "request", Blank, "to", Blank>>)
StartsBranch(s) == Starts(s, <<"branch", Blank>>)
Commits(s) == Starts(s, <<"commit">>) /\ (Len(s) = 1 \/ s[2] = Blank)

LEMMA GrammarTokens ==
  \A t \in {"open", "pr", "to", "pull", "request", "branch", "commit", "checkout", "merge", "rebase",
           "from"} : t \in Tokens /\ Lower[t] = t
<1>1. \A t \in Keywords : t \in Tokens /\ Lower[t] = t
  BY PromptAssumption
<1>2. QED
  BY <1>1 DEF Keywords

\* No two of them begin alike.
LEMMA BeginningsAre ==
  ASSUME NEW s \in Seq(Tokens)
  PROVE  /\ \A d \in Commands : Starts(s, <<d[1], Blank>>) => Lower[s[1]] = d[1]
         /\ OpensPr(s) => Lower[s[1]] = "open" /\ Lower[s[3]] = "pr"
         /\ OpensPull(s) => Lower[s[1]] = "open" /\ Lower[s[3]] = "pull"
         /\ StartsBranch(s) => Lower[s[1]] = "branch"
         /\ Commits(s) => Lower[s[1]] = "commit"
<1>1. ASSUME NEW d \in Commands, Starts(s, <<d[1], Blank>>)
      PROVE  Lower[s[1]] = d[1]
  <2>1. PICK w : w = <<d[1], Blank>>
    OBVIOUS
  <2>2. d[1] \in Tokens
    BY GrammarTokens DEF Commands
  <2>3. w \in Seq(Tokens) /\ Len(w) = 2 /\ w[1] = d[1]
    BY <2>1, <2>2, BlankIs
  <2>4. Starts(s, w) /\ 1 \in 1..Len(w)
    BY <1>1, <2>1, <2>3
  <2>5. QED
    BY <2>3, <2>4, StartsWith
<1>2. ASSUME OpensPr(s) PROVE Lower[s[1]] = "open" /\ Lower[s[3]] = "pr"
  <2>1. PICK w : w = <<"open", Blank, "pr", Blank, "to", Blank>>
    OBVIOUS
  <2>2. w \in Seq(Tokens) /\ Len(w) = 6 /\ w[1] = "open" /\ w[3] = "pr"
    BY <2>1, BlankIs, GrammarTokens
  <2>3. Starts(s, w)
    BY <1>2, <2>1 DEF OpensPr
  <2>4. 1 \in 1..Len(w) /\ 3 \in 1..Len(w)
    BY <2>2
  <2>5. QED
    BY <2>2, <2>3, <2>4, StartsWith
<1>3. ASSUME OpensPull(s) PROVE Lower[s[1]] = "open" /\ Lower[s[3]] = "pull"
  <2>1. PICK w : w = <<"open", Blank, "pull", Blank, "request", Blank, "to", Blank>>
    OBVIOUS
  <2>2. w \in Seq(Tokens) /\ Len(w) = 8 /\ w[1] = "open" /\ w[3] = "pull"
    BY <2>1, BlankIs, GrammarTokens
  <2>3. Starts(s, w)
    BY <1>3, <2>1 DEF OpensPull
  <2>4. 1 \in 1..Len(w) /\ 3 \in 1..Len(w)
    BY <2>2
  <2>5. QED
    BY <2>2, <2>3, <2>4, StartsWith
<1>4. ASSUME StartsBranch(s) PROVE Lower[s[1]] = "branch"
  <2>1. PICK w : w = <<"branch", Blank>>
    OBVIOUS
  <2>2. w \in Seq(Tokens) /\ Len(w) = 2 /\ w[1] = "branch"
    BY <2>1, BlankIs, GrammarTokens
  <2>3. Starts(s, w)
    BY <1>4, <2>1 DEF StartsBranch
  <2>4. 1 \in 1..Len(w)
    BY <2>2
  <2>5. QED
    BY <2>2, <2>3, <2>4, StartsWith
<1>5. ASSUME Commits(s) PROVE Lower[s[1]] = "commit"
  <2>1. PICK w : w = <<"commit">>
    OBVIOUS
  <2>2. w \in Seq(Tokens) /\ Len(w) = 1 /\ w[1] = "commit"
    BY <2>1, GrammarTokens
  <2>3. Starts(s, w)
    BY <1>5, <2>1 DEF Commits
  <2>4. 1 \in 1..Len(w)
    BY <2>2
  <2>5. QED
    BY <2>2, <2>3, <2>4, StartsWith
<1>6. QED
  BY <1>1, <1>2, <1>3, <1>4, <1>5

LEMMA CommandIsParsed ==
  ASSUME NEW s \in Seq(Tokens), NotAPhrase(s), NEW c \in Commands, Starts(s, <<c[1], Blank>>)
  PROVE  ParseSingle(s) = WithBranch(c[2], Trim(From(s, 2)))
<1> DEFINE command == {d \in Commands : Starts(s, <<d[1], Blank>>)}
<1>1. Lower[s[1]] = c[1] /\ \A d \in command : d[1] = c[1]
  BY BeginningsAre
<1>2. \A d \in Commands : d[1] = c[1] => d = c
  BY DEF Commands
<1>3. command = {c} /\ command # {}
  BY <1>1, <1>2
<1>4. ~OpensPr(s) /\ ~OpensPull(s) /\ ~StartsBranch(s) /\ ~Commits(s)
  <2>1. c[1] \notin {"open", "branch", "commit"}
    BY DEF Commands
  <2>2. QED
    BY <1>1, <2>1, BeginningsAre
<1>5. {p \in Phrases : p[1] = InLower(s)} = {}
  BY DEF NotAPhrase
<1>6. ParseSingle(s) =
        CASE command # {}  -> WithBranch((CHOOSE d \in command : TRUE)[2], Trim(From(s, 2)))
          [] OpensPr(s)    -> OpenTo(Trim(From(s, 6)))
          [] OpensPull(s)  -> OpenTo(Trim(From(s, 8)))
          [] StartsBranch(s)   -> ParseBranch(Words(From(s, 2)))
          [] Commits(s)    -> ParseCommit(From(s, 2))
          [] OTHER         -> None
  BY <1>5 DEF ParseSingle, OpensPr, OpensPull, StartsBranch, Commits
<1> HIDE DEF command
<1>7. ParseSingle(s) = WithBranch((CHOOSE d \in command : TRUE)[2], Trim(From(s, 2)))
  BY <1>3, <1>4, <1>6
<1>8. (CHOOSE d \in command : TRUE) = c
  BY <1>3
<1>9. QED
  BY <1>7, <1>8

LEMMA OtherIsParsed ==
  ASSUME NEW s \in Seq(Tokens), NotAPhrase(s)
  PROVE  /\ OpensPr(s) => ParseSingle(s) = OpenTo(Trim(From(s, 6)))
         /\ OpensPull(s) => ParseSingle(s) = OpenTo(Trim(From(s, 8)))
         /\ StartsBranch(s) => ParseSingle(s) = ParseBranch(Words(From(s, 2)))
         /\ Commits(s) => ParseSingle(s) = ParseCommit(From(s, 2))
<1> SUFFICES ASSUME OpensPr(s) \/ OpensPull(s) \/ StartsBranch(s) \/ Commits(s)
             PROVE  /\ OpensPr(s) => ParseSingle(s) = OpenTo(Trim(From(s, 6)))
                    /\ OpensPull(s) => ParseSingle(s) = OpenTo(Trim(From(s, 8)))
                    /\ StartsBranch(s) => ParseSingle(s) = ParseBranch(Words(From(s, 2)))
                    /\ Commits(s) => ParseSingle(s) = ParseCommit(From(s, 2))
  OBVIOUS
<1>1. /\ OpensPr(s) => ~OpensPull(s) /\ ~StartsBranch(s) /\ ~Commits(s)
      /\ OpensPull(s) => ~OpensPr(s) /\ ~StartsBranch(s) /\ ~Commits(s)
      /\ StartsBranch(s) => ~OpensPr(s) /\ ~OpensPull(s) /\ ~Commits(s)
      /\ Commits(s) => ~OpensPr(s) /\ ~OpensPull(s) /\ ~StartsBranch(s)
  BY BeginningsAre
<1>2. {d \in Commands : Starts(s, <<d[1], Blank>>)} = {}
  <2>1. Lower[s[1]] \in {"open", "branch", "commit"}
    BY BeginningsAre
  <2>2. \A d \in Commands : d[1] \notin {"open", "branch", "commit"}
    BY DEF Commands
  <2>3. \A d \in Commands : ~Starts(s, <<d[1], Blank>>)
    BY <2>1, <2>2, BeginningsAre
  <2>4. QED
    BY <2>3
<1>3. {p \in Phrases : p[1] = InLower(s)} = {}
  BY DEF NotAPhrase
<1>4. ParseSingle(s) =
        CASE FALSE         -> WithBranch((CHOOSE e \in {} : TRUE)[2], Trim(From(s, 2)))
          [] OpensPr(s)    -> OpenTo(Trim(From(s, 6)))
          [] OpensPull(s)  -> OpenTo(Trim(From(s, 8)))
          [] StartsBranch(s)   -> ParseBranch(Words(From(s, 2)))
          [] Commits(s)    -> ParseCommit(From(s, 2))
          [] OTHER         -> None
  BY <1>2, <1>3 DEF ParseSingle, OpensPr, OpensPull, StartsBranch, Commits
<1>5. OpensPr(s) => ParseSingle(s) = OpenTo(Trim(From(s, 6)))
  BY <1>1, <1>4
<1>6. OpensPull(s) => ParseSingle(s) = OpenTo(Trim(From(s, 8)))
  BY <1>1, <1>4
<1>7. StartsBranch(s) => ParseSingle(s) = ParseBranch(Words(From(s, 2)))
  BY <1>1, <1>4
<1>8. Commits(s) => ParseSingle(s) = ParseCommit(From(s, 2))
  BY <1>1, <1>4
<1>9. QED
  BY <1>5, <1>6, <1>7, <1>8

\* The name of a branch.
LEMMA NameIs ==
  ASSUME NEW w, IsName(w)
  PROVE  /\ w \in Seq(Tokens) /\ w # <<>> /\ Len(w) \in Nat /\ Len(w) >= 1
         /\ w[1] # Blank /\ w[Len(w)] # Blank /\ Lower[w[1]] \notin Options
         /\ \A i \in 1..Len(w) : w[i] # Blank
         /\ IsBranchArg(w)
<1>1. w \in Seq(Tokens) /\ IsBranchArg(w) /\ IsPlain(w)
  BY NameIsPlain DEF IsName
<1>2. w # <<>> /\ Lower[w[1]] \notin Options /\ \A i \in DOMAIN w : w[i] # Blank
  BY <1>1 DEF IsBranchArg, IsOption
<1>3. QED
  BY <1>1, <1>2 DEF IsPlain

\* A name behind plain words.
EndsInName(s, u, w) ==
  /\ IsPlain(s) /\ s \in Seq(Tokens) /\ Len(s) = (Len(u) + 1) + Len(w)
  /\ Len(u) \in Nat /\ Len(u) >= 1 /\ Len(w) \in Nat /\ Len(w) >= 1
  /\ \A i \in 1..Len(u) : s[i] = u[i]
  /\ s[Len(u) + 1] = Blank /\ s[Len(u) + 2] = w[1]
  /\ Trim(From(s, Len(u) + 1)) = w

LEMMA NameBehind ==
  ASSUME NEW s, NEW u, NEW w, IsPlain(u), IsName(w), Joins(s, u, <<Blank>>, w)
  PROVE  EndsInName(s, u, w)
<1> DEFINE m == Len(u)
           e == Len(u) + 1
<1>1. /\ w \in Seq(Tokens) /\ w # <<>> /\ Len(w) \in Nat /\ Len(w) >= 1
      /\ w[1] # Blank /\ w[Len(w)] # Blank /\ IsPlain(w)
  BY NameIs, NameIsPlain
<1>2. IsPlain(s) /\ u \in Seq(Tokens) /\ m \in Nat /\ m >= 1 /\ e \in Nat
  BY <1>1, PlainJoined DEF IsPlain
<1>3. PICK gap : gap = <<Blank>>
  OBVIOUS
<1>4. Len(gap) = 1 /\ gap[1] = Blank
  BY <1>3
<1>5. /\ s \in Seq(Tokens) /\ Len(s) = e + Len(w)
      /\ Occurs(s, 0, u) /\ Occurs(s, m, gap) /\ Occurs(s, e, w)
  <2>1. Joins(s, u, gap, w)
    BY <1>3
  <2>2. QED
    BY <1>4, <2>1 DEF Joins
<1>6. ASSUME NEW i \in 1..m PROVE s[i] = u[i]
  <2>1. 0 + i = i /\ s[0 + i] = u[i]
    BY <1>5 DEF Occurs
  <2>2. QED
    BY <2>1
<1>7. s[e] = Blank
  <2>1. 1 \in 1..Len(gap)
    BY <1>4
  <2>2. s[m + 1] = gap[1]
    BY <1>5, <2>1 DEF Occurs
  <2>3. QED
    BY <1>4, <2>2
<1>8. s[m + 2] = w[1]
  <2>1. 1 \in 1..Len(w) /\ e + 1 = m + 2
    BY <1>1, <1>2
  <2>2. s[e + 1] = w[1]
    BY <1>5, <2>1 DEF Occurs
  <2>3. QED
    BY <2>1, <2>2
<1>9. Trim(From(s, e)) = w
  <2>1. e >= 1 /\ e <= e + 1 /\ \A j \in e..e : j = e
    BY <1>2
  <2> HIDE DEF e
  <2>2. \A j \in e..e : s[j] = Blank
    BY <1>7, <2>1
  <2>3. QED
    BY <1>1, <1>2, <1>5, <2>1, <2>2, TrimmedFrom
<1>10. QED
  BY <1>1, <1>2, <1>5, <1>6, <1>7, <1>8, <1>9 DEF EndsInName

\* Words, and the blank behind them.
EndsInBlank(h, u) ==
  /\ h \in Seq(Tokens) /\ Len(h) = Len(u) + 1
  /\ \A i \in 1..Len(u) : h[i] = u[i]
  /\ h[Len(u) + 1] = Blank

LEMMA ConcatIs ==
  ASSUME NEW a \in Seq(Tokens), NEW b \in Seq(Tokens), NEW g, g = a \o b
  PROVE  /\ g \in Seq(Tokens) /\ Len(g) = Len(a) + Len(b)
         /\ \A i \in 1..Len(a) : g[i] = a[i]
         /\ \A i \in 1..Len(b) : g[Len(a) + i] = b[i]
<1>1. Len(a) \in Nat /\ Len(b) \in Nat
  OBVIOUS
<1>2. /\ g \in Seq(Tokens) /\ Len(g) = Len(a) + Len(b)
      /\ \A i \in 1..(Len(a) + Len(b)) : g[i] = IF i <= Len(a) THEN a[i] ELSE b[i - Len(a)]
  BY ConcatProperties
<1>3. ASSUME NEW i \in 1..Len(b) PROVE g[Len(a) + i] = b[i]
  <2>1. Len(a) + i \in 1..(Len(a) + Len(b)) /\ ~ (Len(a) + i <= Len(a)) /\ (Len(a) + i) - Len(a) = i
    BY <1>1
  <2>2. QED
    BY <1>2, <2>1
<1>4. QED
  BY <1>1, <1>2, <1>3

LEMMA BlankJoins ==
  ASSUME NEW u \in Seq(Tokens), NEW w \in Seq(Tokens), NEW h, EndsInBlank(h, u)
  PROVE  Joins(h \o w, u, <<Blank>>, w)
<1> DEFINE s == h \o w
<1>1. /\ Len(u) \in Nat /\ Len(w) \in Nat /\ Len(h) \in Nat /\ Len(<<Blank>>) = 1
      /\ h \in Seq(Tokens) /\ Len(h) = Len(u) + 1
      /\ \A i \in 1..Len(u) : h[i] = u[i]
      /\ h[Len(u) + 1] = Blank
  BY DEF EndsInBlank
<1>2. /\ s \in Seq(Tokens) /\ Len(s) = Len(h) + Len(w)
      /\ \A i \in 1..Len(h) : s[i] = h[i]
      /\ \A i \in 1..Len(w) : s[Len(h) + i] = w[i]
  <2>1. h \in Seq(Tokens)
    BY <1>1
  <2>2. PICK g : g = h \o w
    OBVIOUS
  <2>3. /\ g \in Seq(Tokens) /\ Len(g) = Len(h) + Len(w)
        /\ \A i \in 1..Len(h) : g[i] = h[i]
        /\ \A i \in 1..Len(w) : g[Len(h) + i] = w[i]
    BY <2>1, <2>2, ConcatIs
  <2>4. QED
    BY <2>2, <2>3
<1> HIDE DEF s
<1>3. Occurs(s, 0, u)
  <2>1. ASSUME NEW i \in 1..Len(u) PROVE s[0 + i] = u[i]
    <3>1. 0 + i = i /\ i \in 1..Len(h)
      BY <1>1
    <3>2. s[i] = h[i] /\ h[i] = u[i]
      BY <1>1, <1>2, <3>1
    <3>3. QED
      BY <3>1, <3>2
  <2>2. QED
    BY <1>1, <1>2, <2>1 DEF Occurs
<1>4. Occurs(s, Len(u), <<Blank>>)
  <2>1. Len(u) + 1 \in 1..Len(h) /\ Len(u) + 1 <= Len(s)
    BY <1>1, <1>2
  <2>2. s[Len(u) + 1] = h[Len(u) + 1]
    BY <1>2, <2>1
  <2>3. s[Len(u) + 1] = Blank
    BY <1>1, <2>2
  <2>4. QED
    BY <1>1, <2>1, <2>3, OneOccurs
<1>5. Occurs(s, Len(u) + 1, w)
  <2>1. ASSUME NEW i \in 1..Len(w) PROVE s[(Len(u) + 1) + i] = w[i]
    BY <1>1, <1>2
  <2>2. QED
    BY <1>1, <1>2, <2>1 DEF Occurs
<1>6. Joins(s, u, <<Blank>>, w)
  BY <1>1, <1>2, <1>3, <1>4, <1>5 DEF Joins
<1>7. QED
  BY <1>6 DEF s

\* Words of the grammar, a blank, and a name.
LEMMA NameFollows ==
  ASSUME NEW u, IsPlain(u), InLower(u) = u, NEW w, IsName(w), NEW h, EndsInBlank(h, u)
  PROVE  EndsInName(h \o w, u, w) /\ Starts(h \o w, h)
<1>1. PICK t : t = h \o w
  OBVIOUS
<1>2. u \in Seq(Tokens) /\ w \in Seq(Tokens) /\ Len(w) \in Nat /\ Len(u) \in Nat
  BY NameIs DEF IsPlain
<1>3. Joins(t, u, <<Blank>>, w)
  BY <1>1, <1>2, BlankJoins
<1>4. EndsInName(t, u, w)
  BY <1>3, NameBehind
<1>5. t \in Seq(Tokens) /\ h \in Seq(Tokens) /\ Len(h) <= Len(t) /\ Len(h) = Len(u) + 1
  BY <1>2, <1>4 DEF EndsInName, EndsInBlank
<1>6. \A i \in 1..Len(h) : Lower[t[i]] = h[i]
  <2> SUFFICES ASSUME NEW i \in 1..Len(h) PROVE Lower[t[i]] = h[i]
    OBVIOUS
  <2>1. CASE i = Len(u) + 1
    BY <1>4, <2>1, BlankIs DEF EndsInName, EndsInBlank
  <2>2. CASE i \in 1..Len(u)
    <3>1. t[i] = u[i] /\ h[i] = u[i]
      BY <1>4, <2>2 DEF EndsInName, EndsInBlank
    <3>2. InLower(u)[i] = Lower[u[i]]
      BY <1>2, <2>2, InLowerIs
    <3>3. QED
      BY <3>1, <3>2
  <2>3. QED
    BY <1>2, <1>5, <2>1, <2>2
<1>7. Starts(t, h)
  BY <1>5, <1>6, StartsIs
<1>8. QED
  BY <1>1, <1>4, <1>7

LEMMA CommandWritten ==
  ASSUME NEW c \in Commands, NEW name, IsName(name), NEW text, text = <<c[1], Blank>> \o name
  PROVE  IsPlain(text) /\ ParseSingle(text) = Request(c[2], name, <<>>)
<1>1. PICK u, h, s : u = <<c[1]>> /\ h = <<c[1], Blank>> /\ s = text
  OBVIOUS
<1>2. c[1] \in GrammarWords /\ c[1] \in Tokens /\ Lower[c[1]] = c[1]
      /\ c[1] \in {"checkout", "merge", "rebase"}
  BY GrammarTokens DEF Commands, GrammarWords, Keywords, ConnectorWords
<1>3. IsPlain(u) /\ InLower(u) = u /\ Len(u) = 1 /\ u[1] = c[1]
  BY <1>1, <1>2, OneIsPlain
<1>4. h \in Seq(Tokens) /\ Len(h) = 2 /\ h[1] = c[1] /\ h[2] = Blank
  BY <1>1, <1>2, BlankIs
<1>5. Lower[name[1]] \notin Options /\ IsBranchArg(name)
  BY NameIs
<1>6. EndsInBlank(h, u)
  BY <1>3, <1>4 DEF EndsInBlank
<1>7. EndsInName(s, u, name) /\ Starts(s, h)
  BY <1>1, <1>3, <1>6, NameFollows
<1>8. /\ IsPlain(s) /\ s \in Seq(Tokens) /\ Len(s) >= 3 /\ s[1] = c[1]
      /\ s[3] = name[1] /\ Trim(From(s, 2)) = name
  <2>1. Len(u) + 1 = 2 /\ Len(u) + 2 = 3 /\ 1 \in 1..Len(u)
    BY <1>3
  <2>2. QED
    BY <1>3, <1>7, <2>1 DEF EndsInName
<1>9. NotAPhrase(s)
  BY <1>2, <1>5, <1>8, NoPhraseBegins
<1>10. ParseSingle(s) = WithBranch(c[2], name)
  BY <1>1, <1>7, <1>8, <1>9, CommandIsParsed
<1>11. QED
  BY <1>1, <1>5, <1>8, <1>10 DEF WithBranch

LEMMA Associated ==
  ASSUME NEW a \in Seq(Tokens), NEW b \in Seq(Tokens), NEW c \in Seq(Tokens)
  PROVE  (a \o b) \o c = a \o (b \o c)
  BY ConcatAssociative

LEMMA OpensPrWritten ==
  ASSUME NEW base, IsName(base), NEW text,
         text = <<"open", Blank, "pr">> \o (<<Blank, "to", Blank>> \o base)
  PROVE  IsPlain(text) /\ ParseSingle(text) = Request("OpenPullRequest", <<>>, base)
<1>1. /\ "open" \in GrammarWords /\ "pr" \in GrammarWords /\ "to" \in GrammarWords
      /\ "open" \in Tokens /\ "pr" \in Tokens /\ "to" \in Tokens
  BY GrammarTokens DEF GrammarWords, Keywords, ConnectorWords
<1>2. PICK a, b, h, u : /\ a = <<"open", Blank, "pr">> /\ b = <<Blank, "to", Blank>>
                        /\ h = <<"open", Blank, "pr", Blank, "to", Blank>>
                        /\ u = <<"open", Blank, "pr", Blank, "to">>
  OBVIOUS
<1>3. /\ h \in Seq(Tokens) /\ Len(h) = 6
      /\ h[1] = "open" /\ h[2] = Blank /\ h[3] = "pr" /\ h[4] = Blank /\ h[5] = "to" /\ h[6] = Blank
  BY <1>1, <1>2, BlankIs
<1>4. /\ Len(u) = 5 /\ u[1] = "open" /\ u[2] = Blank /\ u[3] = "pr" /\ u[4] = Blank /\ u[5] = "to"
  BY <1>2
<1>5. IsPlain(u) /\ InLower(u) = u
  BY <1>1, <1>2, FiveArePlain
<1>6. /\ a \in Seq(Tokens) /\ Len(a) = 3 /\ a[1] = "open" /\ a[2] = Blank /\ a[3] = "pr"
      /\ b \in Seq(Tokens) /\ Len(b) = 3 /\ b[1] = Blank /\ b[2] = "to" /\ b[3] = Blank
  BY <1>1, <1>2, BlankIs
<1>7. a \o b = h
  <2>1. PICK g : g = a \o b
    OBVIOUS
  <2>2. /\ g \in Seq(Tokens) /\ Len(g) = Len(a) + Len(b)
        /\ \A i \in 1..Len(a) : g[i] = a[i]
        /\ \A i \in 1..Len(b) : g[Len(a) + i] = b[i]
    <3>1. a \in Seq(Tokens) /\ b \in Seq(Tokens)
      BY <1>6
    <3>2. QED
      BY <2>1, <3>1, ConcatIs
  <2>3. /\ g[1] = a[1] /\ g[2] = a[2] /\ g[3] = a[3]
        /\ g[3 + 1] = b[1] /\ g[3 + 2] = b[2] /\ g[3 + 3] = b[3]
    BY <1>6, <2>2
  <2>4. Len(g) = 6 /\ g \in Seq(Tokens)
    BY <1>6, <2>2
  <2>5. \A i \in 1..6 : g[i] = h[i]
    BY <1>3, <1>6, <2>3
  <2>6. g = h
    BY <1>3, <2>4, <2>5, SeqEqual
  <2>7. QED
    BY <2>1, <2>6
<1>8. base \in Seq(Tokens) /\ IsBranchArg(base)
  BY NameIs
<1>9. text = h \o base
  <2>1. text = a \o (b \o base)
    BY <1>2
  <2>2. QED
    <3>1. a \in Seq(Tokens) /\ b \in Seq(Tokens)
      BY <1>6
    <3>2. (a \o b) \o base = a \o (b \o base)
      BY <1>8, <3>1, Associated
    <3>3. QED
      BY <1>7, <2>1, <3>2
<1>10. PICK s : s = text
  OBVIOUS
<1>11. /\ IsPlain(s) /\ s \in Seq(Tokens) /\ Len(s) >= 7 /\ Starts(s, h) /\ s[1] = "open"
       /\ Trim(From(s, 6)) = base
  <2>1. Len(u) + 1 = 6 /\ Len(u) + 2 = 7 /\ 1 \in 1..Len(u)
    BY <1>4
  <2>2. EndsInBlank(h, u)
    BY <1>3, <1>4 DEF EndsInBlank
  <2>3. EndsInName(h \o base, u, base) /\ Starts(h \o base, h)
    BY <1>5, <2>2, NameFollows
  <2>4. EndsInName(s, u, base) /\ Starts(s, h)
    BY <1>9, <1>10, <2>3
  <2>5. QED
    BY <1>4, <2>1, <2>4 DEF EndsInName
<1>12. NotAPhrase(s)
  <2>1. Lower[s[1]] = "open" /\ Len(s) > 5
    BY <1>11, GrammarTokens
  <2>2. QED
    BY <1>11, <2>1, NoPhraseBegins
<1>13. OpensPr(s)
  BY <1>2, <1>11 DEF OpensPr
<1>14. ParseSingle(s) = OpenTo(base)
  BY <1>11, <1>12, <1>13, OtherIsParsed
<1>15. QED
  BY <1>8, <1>10, <1>11, <1>14 DEF OpenTo

LEMMA OpensPullWritten ==
  ASSUME NEW base, IsName(base), NEW text,
         text = <<"open", Blank, "pull", Blank, "request">> \o (<<Blank, "to", Blank>> \o base)
  PROVE  IsPlain(text) /\ ParseSingle(text) = Request("OpenPullRequest", <<>>, base)
<1>1. /\ "open" \in GrammarWords /\ "pull" \in GrammarWords /\ "request" \in GrammarWords
      /\ "to" \in GrammarWords
      /\ "open" \in Tokens /\ "pull" \in Tokens /\ "request" \in Tokens /\ "to" \in Tokens
  BY GrammarTokens DEF GrammarWords, Keywords, ConnectorWords
<1>2. PICK a, b, h, u : /\ a = <<"open", Blank, "pull", Blank, "request">> /\ b = <<Blank, "to", Blank>>
                        /\ h = <<"open", Blank, "pull", Blank, "request", Blank, "to", Blank>>
                        /\ u = <<"open", Blank, "pull", Blank, "request", Blank, "to">>
  OBVIOUS
<1>3. /\ h \in Seq(Tokens) /\ Len(h) = 8
      /\ h[1] = "open" /\ h[2] = Blank /\ h[3] = "pull" /\ h[4] = Blank /\ h[5] = "request"
      /\ h[6] = Blank /\ h[7] = "to" /\ h[8] = Blank
  BY <1>1, <1>2, BlankIs
<1>4. /\ u \in Seq(Tokens) /\ Len(u) = 7
      /\ u[1] = "open" /\ u[2] = Blank /\ u[3] = "pull" /\ u[4] = Blank /\ u[5] = "request"
      /\ u[6] = Blank /\ u[7] = "to"
  BY <1>1, <1>2, BlankIs
<1>5. /\ a \in Seq(Tokens) /\ Len(a) = 5 /\ a[1] = "open" /\ a[2] = Blank /\ a[3] = "pull"
      /\ a[4] = Blank /\ a[5] = "request"
      /\ b \in Seq(Tokens) /\ Len(b) = 3 /\ b[1] = Blank /\ b[2] = "to" /\ b[3] = Blank
  BY <1>1, <1>2, BlankIs
<1>6. IsPlain(u) /\ InLower(u) = u
  <2>1. IsPlain(a) /\ InLower(a) = a /\ IsPlain(<<"to">>)
    BY <1>1, <1>2, FiveArePlain, GrammarWordIsPlain
  <2>2. Occurs(u, 0, a)
    BY <1>4, <1>5 DEF Occurs
  <2>3. Occurs(u, 5, <<Blank>>) /\ Occurs(u, 6, <<"to">>)
    <3>1. u[5 + 1] = Blank /\ u[6 + 1] = "to" /\ 5 + 1 <= Len(u) /\ 6 + 1 <= Len(u)
      BY <1>4
    <3>2. QED
      BY <3>1, OneOccurs
  <2>4. Len(<<Blank>>) = 1 /\ Len(<<"to">>) = 1
    OBVIOUS
  <2>5. Joins(u, a, <<Blank>>, <<"to">>)
    BY <1>4, <1>5, <2>2, <2>3, <2>4 DEF Joins
  <2>6. IsPlain(u)
    BY <2>1, <2>5, PlainJoined
  <2>7. InLower(u) = u
    <3>1. PICK v : v = InLower(u)
      OBVIOUS
    <3>2. v \in Seq(Tokens) /\ Len(v) = 7 /\ \A i \in 1..7 : v[i] = Lower[u[i]]
      BY <1>4, <3>1, InLowerIs
    <3>3. \A i \in 1..7 : Lower[u[i]] = u[i]
      BY <1>4, BlankIs, GrammarTokens
    <3>4. Len(v) = Len(u) /\ u \in Seq(Tokens) /\ \A i \in 1..Len(v) : v[i] = u[i]
      BY <1>4, <3>2, <3>3
    <3>5. v = u
      BY <3>2, <3>4, SeqEqual
    <3>6. QED
      BY <3>1, <3>5
  <2>8. QED
    BY <2>6, <2>7
<1>7. a \o b = h
  <2>1. PICK g : g = a \o b
    OBVIOUS
  <2>2. /\ g \in Seq(Tokens) /\ Len(g) = Len(a) + Len(b)
        /\ \A i \in 1..Len(a) : g[i] = a[i]
        /\ \A i \in 1..Len(b) : g[Len(a) + i] = b[i]
    <3>1. a \in Seq(Tokens) /\ b \in Seq(Tokens)
      BY <1>5
    <3>2. QED
      BY <2>1, <3>1, ConcatIs
  <2>3. /\ g[1] = a[1] /\ g[2] = a[2] /\ g[3] = a[3] /\ g[4] = a[4] /\ g[5] = a[5]
        /\ g[5 + 1] = b[1] /\ g[5 + 2] = b[2] /\ g[5 + 3] = b[3]
    BY <1>5, <2>2
  <2>4. Len(g) = 8 /\ g \in Seq(Tokens)
    BY <1>5, <2>2
  <2>5. \A i \in 1..8 : g[i] = h[i]
    BY <1>3, <1>5, <2>3
  <2>6. g = h
    BY <1>3, <2>4, <2>5, SeqEqual
  <2>7. QED
    BY <2>1, <2>6
<1>8. base \in Seq(Tokens) /\ IsBranchArg(base)
  BY NameIs
<1>9. text = h \o base
  <2>1. text = a \o (b \o base)
    BY <1>2
  <2>2. QED
    <3>1. a \in Seq(Tokens) /\ b \in Seq(Tokens)
      BY <1>5
    <3>2. (a \o b) \o base = a \o (b \o base)
      BY <1>8, <3>1, Associated
    <3>3. QED
      BY <1>7, <2>1, <3>2
<1>10. PICK s : s = text
  OBVIOUS
<1>11. /\ IsPlain(s) /\ s \in Seq(Tokens) /\ Len(s) >= 9 /\ Starts(s, h) /\ s[1] = "open"
       /\ Trim(From(s, 8)) = base
  <2>1. Len(u) + 1 = 8 /\ Len(u) + 2 = 9 /\ 1 \in 1..Len(u)
    BY <1>4
  <2>2. EndsInBlank(h, u)
    BY <1>3, <1>4 DEF EndsInBlank
  <2>3. EndsInName(h \o base, u, base) /\ Starts(h \o base, h)
    BY <1>6, <2>2, NameFollows
  <2>4. EndsInName(s, u, base) /\ Starts(s, h)
    BY <1>9, <1>10, <2>3
  <2>5. QED
    BY <1>4, <2>1, <2>4 DEF EndsInName
<1>12. NotAPhrase(s)
  <2>1. Lower[s[1]] = "open" /\ Len(s) > 5
    BY <1>11, GrammarTokens
  <2>2. QED
    BY <1>11, <2>1, NoPhraseBegins
<1>13. OpensPull(s)
  BY <1>2, <1>11 DEF OpensPull
<1>14. ParseSingle(s) = OpenTo(base)
  BY <1>11, <1>12, <1>13, OtherIsParsed
<1>15. QED
  BY <1>8, <1>10, <1>11, <1>14 DEF OpenTo

-----------------------------------------------------------------------------
(***************************************************************************)
(* The words of a step.                                                    *)
(***************************************************************************)
\* The function by which Words is defined, on the first places of a text.
IsWords(words, s, n) ==
  words = [i \in 0..n |-> IF i = 0 THEN <<>> ELSE AddToWords(words[i - 1], s, i)]

LEMMA WordsExist ==
  ASSUME NEW s, NEW n \in Nat
  PROVE  \E words : IsWords(words, s, n)
<1> DEFINE T == {k \in Nat : \E words : IsWords(words, s, k)}
<1>1. 0 \in T
  <2>1. IsWords([i \in 0..0 |-> <<>>], s, 0)
    BY DEF IsWords
  <2>2. QED
    BY <2>1
<1>2. ASSUME NEW k \in Nat, k \in T PROVE k + 1 \in T
  <2>1. PICK words : IsWords(words, s, k)
    BY <1>2
  <2> DEFINE last == AddToWords(words[k], s, k + 1)
             next == [i \in 0..(k + 1) |-> IF i = k + 1 THEN last ELSE words[i]]
             step(f, i) == IF i = 0 THEN <<>> ELSE AddToWords(f[i - 1], s, i)
  <2>2. ASSUME NEW i \in 0..(k + 1)
        PROVE  next[i] = step(next, i)
    <3>1. CASE i = k + 1
      <4>1. next[i] = last /\ next[i - 1] = words[k] /\ i # 0
        BY <3>1
      <4> HIDE DEF next
      <4>2. QED
        BY <3>1, <4>1
    <3>2. CASE i \in 0..k
      <4>1. next[i] = words[i] /\ (i # 0 => next[i - 1] = words[i - 1])
        BY <3>2
      <4>2. words[i] = step(words, i)
        BY <2>1, <3>2 DEF IsWords
      <4> HIDE DEF next
      <4>3. QED
        BY <4>1, <4>2
    <3>3. QED
      BY <3>1, <3>2
  <2>3. next = [i \in 0..(k + 1) |-> next[i]]
    OBVIOUS
  <2> HIDE DEF next
  <2>4. IsWords(next, s, k + 1)
    BY <2>2, <2>3 DEF IsWords
  <2>5. QED
    BY <2>4
<1> HIDE DEF T
<1>3. Nat \subseteq T
  BY <1>1, <1>2, SetInduction
<1>4. QED
  BY <1>3 DEF T

\* The words up to every place of a text.
CountsWords(words, s) ==
  /\ words[0] = <<>>
  /\ \A i \in 1..Len(s) : words[i] = AddToWords(words[i - 1], s, i)

LEMMA WordsAre ==
  ASSUME NEW s \in Seq(Tokens)
  PROVE  \E words : CountsWords(words, s) /\ Words(s) = words[Len(s)]
<1> DEFINE n == Len(s)
           words == CHOOSE f : IsWords(f, s, n)
<1>1. n \in Nat
  OBVIOUS
<1>2. IsWords(words, s, n)
  <2>1. \E f : IsWords(f, s, n)
    BY <1>1, WordsExist
  <2> HIDE DEF n
  <2>2. QED
    BY <2>1
<1>3. Words(s) = words[n]
  BY DEF Words, IsWords
<1> HIDE DEF words, n
<1>4. words[0] = <<>> /\ \A i \in 1..n : words[i] = AddToWords(words[i - 1], s, i)
  BY <1>1, <1>2 DEF IsWords
<1>5. QED
  BY <1>3, <1>4 DEF CountsWords, n

LEMMA BlankIsNoWord ==
  ASSUME NEW s, NEW words, CountsWords(words, s), NEW i \in 1..Len(s), s[i] = Blank
  PROVE  words[i] = words[i - 1]
<1>1. words[i] = AddToWords(words[i - 1], s, i)
  BY DEF CountsWords
<1>2. QED
  BY <1>1 DEF AddToWords

LEMMA LastReplaced ==
  ASSUME NEW S, NEW s \in Seq(S), NEW x \in S, NEW y \in S
  PROVE  [Append(s, x) EXCEPT ![Len(s) + 1] = y] = Append(s, y)
<1> DEFINE a == Append(s, x)
           b == Append(s, y)
           c == [a EXCEPT ![Len(s) + 1] = y]
<1>1. /\ a \in Seq(S) /\ Len(a) = Len(s) + 1 /\ \A i \in 1..Len(s) : a[i] = s[i]
      /\ b \in Seq(S) /\ Len(b) = Len(s) + 1 /\ \A i \in 1..Len(s) : b[i] = s[i]
      /\ b[Len(s) + 1] = y
  BY AppendProperties
<1>2. Len(s) \in Nat
  OBVIOUS
<1> HIDE DEF a, b
<1>3. c \in Seq(S) /\ Len(c) = Len(s) + 1
      /\ \A i \in 1..(Len(s) + 1) : c[i] = IF i = Len(s) + 1 THEN y ELSE a[i]
  BY <1>1, <1>2
<1> HIDE DEF c
<1>4. \A i \in 1..(Len(s) + 1) : c[i] = b[i]
  BY <1>1, <1>2, <1>3
<1>5. c = b
  BY <1>1, <1>3, <1>4, SeqEqual
<1>6. QED
  BY <1>5 DEF a, b, c

\* A word, and that it begins behind a place of a text.
IsWord(w) == w \in Seq(Tokens) /\ Len(w) >= 1 /\ \A i \in 1..Len(w) : w[i] # Blank
BeginsAfter(s, a, w) == a \in Nat /\ (a = 0 \/ s[a] = Blank) /\ Occurs(s, a, w)

LEMMA WordAdded ==
  ASSUME NEW s \in Seq(Tokens), NEW words, CountsWords(words, s), NEW w, IsWord(w),
         NEW a, BeginsAfter(s, a, w), words[a] \in Seq(Seq(Tokens))
  PROVE  words[a + Len(w)] = Append(words[a], w)
<1>a. PICK before \in Seq(Seq(Tokens)) : before = words[a]
  OBVIOUS
<1>0. /\ w \in Seq(Tokens) /\ Len(w) >= 1 /\ \A i \in 1..Len(w) : w[i] # Blank
      /\ a \in Nat /\ (a = 0 \/ s[a] = Blank) /\ Occurs(s, a, w)
  BY DEF IsWord, BeginsAfter
<1> DEFINE n == Len(w)
           T == {k \in Nat : k + 1 <= n => words[a + (k + 1)] = Append(before, SubSeq(w, 1, k + 1))}
<1>1. n \in Nat /\ n >= 1 /\ Len(s) \in Nat /\ a + n <= Len(s)
  BY <1>0 DEF Occurs
<1>2. ASSUME NEW k \in 1..n
      PROVE  /\ s[a + k] = w[k] /\ w[k] # Blank /\ w[k] \in Tokens /\ a + k \in 1..Len(s)
             /\ words[a + k] = AddToWords(words[(a + k) - 1], s, a + k)
  <2>1. a + k \in 1..Len(s)
    BY <1>0, <1>1
  <2>2. QED
    BY <1>0, <2>1 DEF Occurs, CountsWords
<1>3. 0 \in T
  <2>1. 1 \in 1..n /\ (a + 1) - 1 = a /\ 0 + 1 = 1
    BY <1>0, <1>1
  <2>2. words[a + 1] = AddToWords(before, s, a + 1) /\ s[a + 1] = w[1] /\ w[1] # Blank
    BY <1>a, <1>2, <2>1
  <2>3. AddToWords(before, s, a + 1) = Append(before, <<w[1]>>)
    <3>1. ~ (a + 1 > 1 /\ s[(a + 1) - 1] # Blank)
      BY <1>0, <2>1
    <3>2. QED
      BY <2>2, <3>1 DEF AddToWords
  <2>4. SubSeq(w, 1, 1) = <<w[1]>>
    <3> DEFINE x == SubSeq(w, 1, 1)
               y == <<w[1]>>
    <3>1. x \in Seq(Tokens) /\ Len(x) = 1 /\ x[1] = w[1]
      BY <1>0, <1>1
    <3>2. y \in Seq(Tokens) /\ Len(y) = 1 /\ y[1] = w[1]
      BY <1>2, <2>1
    <3> HIDE DEF x, y
    <3>3. x = y
      BY <3>1, <3>2, SeqEqual
    <3>4. QED
      BY <3>3 DEF x, y
  <2>5. QED
    BY <2>1, <2>2, <2>3, <2>4
<1>4. ASSUME NEW k \in Nat, k \in T PROVE k + 1 \in T
  <2> SUFFICES ASSUME (k + 1) + 1 <= n
               PROVE  words[a + ((k + 1) + 1)] = Append(before, SubSeq(w, 1, (k + 1) + 1))
    OBVIOUS
  <2> DEFINE i == a + ((k + 1) + 1)
             part == SubSeq(w, 1, k + 1)
             old == Append(before, part)
  <2>1. /\ k + 1 \in 1..n /\ (k + 1) + 1 \in 1..n /\ i - 1 = a + (k + 1) /\ i > 1 /\ i \in Nat
    BY <1>0, <1>1
  <2>2. words[i - 1] = old
    BY <1>4, <2>1
  <2>3. /\ s[i] = w[(k + 1) + 1] /\ w[(k + 1) + 1] # Blank /\ w[(k + 1) + 1] \in Tokens
        /\ words[i] = AddToWords(words[i - 1], s, i)
    BY <1>2, <2>1
  <2>4. s[i - 1] # Blank
    BY <1>2, <2>1
  <2>5. part \in Seq(Tokens) /\ Len(part) = k + 1 /\ \A j \in 1..(k + 1) : part[j] = w[j]
    BY <1>0, <1>1
  <2>6. SubSeq(w, 1, (k + 1) + 1) = Append(part, w[(k + 1) + 1])
    <3> DEFINE x == SubSeq(w, 1, (k + 1) + 1)
               y == Append(part, w[(k + 1) + 1])
    <3>1. x \in Seq(Tokens) /\ Len(x) = (k + 1) + 1 /\ \A j \in 1..((k + 1) + 1) : x[j] = w[j]
      BY <1>0, <1>1
    <3> HIDE DEF x, part
    <3>2. /\ y \in Seq(Tokens) /\ Len(y) = (k + 1) + 1 /\ y[(k + 1) + 1] = w[(k + 1) + 1]
          /\ \A j \in 1..(k + 1) : y[j] = part[j]
      BY <2>3, <2>5, AppendProperties
    <3> HIDE DEF y
    <3>3. \A j \in 1..((k + 1) + 1) : x[j] = y[j]
      <4> SUFFICES ASSUME NEW j \in 1..((k + 1) + 1) PROVE x[j] = y[j]
        OBVIOUS
      <4>1. CASE j = (k + 1) + 1
        <5>1. x[j] = w[j]
          BY <3>1
        <5>2. y[j] = w[j]
          BY <3>2, <4>1
        <5>3. QED
          BY <5>1, <5>2
      <4>2. CASE j # (k + 1) + 1
        <5>1. j \in 1..(k + 1)
          BY <4>2
        <5>2. x[j] = w[j]
          BY <3>1
        <5>3. y[j] = part[j] /\ part[j] = w[j]
          BY <2>5, <3>2, <5>1
        <5>4. QED
          BY <5>2, <5>3
      <4>3. QED
        BY <4>1, <4>2
    <3>4. x = y
      BY <3>1, <3>2, <3>3, SeqEqual
    <3>5. QED
      BY <3>4 DEF x, y
  <2> HIDE DEF part
  <2>7. /\ old \in Seq(Seq(Tokens)) /\ Len(old) = Len(before) + 1 /\ Len(old) \in 1..Len(old)
        /\ old[Len(old)] = part
    BY <2>5, AppendProperties
  <2>8. AddToWords(old, s, i) = [old EXCEPT ![Len(old)] = Append(old[Len(old)], s[i])]
    <3> HIDE DEF old, i
    <3>1. QED
      BY <2>1, <2>3, <2>4 DEF AddToWords
  <2>9. [old EXCEPT ![Len(old)] = Append(part, s[i])] = Append(before, Append(part, s[i]))
    <3>1. PICK more \in Seq(Tokens) : more = Append(part, s[i])
      <4>1. s[i] \in Tokens
        BY <2>3
      <4> HIDE DEF i
      <4>2. QED
        BY <2>5, <4>1, AppendProperties
    <3>2. [Append(before, part) EXCEPT ![Len(before) + 1] = more] = Append(before, more)
      <4>1. part \in Seq(Tokens) /\ more \in Seq(Tokens)
        BY <2>5, <3>1
      <4> HIDE DEF i, old
      <4>2. QED
        BY <4>1, LastReplaced
    <3>3. QED
      BY <2>7, <3>1, <3>2
  <2>10. QED
    BY <2>2, <2>3, <2>6, <2>7, <2>8, <2>9
<1> HIDE DEF T
<1>5. Nat \subseteq T
  BY <1>3, <1>4, SetInduction
<1>6. words[a + n] = Append(before, SubSeq(w, 1, n))
  <2>1. n - 1 \in Nat /\ (n - 1) + 1 = n
    BY <1>0, <1>1
  <2> HIDE DEF n
  <2>2. n - 1 \in T
    BY <1>5, <2>1
  <2>3. QED
    BY <2>1, <2>2 DEF T
<1>7. SubSeq(w, 1, n) = w
  <2> DEFINE t == SubSeq(w, 1, n)
  <2>1. t \in Seq(Tokens) /\ Len(t) = n /\ \A i \in 1..n : t[i] = w[i]
    BY <1>0, <1>1
  <2> HIDE DEF t
  <2>2. t = w
    BY <1>0, <2>1, SeqEqual
  <2>3. QED
    BY <2>2 DEF t
<1>8. QED
  BY <1>a, <1>6, <1>7

LEMMA ShortLists ==
  ASSUME NEW S, NEW x \in S, NEW y \in S, NEW z \in S
  PROVE  /\ <<>> \in Seq(S) /\ <<x>> \in Seq(S) /\ <<x, y>> \in Seq(S)
         /\ Append(<<>>, x) = <<x>> /\ Append(<<x>>, y) = <<x, y>>
         /\ Append(<<x, y>>, z) = <<x, y, z>>
<1>1. <<>> \in Seq(S) /\ <<x>> \in Seq(S) /\ <<x, y>> \in Seq(S)
  OBVIOUS
<1>2. Append(<<>>, x) = <<x>>
  OBVIOUS
<1>3. Append(<<x>>, y) = <<x, y>>
  <2>1. PICK a, b, c : a = <<x>> /\ b = <<x, y>> /\ c = Append(a, y)
    OBVIOUS
  <2>2. a \in Seq(S) /\ Len(a) = 1 /\ a[1] = x /\ b \in Seq(S) /\ Len(b) = 2 /\ b[1] = x /\ b[2] = y
    BY <2>1
  <2>3. c \in Seq(S) /\ Len(c) = 2 /\ c[1] = x /\ c[2] = y
    BY <2>1, <2>2
  <2>4. \A i \in 1..2 : c[i] = b[i]
    BY <2>2, <2>3
  <2>5. c = b
    BY <2>2, <2>3, <2>4, SeqEqual
  <2>6. QED
    BY <2>1, <2>5
<1>4. Append(<<x, y>>, z) = <<x, y, z>>
  <2>1. PICK a, b, c : a = <<x, y>> /\ b = <<x, y, z>> /\ c = Append(a, z)
    OBVIOUS
  <2>2. /\ a \in Seq(S) /\ Len(a) = 2 /\ a[1] = x /\ a[2] = y
        /\ b \in Seq(S) /\ Len(b) = 3 /\ b[1] = x /\ b[2] = y /\ b[3] = z
    BY <2>1
  <2>3. c \in Seq(S) /\ Len(c) = 3 /\ c[1] = x /\ c[2] = y /\ c[3] = z
    BY <2>1, <2>2
  <2>4. \A i \in 1..3 : c[i] = b[i]
    BY <2>2, <2>3
  <2>5. c = b
    BY <2>2, <2>3, <2>4, SeqEqual
  <2>6. QED
    BY <2>1, <2>5
<1>5. QED
  BY <1>1, <1>2, <1>3, <1>4

LEMMA NameIsWord ==
  ASSUME NEW w, IsName(w)
  PROVE  IsWord(w) /\ w \in Seq(Tokens) /\ Len(w) \in Nat /\ Len(w) >= 1
  BY NameIs DEF IsWord

LEMMA FromIsWord == <<"from">> \in Seq(Tokens) /\ Len(<<"from">>) = 1 /\ IsWord(<<"from">>)
<1>1. PICK f : f = <<"from">>
  OBVIOUS
<1>2. f \in Seq(Tokens) /\ Len(f) = 1 /\ f[1] = "from"
  BY <1>1, GrammarTokens
<1>3. IsWord(f)
  <2>1. "from" # Blank
    BY DEF Blank
  <2>2. \A i \in 1..Len(f) : f[i] = "from"
    BY <1>2
  <2>3. Len(f) >= 1
    BY <1>2
  <2>4. QED
    BY <1>2, <2>1, <2>2, <2>3 DEF IsWord
<1>4. QED
  BY <1>1, <1>2, <1>3

LEMMA WordsOfOne ==
  ASSUME NEW s \in Seq(Tokens), NEW w, IsName(w), s[1] = Blank, Occurs(s, 1, w), Len(s) = 1 + Len(w)
  PROVE  Words(s) = <<w>>
<1>1. PICK words : CountsWords(words, s) /\ Words(s) = words[Len(s)]
  BY WordsAre
<1>2. IsWord(w) /\ w \in Seq(Tokens) /\ Len(w) \in Nat /\ Len(w) >= 1
  BY NameIsWord
<1>3. words[1] = <<>>
  <2>1. 1 \in 1..Len(s) /\ 1 - 1 = 0
    BY <1>2
  <2>2. words[1] = words[1 - 1]
    BY <1>1, <2>1, BlankIsNoWord
  <2>3. words[0] = <<>>
    BY <1>1 DEF CountsWords
  <2>4. QED
    BY <2>1, <2>2, <2>3
<1>4. BeginsAfter(s, 1, w)
  BY DEF BeginsAfter
<1>5. words[1 + Len(w)] = Append(<<>>, w)
  <2>1. words[1] \in Seq(Seq(Tokens))
    BY <1>3
  <2>2. words[1 + Len(w)] = Append(words[1], w)
    BY <1>1, <1>2, <1>4, <2>1, WordAdded
  <2>3. QED
    BY <1>3, <2>2
<1>6. Append(<<>>, w) = <<w>>
  BY <1>2, ShortLists
<1>7. QED
  BY <1>1, <1>5, <1>6

LEMMA WordsOfThree ==
  ASSUME NEW s \in Seq(Tokens), NEW w, IsName(w), NEW v, IsName(v), NEW k \in Nat, k = Len(w) + 1,
         s[1] = Blank, Occurs(s, 1, w), s[k + 1] = Blank, s[k + 2] = "from", s[k + 3] = Blank,
         Occurs(s, k + 3, v), Len(s) = (k + 3) + Len(v)
  PROVE  Words(s) = <<w, <<"from">>, v>>
<1>1. PICK words : CountsWords(words, s) /\ Words(s) = words[Len(s)]
  BY WordsAre
<1>2. /\ IsWord(w) /\ w \in Seq(Tokens) /\ Len(w) \in Nat /\ Len(w) >= 1
      /\ IsWord(v) /\ v \in Seq(Tokens) /\ Len(v) \in Nat /\ Len(v) >= 1
  BY NameIsWord
<1>3. /\ 1 \in 1..Len(s) /\ k + 1 \in 1..Len(s) /\ k + 2 \in 1..Len(s) /\ k + 3 \in 1..Len(s)
      /\ 1 - 1 = 0 /\ (k + 1) - 1 = k /\ (k + 3) - 1 = k + 2 /\ 1 + Len(w) = k
      /\ (k + 1) + 1 = k + 2 /\ k + 1 \in Nat /\ k + 3 \in Nat
  BY <1>2
<1>4. PICK from : from = <<"from">>
  OBVIOUS
<1>5. from \in Seq(Tokens) /\ Len(from) = 1 /\ IsWord(from)
  BY <1>4, FromIsWord
<1>6. PICK none, one, two : none = <<>> /\ one = <<w>> /\ two = <<w, from>>
  OBVIOUS
<1>7. /\ none \in Seq(Seq(Tokens)) /\ one \in Seq(Seq(Tokens)) /\ two \in Seq(Seq(Tokens))
      /\ Append(none, w) = one /\ Append(one, from) = two /\ Append(two, v) = <<w, from, v>>
  BY <1>2, <1>5, <1>6, ShortLists
<1>8. /\ BeginsAfter(s, 1, w) /\ BeginsAfter(s, k + 1, from) /\ BeginsAfter(s, k + 3, v)
  <2>1. Occurs(s, k + 1, from)
    <3>1. s[(k + 1) + 1] = "from" /\ (k + 1) + 1 <= Len(s)
      BY <1>3
    <3>2. QED
      BY <1>3, <1>4, <3>1, OneOccurs
  <2>2. QED
    BY <1>3, <2>1 DEF BeginsAfter
<1>9. words[1] = none
  <2>1. words[1] = words[1 - 1]
    BY <1>1, <1>3, BlankIsNoWord
  <2>2. words[0] = <<>>
    BY <1>1 DEF CountsWords
  <2>3. QED
    BY <1>3, <1>6, <2>1, <2>2
<1>10. words[k] = one
  <2>1. words[1] \in Seq(Seq(Tokens))
    BY <1>7, <1>9
  <2>2. words[1 + Len(w)] = Append(words[1], w)
    BY <1>1, <1>2, <1>8, <2>1, WordAdded
  <2>3. QED
    BY <1>3, <1>7, <1>9, <2>2
<1>11. words[k + 1] = one
  <2>1. words[k + 1] = words[(k + 1) - 1]
    BY <1>1, <1>3, BlankIsNoWord
  <2>2. QED
    BY <1>3, <1>10, <2>1
<1>12. words[k + 2] = two
  <2>1. PICK j : j = k + 1
    OBVIOUS
  <2>2. BeginsAfter(s, j, from) /\ words[j] = one /\ words[j] \in Seq(Seq(Tokens))
    BY <1>7, <1>8, <1>11, <2>1
  <2>3. words[j + Len(from)] = Append(words[j], from)
    <3>1. CountsWords(words, s)
      BY <1>1
    <3>2. IsWord(from)
      BY <1>5
    <3>3. BeginsAfter(s, j, from)
      BY <2>2
    <3>4. words[j] \in Seq(Seq(Tokens))
      BY <2>2
    <3>5. QED
      BY <3>1, <3>2, <3>3, <3>4, WordAdded
  <2>4. j + Len(from) = k + 2
    BY <1>3, <1>5, <2>1
  <2>5. QED
    BY <1>7, <2>2, <2>3, <2>4
<1>13. words[k + 3] = two
  <2>1. words[k + 3] = words[(k + 3) - 1]
    <3>1. PICK j : j = k + 3
      OBVIOUS
    <3>2. j \in 1..Len(s) /\ s[j] = Blank
      BY <1>3, <3>1
    <3>3. words[j] = words[j - 1]
      BY <1>1, <3>2, BlankIsNoWord
    <3>4. QED
      BY <3>1, <3>3
  <2>2. QED
    BY <1>3, <1>12, <2>1
<1>14. words[(k + 3) + Len(v)] = Append(two, v)
  <2>1. PICK j : j = k + 3
    OBVIOUS
  <2>2. BeginsAfter(s, j, v) /\ words[j] = two /\ words[j] \in Seq(Seq(Tokens))
    BY <1>7, <1>8, <1>13, <2>1
  <2>3. words[j + Len(v)] = Append(words[j], v)
    <3>1. CountsWords(words, s)
      BY <1>1
    <3>2. IsWord(v)
      BY <1>2
    <3>3. BeginsAfter(s, j, v)
      BY <2>2
    <3>4. words[j] \in Seq(Seq(Tokens))
      BY <2>2
    <3>5. QED
      BY <3>1, <3>2, <3>3, <3>4, WordAdded
  <2>4. QED
    BY <2>1, <2>2, <2>3
<1>15. QED
  BY <1>1, <1>4, <1>7, <1>14

\* What a text holds from a place on.
LEMMA FromIs ==
  ASSUME NEW s \in Seq(Tokens), NEW k \in 1..Len(s)
  PROVE  /\ From(s, k) \in Seq(Tokens) /\ Len(From(s, k)) = Len(s) - (k - 1)
         /\ \A i \in 1..(Len(s) - (k - 1)) : From(s, k)[i] = s[(k - 1) + i]
<1> DEFINE n == Len(s)
           t == SubSeq(s, k, n)
<1>1. n \in Nat /\ k \in Int /\ n \in Int /\ k <= n
  OBVIOUS
<1>2. \A i \in k..n : s[i] \in Tokens
  OBVIOUS
<1>3. /\ t \in Seq(Tokens) /\ Len(t) = IF k <= n THEN n - k + 1 ELSE 0
      /\ \A i \in 1..(n - k + 1) : t[i] = s[k + i - 1]
  <2> HIDE DEF n
  <2>1. QED
    BY <1>1, <1>2, SubSeqProperties
<1>4. From(s, k) = t
  BY DEF From
<1> HIDE DEF t
<1>5. n - k + 1 = n - (k - 1) /\ \A i \in 1..(n - (k - 1)) : k + i - 1 = (k - 1) + i
  BY <1>1
<1>6. QED
  BY <1>1, <1>3, <1>4, <1>5

LEMMA OccursFrom ==
  ASSUME NEW s \in Seq(Tokens), NEW k \in 1..Len(s), NEW w \in Seq(Tokens), NEW e \in Nat,
         Occurs(s, (k - 1) + e, w)
  PROVE  Occurs(From(s, k), e, w)
<1>1. Len(s) \in Nat /\ Len(w) \in Nat /\ ((k - 1) + e) + Len(w) <= Len(s)
  BY DEF Occurs
<1>2. /\ Len(From(s, k)) = Len(s) - (k - 1)
      /\ \A i \in 1..(Len(s) - (k - 1)) : From(s, k)[i] = s[(k - 1) + i]
  BY FromIs
<1>3. ASSUME NEW i \in 1..Len(w) PROVE From(s, k)[e + i] = w[i]
  <2>1. e + i \in 1..(Len(s) - (k - 1)) /\ (k - 1) + (e + i) = ((k - 1) + e) + i
    BY <1>1
  <2>2. s[((k - 1) + e) + i] = w[i]
    BY DEF Occurs
  <2>3. QED
    BY <1>2, <2>1, <2>2
<1>4. e + Len(w) <= Len(From(s, k))
  <2>1. k \in Nat /\ Len(From(s, k)) = Len(s) - (k - 1)
    BY <1>2
  <2>2. QED
    BY <1>1, <2>1
<1>5. QED
  BY <1>3, <1>4 DEF Occurs

\* A prompt for a branch, up to its name.
LEMMA BranchBegins ==
  ASSUME NEW name, IsName(name), NEW text, text = <<"branch", Blank>> \o name
  PROVE  /\ IsPlain(text) /\ text \in Seq(Tokens) /\ Len(text) = 2 + Len(name)
         /\ text[1] = "branch" /\ text[2] = Blank /\ Occurs(text, 2, name)
<1>1. PICK u, h, s : u = <<"branch">> /\ h = <<"branch", Blank>> /\ s = text
  OBVIOUS
<1>2. "branch" \in GrammarWords /\ "branch" \in Tokens
  BY GrammarTokens DEF GrammarWords, Keywords, ConnectorWords
<1>3. IsPlain(u) /\ InLower(u) = u /\ Len(u) = 1 /\ u[1] = "branch"
  BY <1>1, <1>2, OneIsPlain
<1>4. h \in Seq(Tokens) /\ Len(h) = 2 /\ h[1] = "branch" /\ h[2] = Blank
  BY <1>1, <1>2, BlankIs
<1>5. name \in Seq(Tokens) /\ Len(name) \in Nat
  BY NameIs
<1>6. EndsInBlank(h, u)
  BY <1>3, <1>4 DEF EndsInBlank
<1>7. EndsInName(s, u, name)
  BY <1>1, <1>3, <1>6, NameFollows
<1>8. /\ s \in Seq(Tokens) /\ Len(s) = Len(h) + Len(name)
      /\ \A i \in 1..Len(h) : s[i] = h[i]
      /\ \A i \in 1..Len(name) : s[Len(h) + i] = name[i]
  <2>1. h \in Seq(Tokens) /\ s = h \o name
    BY <1>1, <1>4
  <2>2. QED
    BY <1>5, <2>1, ConcatIs
<1>9. s[1] = "branch" /\ s[2] = Blank /\ Len(s) = 2 + Len(name)
  BY <1>4, <1>8
<1>10. Occurs(s, 2, name)
  BY <1>4, <1>5, <1>8 DEF Occurs
<1>11. QED
  BY <1>1, <1>7, <1>8, <1>9, <1>10 DEF EndsInName

LEMMA BranchIsParsed ==
  ASSUME NEW s \in Seq(Tokens), Len(s) >= 3, s[1] = "branch", s[2] = Blank
  PROVE  ParseSingle(s) = ParseBranch(Words(From(s, 2)))
<1>1. Lower[s[1]] = "branch" /\ Lower[s[2]] = Blank
  BY GrammarTokens, BlankIs
<1>2. NotAPhrase(s)
  BY <1>1, NoPhraseBegins
<1>3. StartsBranch(s)
  <2>1. PICK h : h = <<"branch", Blank>>
    OBVIOUS
  <2>2. h \in Seq(Tokens) /\ Len(h) = 2 /\ h[1] = "branch" /\ h[2] = Blank
    BY <2>1, GrammarTokens, BlankIs
  <2>3. Len(h) <= Len(s) /\ \A i \in 1..Len(h) : Lower[s[i]] = h[i]
    BY <1>1, <2>2
  <2>4. Starts(s, h)
    BY <2>2, <2>3, StartsIs
  <2>5. QED
    BY <2>1, <2>4 DEF StartsBranch
<1>4. QED
  BY <1>2, <1>3, OtherIsParsed

LEMMA BranchWritten ==
  ASSUME NEW name, IsName(name), InLower(name) # <<"list">>,
         NEW text, text = <<"branch", Blank>> \o name
  PROVE  IsPlain(text) /\ ParseSingle(text) = Request("CreateBranch", name, <<>>)
<1>1. /\ IsPlain(text) /\ text \in Seq(Tokens) /\ Len(text) = 2 + Len(name)
      /\ text[1] = "branch" /\ text[2] = Blank /\ Occurs(text, 2, name)
  BY BranchBegins
<1>2. PICK s : s = text
  OBVIOUS
<1>3. /\ IsPlain(s) /\ s \in Seq(Tokens) /\ Len(s) = 2 + Len(name)
      /\ s[1] = "branch" /\ s[2] = Blank /\ Occurs(s, 2, name)
  BY <1>1, <1>2
<1>4. name \in Seq(Tokens) /\ Len(name) \in Nat /\ Len(name) >= 1 /\ IsBranchArg(name)
  BY NameIs
<1>5. ParseSingle(s) = ParseBranch(Words(From(s, 2)))
  BY <1>3, <1>4, BranchIsParsed
<1>6. Words(From(s, 2)) = <<name>>
  <2>1. 2 \in 1..Len(s) /\ (2 - 1) + 1 = 2 /\ Len(s) - (2 - 1) = 1 + Len(name) /\ 1 \in 1..(Len(s) - (2 - 1))
    BY <1>3, <1>4
  <2>2. PICK t : t = From(s, 2)
    OBVIOUS
  <2>3. t \in Seq(Tokens) /\ Len(t) = Len(s) - (2 - 1) /\ \A i \in 1..(Len(s) - (2 - 1)) : t[i] = s[(2 - 1) + i]
    BY <1>3, <2>1, <2>2, FromIs
  <2>4. t[1] = Blank /\ Len(t) = 1 + Len(name)
    BY <1>3, <2>1, <2>3
  <2>5. Occurs(t, 1, name)
    <3>1. Occurs(s, (2 - 1) + 1, name)
      BY <1>3, <2>1
    <3>2. QED
      BY <1>3, <1>4, <2>1, <2>2, <3>1, OccursFrom
  <2>6. Words(t) = <<name>>
    BY <2>3, <2>4, <2>5, WordsOfOne
  <2>7. QED
    BY <2>2, <2>6
<1>7. ParseBranch(<<name>>) = Request("CreateBranch", name, <<>>)
  <2>1. PICK parts : parts = <<name>>
    OBVIOUS
  <2>2. Len(parts) = 1 /\ parts[1] = name
    BY <2>1
  <2>3. ParseBranch(parts) = Request("CreateBranch", name, <<>>)
    BY <1>4, <2>2 DEF ParseBranch, WithBranch
  <2>4. QED
    BY <2>1, <2>3
<1>8. QED
  BY <1>2, <1>3, <1>5, <1>6, <1>7

LEMMA BranchFromWritten ==
  ASSUME NEW name, IsName(name), NEW base, IsName(base), NEW text,
         text = (<<"branch", Blank>> \o name) \o (<<Blank, "from", Blank>> \o base)
  PROVE  IsPlain(text) /\ ParseSingle(text) = Request("CreateBranch", name, base)
<1>1. PICK one, b, r, s : /\ one = <<"branch", Blank>> \o name /\ b = <<Blank, "from", Blank>>
                          /\ r = b \o base /\ s = one \o r
  OBVIOUS
<1>2. s = text
  BY <1>1
<1>3. /\ IsPlain(one) /\ one \in Seq(Tokens) /\ Len(one) = 2 + Len(name)
      /\ one[1] = "branch" /\ one[2] = Blank /\ Occurs(one, 2, name)
  BY <1>1, BranchBegins
<1>4. /\ name \in Seq(Tokens) /\ Len(name) \in Nat /\ Len(name) >= 1 /\ IsBranchArg(name)
      /\ base \in Seq(Tokens) /\ Len(base) \in Nat /\ Len(base) >= 1 /\ IsBranchArg(base)
  BY NameIs
<1>5. "from" \in Tokens /\ "from" \in GrammarWords /\ Lower["from"] = "from"
  BY GrammarTokens DEF GrammarWords, Keywords, ConnectorWords
<1>6. b \in Seq(Tokens) /\ Len(b) = 3 /\ b[1] = Blank /\ b[2] = "from" /\ b[3] = Blank
  BY <1>1, <1>5, BlankIs
<1>7. /\ r \in Seq(Tokens) /\ Len(r) = Len(b) + Len(base)
      /\ \A i \in 1..Len(b) : r[i] = b[i]
      /\ \A i \in 1..Len(base) : r[Len(b) + i] = base[i]
  <2>1. b \in Seq(Tokens) /\ r = b \o base
    BY <1>1, <1>6
  <2>2. QED
    BY <1>4, <2>1, ConcatIs
<1>8. r[1] = Blank /\ r[2] = "from" /\ r[3] = Blank /\ Len(r) = 3 + Len(base)
  BY <1>6, <1>7
<1>9. /\ s \in Seq(Tokens) /\ Len(s) = Len(one) + Len(r)
      /\ \A i \in 1..Len(one) : s[i] = one[i]
      /\ \A i \in 1..Len(r) : s[Len(one) + i] = r[i]
  <2>1. one \in Seq(Tokens) /\ r \in Seq(Tokens) /\ s = one \o r
    BY <1>1, <1>3, <1>7
  <2>2. QED
    BY <2>1, ConcatIs
<1>10. PICK m \in Nat : m = Len(one) /\ m = 2 + Len(name)
  BY <1>3, <1>4
<1>11. /\ Len(s) = (m + 3) + Len(base) /\ s[1] = "branch" /\ s[2] = Blank
       /\ s[m + 1] = Blank /\ s[m + 2] = "from" /\ s[m + 3] = Blank
  <2>1. 1 \in 1..Len(one) /\ 2 \in 1..Len(one) /\ 1 \in 1..Len(r) /\ 2 \in 1..Len(r) /\ 3 \in 1..Len(r)
    BY <1>4, <1>8, <1>10
  <2>2. s[1] = one[1] /\ s[2] = one[2]
    BY <1>9, <2>1
  <2>3. s[m + 1] = r[1] /\ s[m + 2] = r[2] /\ s[m + 3] = r[3]
    BY <1>9, <1>10, <2>1
  <2>4. QED
    BY <1>3, <1>4, <1>8, <1>9, <1>10, <2>2, <2>3
<1>12. Occurs(s, 2, name)
  <2>1. ASSUME NEW i \in 1..Len(name) PROVE s[2 + i] = name[i]
    <3>1. 2 + i \in 1..Len(one)
      BY <1>4, <1>10
    <3>2. s[2 + i] = one[2 + i] /\ one[2 + i] = name[i]
      BY <1>3, <1>9, <3>1 DEF Occurs
    <3>3. QED
      BY <3>2
  <2>2. 2 + Len(name) <= Len(s)
    BY <1>4, <1>10, <1>11
  <2>3. QED
    BY <2>1, <2>2 DEF Occurs
<1>13. Occurs(s, m + 3, base)
  <2>1. ASSUME NEW i \in 1..Len(base) PROVE s[(m + 3) + i] = base[i]
    <3>1. 3 + i \in 1..Len(r) /\ m + (3 + i) = (m + 3) + i
      BY <1>4, <1>8
    <3>2. s[m + (3 + i)] = r[3 + i] /\ r[3 + i] = base[i]
      BY <1>6, <1>7, <1>9, <1>10, <3>1
    <3>3. QED
      BY <3>1, <3>2
  <2>2. QED
    BY <1>11, <2>1 DEF Occurs
<1>14. IsPlain(s)
  <2>1. PICK c, u : c = <<Blank, "from">> /\ u = one \o c
    OBVIOUS
  <2>2. c \in Seq(Tokens) /\ Len(c) = 2 /\ c[1] = Blank /\ c[2] = "from"
    BY <1>5, <2>1, BlankIs
  <2>3. /\ u \in Seq(Tokens) /\ Len(u) = Len(one) + Len(c)
        /\ \A i \in 1..Len(one) : u[i] = one[i]
        /\ \A i \in 1..Len(c) : u[Len(one) + i] = c[i]
    <3>1. one \in Seq(Tokens) /\ c \in Seq(Tokens) /\ u = one \o c
      BY <1>3, <2>1, <2>2
    <3>2. QED
      BY <3>1, ConcatIs
  <2>4. Len(u) = m + 2 /\ u[m + 1] = Blank /\ u[m + 2] = "from"
    <3>1. Len(u) = m + 2 /\ 1 \in 1..Len(c) /\ 2 \in 1..Len(c)
      <4>1. Len(u) = Len(one) + Len(c) /\ Len(one) = m /\ Len(c) = 2
        BY <1>10, <2>2, <2>3
      <4>2. QED
        BY <4>1
    <3>2. u[m + 1] = c[1] /\ u[m + 2] = c[2]
      BY <1>10, <2>3, <3>1
    <3>3. QED
      BY <2>2, <3>1, <3>2
  <2>5. Joins(u, one, <<Blank>>, <<"from">>)
    <3>1. Len(<<Blank>>) = 1 /\ Len(<<"from">>) = 1
      OBVIOUS
    <3>2. Occurs(u, 0, one)
      <4>1. \A i \in 1..Len(one) : u[0 + i] = one[i]
        BY <2>3
      <4>2. 0 + Len(one) <= Len(u)
        BY <1>10, <2>4
      <4>3. QED
        BY <4>1, <4>2 DEF Occurs
    <3>3. Occurs(u, m, <<Blank>>) /\ Occurs(u, m + 1, <<"from">>)
      <4>1. u[(m + 1) + 1] = "from" /\ (m + 1) + 1 <= Len(u) /\ m + 1 <= Len(u) /\ m + 1 \in Nat
        BY <2>4
      <4>2. QED
        BY <2>4, <4>1, OneOccurs
    <3>4. Len(u) = (Len(one) + 1) + 1 /\ u \in Seq(Tokens)
      <4>1. Len(u) = m + 2 /\ Len(one) = m
        BY <1>10, <2>4
      <4>2. Len(u) = (Len(one) + 1) + 1
        BY <4>1
      <4>3. QED
        BY <2>3, <4>2
    <3>5. QED
      BY <1>10, <3>1, <3>2, <3>3, <3>4 DEF Joins
  <2>6. IsPlain(u)
    <3>1. IsPlain(<<"from">>)
      BY <1>5, GrammarWordIsPlain
    <3>2. QED
      BY <1>3, <2>5, <3>1, PlainJoined
  <2>7. Joins(s, u, <<Blank>>, base)
    <3>1. Len(<<Blank>>) = 1
      OBVIOUS
    <3>2. Occurs(s, 0, u)
      <4>1. ASSUME NEW i \in 1..Len(u) PROVE s[0 + i] = u[i]
        <5>1. CASE i <= m
          <6>1. i \in 1..Len(one) /\ 0 + i = i
            BY <1>10, <2>4, <5>1
          <6>2. QED
            BY <1>9, <2>3, <6>1
        <5>2. CASE i = m + 1
          BY <1>11, <2>4, <5>2
        <5>3. CASE i = m + 2
          BY <1>11, <2>4, <5>3
        <5>4. QED
          BY <2>4, <5>1, <5>2, <5>3
      <4>2. QED
        BY <1>4, <1>11, <2>4, <4>1 DEF Occurs
    <3>3. Occurs(s, m + 2, <<Blank>>)
      <4>1. s[(m + 2) + 1] = Blank /\ (m + 2) + 1 <= Len(s) /\ m + 2 \in Nat
        BY <1>4, <1>11
      <4>2. QED
        BY <4>1, OneOccurs
    <3>4. Len(u) + Len(<<Blank>>) = m + 3
      BY <2>4, <3>1
    <3>5. QED
      BY <1>9, <1>11, <1>13, <2>4, <3>2, <3>3, <3>4 DEF Joins
  <2>8. IsPlain(base)
    BY NameIsPlain
  <2>9. QED
    BY <2>6, <2>7, <2>8, PlainJoined
<1>15. ParseSingle(s) = ParseBranch(Words(From(s, 2)))
  <2>1. Len(s) >= 3
    BY <1>4, <1>11
  <2>2. QED
    BY <1>9, <1>11, <2>1, BranchIsParsed
<1>16. Words(From(s, 2)) = <<name, <<"from">>, base>>
  <2>1. PICK k \in Nat : k = Len(name) + 1 /\ m = k + 1
    BY <1>4, <1>10
  <2>2. PICK t : t = From(s, 2)
    OBVIOUS
  <2>3. 2 \in 1..Len(s) /\ Len(s) - (2 - 1) = (k + 3) + Len(base)
    BY <1>4, <1>11, <2>1
  <2>4. t \in Seq(Tokens) /\ Len(t) = Len(s) - (2 - 1) /\ \A i \in 1..(Len(s) - (2 - 1)) : t[i] = s[(2 - 1) + i]
    BY <1>9, <2>2, <2>3, FromIs
  <2>5. /\ Len(t) = (k + 3) + Len(base) /\ t[1] = Blank /\ t[k + 1] = Blank /\ t[k + 2] = "from"
        /\ t[k + 3] = Blank
    <3>1. /\ 1 \in 1..(Len(s) - (2 - 1)) /\ k + 1 \in 1..(Len(s) - (2 - 1))
          /\ k + 2 \in 1..(Len(s) - (2 - 1)) /\ k + 3 \in 1..(Len(s) - (2 - 1))
          /\ (2 - 1) + 1 = 2 /\ (2 - 1) + (k + 1) = m + 1 /\ (2 - 1) + (k + 2) = m + 2
          /\ (2 - 1) + (k + 3) = m + 3
      BY <1>4, <2>1, <2>3
    <3>2. t[1] = s[2] /\ t[k + 1] = s[m + 1] /\ t[k + 2] = s[m + 2] /\ t[k + 3] = s[m + 3]
      BY <2>4, <3>1
    <3>3. QED
      BY <1>11, <2>3, <2>4, <3>2
  <2>6. Occurs(t, 1, name) /\ Occurs(t, k + 3, base)
    <3>1. (2 - 1) + 1 = 2 /\ (2 - 1) + (k + 3) = m + 3 /\ k + 3 \in Nat
      BY <2>1
    <3>2. Occurs(s, (2 - 1) + 1, name) /\ Occurs(s, (2 - 1) + (k + 3), base)
      BY <1>12, <1>13, <3>1
    <3>3. Occurs(From(s, 2), 1, name)
      BY <1>4, <1>9, <2>3, <3>2, OccursFrom
    <3>4. Occurs(From(s, 2), k + 3, base)
      BY <1>4, <1>9, <2>3, <3>1, <3>2, OccursFrom
    <3>5. QED
      BY <2>2, <3>3, <3>4
  <2>7. Words(t) = <<name, <<"from">>, base>>
    BY <2>1, <2>4, <2>5, <2>6, WordsOfThree
  <2>8. QED
    BY <2>2, <2>7
<1>17. ParseBranch(<<name, <<"from">>, base>>) = Request("CreateBranch", name, base)
  <2>1. PICK parts, from : parts = <<name, from, base>> /\ from = <<"from">>
    OBVIOUS
  <2>2. Len(parts) = 3 /\ parts[1] = name /\ parts[2] = from /\ parts[3] = base
    BY <2>1
  <2>3. InLower(from) = <<"from">>
    BY <1>5, <2>1, OneIsPlain
  <2>4. ParseBranch(parts) = Request("CreateBranch", name, base)
    BY <1>4, <2>2, <2>3 DEF ParseBranch
  <2>5. QED
    BY <2>1, <2>4
<1>18. QED
  BY <1>2, <1>14, <1>15, <1>16, <1>17

\* A commit with its message in quotes.
IsCommitText(s, message) ==
  /\ s \in Seq(Tokens) /\ message \in Seq(Tokens) /\ Len(s) = Len(message) + 6
  /\ s[1] = "commit" /\ s[2] = Blank /\ s[3] = "-m" /\ s[4] = Blank /\ s[5] = Quote
  /\ s[Len(message) + 6] = Quote
  /\ \A i \in 1..Len(message) : s[5 + i] = message[i] /\ message[i] # Quote

LEMMA CommitWords ==
  /\ "commit" \in Tokens /\ Lower["commit"] = "commit"
  /\ "-m" \in Tokens /\ Lower["-m"] = "-m"
  /\ Quote \in Tokens /\ Lower[Quote] = Quote
<1>1. "-m" \in Options /\ Quote \in Marks
  BY DEF Options, Marks
<1>2. QED
  BY <1>1, PromptAssumption, GrammarTokens

LEMMA CommitIsStep ==
  ASSUME NEW s, NEW message, IsCommitText(s, message)
  PROVE  IsStep(s)
<1> DEFINE m == Len(message)
           T == {k \in Nat : k <= m => Quoted(s, 6 + k)}
<1>1. s \in Seq(Tokens) /\ message \in Seq(Tokens) /\ m \in Nat /\ Len(s) = m + 6
  BY DEF IsCommitText
<1>2. ASSUME NEW i \in 1..4
      PROVE  s[i] # Quote /\ ~IsShell(s[i]) /\ ~IsWordAt(s, i, ConnectorWords)
  <2>1. i \in {1, 2, 3, 4}
    OBVIOUS
  <2>2. s[i] \in {"commit", "-m", Blank}
    BY <2>1 DEF IsCommitText
  <2>3. s[i] # Quote /\ ~IsShell(s[i])
    BY <2>2 DEF Blank, Quote, IsShell
  <2>4. Lower[s[i]] \notin ConnectorWords
    BY <2>2, CommitWords, BlankIs DEF ConnectorWords
  <2>5. QED
    BY <2>3, <2>4 DEF IsWordAt
<1>3. ~Quoted(s, 5)
  <2>1. 4 \in Nat /\ \A j \in 1..4 : s[j] # Quote
    BY <1>2
  <2>2. ~Quoted(s, 4 + 1)
    BY <2>1, NoQuotes
  <2>3. QED
    BY <2>2
<1>4. Quoted(s, 6)
  <2>1. 5 \in Nat /\ 5 >= 1 /\ s[5] = Quote
    BY DEF IsCommitText
  <2>2. Quoted(s, 5 + 1)
    BY <1>3, <2>1, QuotedNext
  <2>3. QED
    BY <2>2
<1>5. 0 \in T
  BY <1>4
<1>6. ASSUME NEW k \in Nat, k \in T PROVE k + 1 \in T
  <2> SUFFICES ASSUME k + 1 <= m PROVE Quoted(s, 6 + (k + 1))
    OBVIOUS
  <2>1. k + 1 \in 1..m /\ 5 + (k + 1) = 6 + k /\ 6 + k \in Nat /\ 6 + k >= 1
        /\ (6 + k) + 1 = 6 + (k + 1)
    BY <1>1
  <2>2. Quoted(s, 6 + k)
    BY <1>1, <1>6, <2>1
  <2>3. s[5 + (k + 1)] # Quote
    BY <2>1 DEF IsCommitText
  <2>4. s[6 + k] # Quote
    BY <2>1, <2>3
  <2>5. Quoted(s, (6 + k) + 1)
    BY <2>1, <2>2, <2>4, QuotedNext
  <2>6. QED
    BY <2>1, <2>5
<1> HIDE DEF T
<1>7. \A k \in Nat : k <= m => Quoted(s, 6 + k)
  <2>1. Nat \subseteq T
    BY <1>5, <1>6, SetInduction
  <2>2. QED
    BY <2>1 DEF T
<1>8. ~Quoted(s, Len(s) + 1)
  <2>1. s[m + 6] = Quote /\ m + 6 = 6 + m /\ m <= m /\ 6 + m \in Nat /\ 6 + m >= 1 /\ Len(s) = 6 + m
    BY <1>1 DEF IsCommitText
  <2>2. Quoted(s, 6 + m)
    BY <1>1, <1>7, <2>1
  <2>3. ~Quoted(s, (6 + m) + 1)
    BY <2>1, <2>2, QuotedNext
  <2>4. QED
    BY <2>1, <2>3
<1>9. ASSUME NEW i \in 1..Len(s)
      PROVE  Quoted(s, i) \/ s[i] = Quote \/ (~IsShell(s[i]) /\ ~IsWordAt(s, i, ConnectorWords))
  <2>1. CASE i <= 4
    <3>1. i \in 1..4
      BY <2>1
    <3>2. QED
      BY <1>2, <3>1
  <2>2. CASE i = 5
    BY <2>2 DEF IsCommitText
  <2>3. CASE i >= 6
    <3>1. i - 6 \in Nat /\ i - 6 <= m /\ 6 + (i - 6) = i
      BY <1>1, <2>3
    <3>2. Quoted(s, 6 + (i - 6))
      BY <1>7, <3>1
    <3>3. QED
      BY <3>1, <3>2
  <2>4. QED
    BY <1>1, <2>1, <2>2, <2>3
<1>10. s # <<>> /\ s[1] # Blank /\ s[Len(s)] # Blank
  <2>1. s[1] = "commit" /\ s[m + 6] = Quote /\ Len(s) = m + 6
    BY DEF IsCommitText
  <2>2. QED
    BY <1>1, <2>1 DEF Blank, Quote
<1>11. QED
  BY <1>1, <1>8, <1>9, <1>10 DEF IsStep

\* A message in quotes.
IsQuotedText(q, message) ==
  /\ q \in Seq(Tokens) /\ message \in Seq(Tokens) /\ Len(q) = Len(message) + 2
  /\ q[1] = Quote /\ q[Len(message) + 2] = Quote
  /\ \A i \in 1..Len(message) : q[1 + i] = message[i] /\ message[i] # Quote

LEMMA MessageIsParsed ==
  ASSUME NEW q, NEW message, IsQuotedText(q, message), Trim(message) # <<>>
  PROVE  ParseMessage(q) = Request("Commit", message, <<>>)
<1> DEFINE m == Len(message)
           ends == {i \in 2..Len(q) : q[i] = Quote}
           end == CHOOSE i \in ends : \A j \in ends : i <= j
           inside == SubSeq(q, 2, end - 1)
<1>1. q \in Seq(Tokens) /\ message \in Seq(Tokens) /\ m \in Nat /\ Len(q) = m + 2 /\ q # <<>>
      /\ q[1] = Quote /\ q[m + 2] = Quote
  BY DEF IsQuotedText
<1>2. ends = {m + 2}
  <2>1. ASSUME NEW i \in 2..Len(q), q[i] = Quote PROVE i = m + 2
    <3> SUFFICES ASSUME i # m + 2 PROVE FALSE
      OBVIOUS
    <3>1. i - 1 \in 1..m /\ 1 + (i - 1) = i
      BY <1>1
    <3>2. q[1 + (i - 1)] # Quote
      BY <3>1 DEF IsQuotedText
    <3>3. QED
      BY <2>1, <3>1, <3>2
  <2>2. m + 2 \in 2..Len(q)
    BY <1>1
  <2>3. QED
    BY <1>1, <2>1, <2>2
<1> HIDE DEF ends
<1>3. end = m + 2
  <2>1. \A j \in ends : m + 2 <= j
    BY <1>1, <1>2
  <2>2. QED
    BY <1>2, <2>1
<1> HIDE DEF end
<1>4. inside = message
  <2>1. PICK t : t = SubSeq(q, 2, m + 1)
    OBVIOUS
  <2>2. \A i \in 2..(m + 1) : q[i] \in Tokens
    BY <1>1
  <2>3. /\ t \in Seq(Tokens) /\ Len(t) = IF 2 <= m + 1 THEN (m + 1) - 2 + 1 ELSE 0
        /\ \A i \in 1..((m + 1) - 2 + 1) : t[i] = q[2 + i - 1]
    <3>1. 2 \in Int /\ m + 1 \in Int
      BY <1>1
    <3> HIDE DEF m
    <3>2. QED
      BY <2>1, <2>2, <3>1, SubSeqProperties
  <2>4. Len(t) = m /\ (m + 1) - 2 + 1 = m
    BY <1>1, <2>3
  <2>5. ASSUME NEW i \in 1..m PROVE t[i] = message[i]
    <3>1. 2 + i - 1 = 1 + i /\ i \in 1..((m + 1) - 2 + 1)
      BY <2>4
    <3>2. t[i] = q[1 + i]
      BY <2>3, <3>1
    <3>3. QED
      BY <3>2 DEF IsQuotedText
  <2>6. t = message
    BY <1>1, <2>3, <2>4, <2>5, SeqEqual
  <2>7. end - 1 = m + 1
    BY <1>1, <1>3
  <2>8. QED
    BY <2>1, <2>6, <2>7
<1>5. Trim(From(q, end + 1)) = <<>>
  <2>1. SubSeq(q, (m + 2) + 1, Len(q)) = <<>>
    BY <1>1
  <2>2. From(q, end + 1) = <<>>
    BY <1>3, <2>1 DEF From
  <2>3. QED
    BY <2>2, BlankIsTrimmed
<1> HIDE DEF inside
<1>6. ParseMessage(q)
        = CASE q = <<>> -> None
            [] q # <<>> /\ q[1] # Quote -> Request("Commit", q, <<>>)
            [] OTHER -> IF ends = {} \/ Trim(From(q, end + 1)) # <<>> \/ Trim(inside) = <<>>
                        THEN None ELSE Request("Commit", inside, <<>>)
  BY DEF ParseMessage, ends, end, inside
<1>7. ends # {} /\ Trim(inside) # <<>>
  BY <1>2, <1>4
<1>8. QED
  BY <1>1, <1>4, <1>5, <1>6, <1>7

LEMMA CommitIsParsed ==
  ASSUME NEW s, NEW message, IsCommitText(s, message), Trim(message) # <<>>
  PROVE  ParseSingle(s) = Request("Commit", message, <<>>)
<1> DEFINE m == Len(message)
<1>1. /\ s \in Seq(Tokens) /\ message \in Seq(Tokens) /\ m \in Nat /\ Len(s) = m + 6
      /\ s[1] = "commit" /\ s[2] = Blank /\ s[3] = "-m" /\ s[4] = Blank /\ s[5] = Quote
      /\ s[m + 6] = Quote
  BY DEF IsCommitText
<1>2. NotAPhrase(s)
  <2>1. Lower[s[1]] = "commit" /\ Len(s) >= 3
    BY <1>1, CommitWords
  <2>2. QED
    BY <1>1, <2>1, NoPhraseBegins
<1>3. Commits(s)
  <2>1. PICK h : h = <<"commit">>
    OBVIOUS
  <2>2. h \in Seq(Tokens) /\ Len(h) = 1 /\ h[1] = "commit"
    BY <2>1, CommitWords
  <2>3. Len(h) <= Len(s) /\ \A i \in 1..Len(h) : Lower[s[i]] = h[i]
    BY <1>1, <2>2, CommitWords
  <2>4. Starts(s, h)
    BY <1>1, <2>2, <2>3, StartsIs
  <2>5. QED
    BY <1>1, <2>1, <2>4 DEF Commits
<1>4. ParseSingle(s) = ParseCommit(From(s, 2))
  BY <1>1, <1>2, <1>3, OtherIsParsed
<1>5. PICK t : t = From(s, 2)
  OBVIOUS
<1>6. t \in Seq(Tokens) /\ Len(t) = m + 5 /\ \A i \in 1..(m + 5) : t[i] = s[1 + i]
  <2>1. 2 \in 1..Len(s) /\ Len(s) - (2 - 1) = m + 5 /\ 2 - 1 = 1
    BY <1>1
  <2>2. /\ t \in Seq(Tokens) /\ Len(t) = Len(s) - (2 - 1)
        /\ \A i \in 1..(Len(s) - (2 - 1)) : t[i] = s[(2 - 1) + i]
    BY <1>1, <1>5, <2>1, FromIs
  <2>3. QED
    BY <2>1, <2>2
<1>7. PICK rest : rest = TrimStart(t)
  OBVIOUS
<1>8. rest \in Seq(Tokens) /\ Len(rest) = m + 4 /\ \A i \in 1..(m + 4) : rest[i] = s[2 + i]
  <2>1. 1 \in 1..(m + 5) /\ 1 + 1 \in 1..(m + 5) /\ 1 + (1 + 1) = 3 /\ 1 + 1 = 2
    BY <1>1
  <2>2. t[1] = Blank /\ t[1 + 1] = "-m"
    BY <1>1, <1>6, <2>1
  <2>3. 1 \in Nat /\ 1 < Len(t) /\ t[1 + 1] # Blank /\ \A j \in 1..1 : t[j] = Blank
    <3>1. "-m" # Blank
      BY DEF Blank
    <3>2. \A j \in 1..1 : j = 1
      OBVIOUS
    <3>3. 1 < Len(t)
      BY <1>1, <1>6
    <3>4. QED
      BY <2>2, <3>1, <3>2, <3>3
  <2>4. /\ rest \in Seq(Tokens) /\ Len(rest) = Len(t) - 1
        /\ \A i \in 1..(Len(t) - 1) : rest[i] = t[1 + i]
    BY <1>6, <1>7, <2>3, TrimStartIs
  <2>5. ASSUME NEW i \in 1..(m + 4) PROVE rest[i] = s[2 + i]
    <3>1. i \in 1..(Len(t) - 1) /\ 1 + i \in 1..(m + 5) /\ 1 + (1 + i) = 2 + i
      BY <1>1, <1>6
    <3>2. QED
      BY <1>6, <2>4, <3>1
  <2>6. QED
    BY <1>1, <1>6, <2>4, <2>5
<1>9. rest[1] = "-m" /\ rest[2] = Blank /\ rest # <<>>
  <2>1. 1 \in 1..(m + 4) /\ 2 \in 1..(m + 4) /\ 2 + 1 = 3 /\ 2 + 2 = 4
    BY <1>1
  <2>2. QED
    BY <1>1, <1>8, <2>1
<1>10. PICK q : q = From(rest, 3)
  OBVIOUS
<1>11. q \in Seq(Tokens) /\ Len(q) = m + 2 /\ \A i \in 1..(m + 2) : q[i] = s[4 + i] /\ q[i] = rest[2 + i]
  <2>1. 3 \in 1..Len(rest) /\ Len(rest) - (3 - 1) = m + 2 /\ 3 - 1 = 2
    BY <1>1, <1>8
  <2>2. /\ q \in Seq(Tokens) /\ Len(q) = Len(rest) - (3 - 1)
        /\ \A i \in 1..(Len(rest) - (3 - 1)) : q[i] = rest[(3 - 1) + i]
    BY <1>8, <1>10, <2>1, FromIs
  <2>3. ASSUME NEW i \in 1..(m + 2) PROVE q[i] = rest[2 + i] /\ q[i] = s[4 + i]
    <3>1. 2 + i \in 1..(m + 4) /\ 2 + (2 + i) = 4 + i
      BY <1>1
    <3>2. QED
      BY <1>8, <2>1, <2>2, <3>1
  <2>4. QED
    BY <2>1, <2>2, <2>3
<1>12. IsQuotedText(q, message)
  <2>1. q[1] = Quote /\ q[m + 2] = Quote
    <3>1. 1 \in 1..(m + 2) /\ m + 2 \in 1..(m + 2) /\ 4 + 1 = 5 /\ 4 + (m + 2) = m + 6
      BY <1>1
    <3>2. QED
      BY <1>1, <1>11, <3>1
  <2>2. ASSUME NEW i \in 1..m PROVE q[1 + i] = message[i] /\ message[i] # Quote
    <3>1. 1 + i \in 1..(m + 2) /\ 4 + (1 + i) = 5 + i
      BY <1>1
    <3>2. s[5 + i] = message[i] /\ message[i] # Quote
      BY DEF IsCommitText
    <3>3. QED
      BY <1>11, <3>1, <3>2
  <2>3. QED
    BY <1>1, <1>11, <2>1, <2>2 DEF IsQuotedText
<1>13. Trim(From(rest, 2)) = q
  <2>1. q # <<>> /\ q[1] # Blank /\ q[Len(q)] # Blank
    <3>1. Len(q) = m + 2 /\ q[1] = Quote /\ q[m + 2] = Quote /\ q \in Seq(Tokens)
      BY <1>12 DEF IsQuotedText
    <3>2. q # <<>>
      BY <1>1, <3>1
    <3>3. QED
      BY <3>1, <3>2, MarksAre
  <2>2. Occurs(rest, 2, q) /\ 2 + Len(q) = Len(rest)
    BY <1>1, <1>8, <1>11 DEF Occurs
  <2>3. \A j \in 2..2 : rest[j] = Blank
    BY <1>9
  <2>4. 2 \in Nat /\ 2 >= 1 /\ 2 <= 2 + 1
    OBVIOUS
  <2>5. QED
    BY <1>8, <1>11, <2>1, <2>2, <2>3, <2>4, TrimmedFrom
<1>14. ParseCommit(t) = ParseMessage(q)
  <2>1. ParseCommit(t)
          = CASE rest = <<>> -> None
              [] rest # <<>> /\ rest[1] = "-m" /\ (Len(rest) = 1 \/ rest[2] = Blank) ->
                   ParseMessage(Trim(From(rest, 2)))
              [] rest # <<>> /\ rest[1] # "-m" /\ ~IsOption(rest[1]) -> ParseMessage(Trim(rest))
              [] OTHER -> None
    BY <1>7 DEF ParseCommit
  <2>2. QED
    BY <1>9, <1>13, <2>1
<1>15. QED
  BY <1>4, <1>5, <1>12, <1>14, MessageIsParsed

LEMMA CommitWritten ==
  ASSUME NEW message, IsMessage(message),
         NEW text, text = <<"commit", Blank, "-m", Blank, Quote>> \o message \o <<Quote>>
  PROVE  IsStep(text) /\ ParseSingle(text) = Request("Commit", message, <<>>)
<1>1. PICK h, k : h = <<"commit", Blank, "-m", Blank, Quote>> /\ k = <<Quote>>
  OBVIOUS
<1>2. PICK g, s : g = h \o message /\ s = g \o k
  OBVIOUS
<1>3. s = text
  BY <1>1, <1>2
<1>4. message \in Seq(Tokens) /\ Trim(message) # <<>> /\ Len(message) \in Nat
      /\ \A i \in 1..Len(message) : message[i] # Quote
  <2>1. message \in Seq(Tokens) /\ Trim(message) # <<>> /\ Quote \notin Range(message)
    BY DEF IsMessage
  <2>2. DOMAIN message = 1..Len(message)
    BY <2>1
  <2>3. QED
    BY <2>1, <2>2 DEF Range
<1>5. /\ h \in Seq(Tokens) /\ Len(h) = 5 /\ h[1] = "commit" /\ h[2] = Blank /\ h[3] = "-m"
      /\ h[4] = Blank /\ h[5] = Quote
  BY <1>1, CommitWords, BlankIs
<1>6. k \in Seq(Tokens) /\ Len(k) = 1 /\ k[1] = Quote
  BY <1>1, CommitWords
<1>7. /\ g \in Seq(Tokens) /\ Len(g) = Len(h) + Len(message)
      /\ \A i \in 1..Len(h) : g[i] = h[i]
      /\ \A i \in 1..Len(message) : g[Len(h) + i] = message[i]
  <2>1. g = h \o message
    BY <1>2
  <2>2. h \in Seq(Tokens) /\ message \in Seq(Tokens)
    BY <1>4, <1>5
  <2>3. QED
    BY <2>1, <2>2, ConcatIs
<1>8. /\ s \in Seq(Tokens) /\ Len(s) = Len(g) + Len(k)
      /\ \A i \in 1..Len(g) : s[i] = g[i]
      /\ \A i \in 1..Len(k) : s[Len(g) + i] = k[i]
  <2>1. s = g \o k
    BY <1>2
  <2>2. g \in Seq(Tokens) /\ k \in Seq(Tokens)
    BY <1>6, <1>7
  <2>3. QED
    BY <2>1, <2>2, ConcatIs
<1>9. ASSUME NEW i \in 1..5 PROVE s[i] = h[i]
  <2>1. i \in 1..Len(h) /\ i \in 1..Len(g)
    BY <1>4, <1>5, <1>7
  <2>2. QED
    BY <1>7, <1>8, <2>1
<1>10. ASSUME NEW i \in 1..Len(message) PROVE s[5 + i] = message[i]
  <2>1. 5 + i \in 1..Len(g) /\ Len(h) + i = 5 + i
    BY <1>4, <1>5, <1>7
  <2>2. QED
    BY <1>7, <1>8, <2>1
<1>11. s[Len(message) + 6] = Quote /\ Len(s) = Len(message) + 6
  <2>1. 1 \in 1..Len(k) /\ Len(g) + 1 = Len(message) + 6
    BY <1>4, <1>5, <1>6, <1>7
  <2>2. QED
    BY <1>6, <1>8, <2>1
<1>12. IsCommitText(s, message)
  <2>1. s[1] = "commit" /\ s[2] = Blank /\ s[3] = "-m" /\ s[4] = Blank /\ s[5] = Quote
    BY <1>5, <1>9
  <2>2. QED
    BY <1>4, <1>8, <1>10, <1>11, <2>1 DEF IsCommitText
<1>13. QED
  BY <1>3, <1>4, <1>12, CommitIsStep, CommitIsParsed

\* What a phrase says is no other request.
LEMMA PhraseSaysPlain ==
  ASSUME NEW p \in Phrases
  PROVE  /\ p[2].kind \notin {"Commit", "CreateBranch", "Checkout", "Merge", "Rebase"}
         /\ p[2].base = <<>>
<1>1. p[2] = PhraseSays(p[1])
  BY PhrasesAre DEF IsPhrase
<1>2. PICK t : t = p[1]
  OBVIOUS
<1>3. \/ p[2] = Plain("Branches") \/ p[2] = Plain("Fetch") \/ p[2] = Plain("Push")
      \/ p[2] = Plain("OpenPullRequest") \/ p[2] = Plain("Pull") \/ p[2] = Plain("PullRebase")
      \/ p[2] = Plain("MergeContinue") \/ p[2] = Plain("MergeAbort")
      \/ p[2] = Plain("RebaseContinue") \/ p[2] = Plain("RebaseAbort") \/ p[2] = Plain("RebaseSkip")
      \/ p[2] = Plain("")
  BY <1>1, <1>2 DEF PhraseSays
<1>4. PICK x : x = p[2]
  OBVIOUS
<1>5. PICK kind : /\ kind \notin {"Commit", "CreateBranch", "Checkout", "Merge", "Rebase"}
                  /\ x = Plain(kind)
  <2>1. \A kind \in {"Branches", "Fetch", "Push", "OpenPullRequest", "Pull", "PullRebase",
                     "MergeContinue", "MergeAbort", "RebaseContinue", "RebaseAbort",
                     "RebaseSkip", ""} :
          kind \notin {"Commit", "CreateBranch", "Checkout", "Merge", "Rebase"}
    OBVIOUS
  <2>2. QED
    BY <1>3, <1>4, <2>1
<1>6. x = [kind |-> kind, name |-> <<>>, base |-> <<>>]
  BY <1>5 DEF Plain, Request
<1>7. x.kind = kind /\ x.base = <<>>
  BY <1>6
<1>8. QED
  BY <1>4, <1>5, <1>7

\* The written forms of each kind of request.
LEMMA CommitIsWritten ==
  ASSUME NEW r, r.kind = "Commit"
  PROVE  Written(r) = {<<"commit", Blank, "-m", Blank, Quote>> \o r.name \o <<Quote>>}
  BY DEF Written

LEMMA BranchIsWritten ==
  ASSUME NEW r, r.kind = "CreateBranch"
  PROVE  /\ r.base = <<>> => Written(r) = {(<<"branch", Blank>> \o r.name) \o <<>>}
         /\ r.base # <<>> =>
              Written(r) = {(<<"branch", Blank>> \o r.name) \o (<<Blank, "from", Blank>> \o r.base)}
  BY DEF Written

LEMMA CommandIsWritten ==
  ASSUME NEW r
  PROVE  /\ r.kind = "Checkout" => Written(r) = {<<"checkout", Blank>> \o r.name}
         /\ r.kind = "Merge" => Written(r) = {<<"merge", Blank>> \o r.name}
         /\ r.kind = "Rebase" => Written(r) = {<<"rebase", Blank>> \o r.name}
<1>1. ASSUME r.kind = "Checkout" PROVE Written(r) = {<<"checkout", Blank>> \o r.name}
  BY <1>1 DEF Written
<1>2. ASSUME r.kind = "Merge" PROVE Written(r) = {<<"merge", Blank>> \o r.name}
  BY <1>2 DEF Written
<1>3. ASSUME r.kind = "Rebase" PROVE Written(r) = {<<"rebase", Blank>> \o r.name}
  BY <1>3 DEF Written
<1>4. QED
  BY <1>1, <1>2, <1>3

LEMMA OpeningIsWritten ==
  ASSUME NEW r, r.kind = "OpenPullRequest", r.base # <<>>
  PROVE  Written(r) =
           {<<"open", Blank, "pr">> \o (<<Blank, "to", Blank>> \o r.base),
            <<"open", Blank, "pull", Blank, "request">> \o (<<Blank, "to", Blank>> \o r.base)}
  BY DEF Written

LEMMA PhraseIsWritten ==
  ASSUME NEW r, r.kind \notin {"Commit", "CreateBranch", "Checkout", "Merge", "Rebase"}, r.base = <<>>
  PROVE  Written(r) = {p[1] : p \in {p \in Phrases : p[2] = r}}
  BY DEF Written

\* Each request that can be said is understood, in any form it is written in.
LEMMA WrittenIs ==
  ASSUME NEW r, CanBeSaid(r), NEW one \in Written(r)
  PROVE  IsStep(one) /\ ParseSingle(one) = r
<1>1. r = Request(r.kind, r.name, r.base)
  BY DEF CanBeSaid
<1>2. CASE \E p \in Phrases : r = p[2]
  <2>1. r.kind \notin {"Commit", "CreateBranch", "Checkout", "Merge", "Rebase"} /\ r.base = <<>>
    BY <1>2, PhraseSaysPlain
  <2>2. PICK p \in Phrases : p[2] = r /\ one = p[1]
    BY <2>1, PhraseIsWritten
  <2>3. QED
    BY <2>2, PhraseIsParsed
<1>3. CASE r.kind \in {"Checkout", "Merge", "Rebase"} /\ IsName(r.name) /\ r.base = <<>>
  <2>1. PICK c \in Commands : c[2] = r.kind /\ one = <<c[1], Blank>> \o r.name
    <3>1. CASE r.kind = "Checkout"
      <4>1. one = <<"checkout", Blank>> \o r.name
        BY <3>1, CommandIsWritten
      <4>2. PICK c : c = <<"checkout", "Checkout">>
        OBVIOUS
      <4>3. c \in Commands /\ c[1] = "checkout" /\ c[2] = "Checkout"
        BY <4>2 DEF Commands
      <4>4. QED
        BY <3>1, <4>1, <4>3
    <3>2. CASE r.kind = "Merge"
      <4>1. one = <<"merge", Blank>> \o r.name
        BY <3>2, CommandIsWritten
      <4>2. PICK c : c = <<"merge", "Merge">>
        OBVIOUS
      <4>3. c \in Commands /\ c[1] = "merge" /\ c[2] = "Merge"
        BY <4>2 DEF Commands
      <4>4. QED
        BY <3>2, <4>1, <4>3
    <3>3. CASE r.kind = "Rebase"
      <4>1. one = <<"rebase", Blank>> \o r.name
        BY <3>3, CommandIsWritten
      <4>2. PICK c : c = <<"rebase", "Rebase">>
        OBVIOUS
      <4>3. c \in Commands /\ c[1] = "rebase" /\ c[2] = "Rebase"
        BY <4>2 DEF Commands
      <4>4. QED
        BY <3>3, <4>1, <4>3
    <3>4. QED
      BY <1>3, <3>1, <3>2, <3>3
  <2>2. IsName(r.name) /\ one = <<c[1], Blank>> \o r.name
    BY <1>3, <2>1
  <2>3. IsPlain(one) /\ ParseSingle(one) = Request(c[2], r.name, <<>>)
    BY <2>2, CommandWritten
  <2>4. IsStep(one)
    BY <2>3, PlainIsStep
  <2>5. QED
    BY <1>1, <1>3, <2>1, <2>3, <2>4
<1>4. CASE r.kind = "CreateBranch" /\ IsName(r.name) /\ IsName(r.base)
  <2>1. r.base # <<>>
    BY <1>4, NameIs
  <2>2. one = (<<"branch", Blank>> \o r.name) \o (<<Blank, "from", Blank>> \o r.base)
    BY <1>4, <2>1, BranchIsWritten
  <2>3. IsName(r.name) /\ IsName(r.base)
    BY <1>4
  <2>4. IsPlain(one) /\ ParseSingle(one) = Request("CreateBranch", r.name, r.base)
    BY <2>2, <2>3, BranchFromWritten
  <2>5. IsStep(one)
    BY <2>4, PlainIsStep
  <2>6. QED
    BY <1>1, <1>4, <2>4, <2>5
<1>5. CASE /\ r.kind = "CreateBranch" /\ IsName(r.name) /\ r.base = <<>>
           /\ InLower(r.name) # <<"list">>
  <2>1. one = (<<"branch", Blank>> \o r.name) \o <<>>
    BY <1>5, BranchIsWritten
  <2>2. one = <<"branch", Blank>> \o r.name
    <3>1. PICK h : h = <<"branch", Blank>>
      OBVIOUS
    <3>2. h \in Seq(Tokens)
      BY <3>1, GrammarTokens, BlankIs
    <3>3. r.name \in Seq(Tokens)
      BY <1>5, NameIs
    <3>4. PICK g : g = h \o r.name
      OBVIOUS
    <3>5. g \in Seq(Tokens)
      BY <3>2, <3>3, <3>4, ConcatIs
    <3>6. g \o <<>> = g
      BY <3>5, ConcatEmptySeq
    <3>7. QED
      BY <2>1, <3>1, <3>4, <3>6
  <2>3. IsName(r.name) /\ InLower(r.name) # <<"list">>
    BY <1>5
  <2>4. IsPlain(one) /\ ParseSingle(one) = Request("CreateBranch", r.name, <<>>)
    BY <2>2, <2>3, BranchWritten
  <2>5. IsStep(one)
    BY <2>4, PlainIsStep
  <2>6. QED
    BY <1>1, <1>5, <2>4, <2>5
<1>6. CASE r.kind = "OpenPullRequest" /\ r.name = <<>> /\ IsName(r.base)
  <2>1. r.base # <<>> /\ IsName(r.base)
    BY <1>6, NameIs
  <2>2. \/ one = <<"open", Blank, "pr">> \o (<<Blank, "to", Blank>> \o r.base)
        \/ one = <<"open", Blank, "pull", Blank, "request">> \o (<<Blank, "to", Blank>> \o r.base)
    BY <1>6, <2>1, OpeningIsWritten
  <2>3. IsPlain(one) /\ ParseSingle(one) = Request("OpenPullRequest", <<>>, r.base)
    <3>1. CASE one = <<"open", Blank, "pr">> \o (<<Blank, "to", Blank>> \o r.base)
      BY <2>1, <3>1, OpensPrWritten
    <3>2. CASE one = <<"open", Blank, "pull", Blank, "request">> \o (<<Blank, "to", Blank>> \o r.base)
      BY <2>1, <3>2, OpensPullWritten
    <3>3. QED
      BY <2>2, <3>1, <3>2
  <2>4. IsStep(one)
    BY <2>3, PlainIsStep
  <2>5. QED
    BY <1>1, <1>6, <2>3, <2>4
<1>7. CASE r.kind = "Commit" /\ IsMessage(r.name) /\ r.base = <<>>
  <2>1. one = <<"commit", Blank, "-m", Blank, Quote>> \o r.name \o <<Quote>>
    BY <1>7, CommitIsWritten
  <2>2. IsMessage(r.name)
    BY <1>7
  <2>3. IsStep(one) /\ ParseSingle(one) = Request("Commit", r.name, <<>>)
    BY <2>1, <2>2, CommitWritten
  <2>4. QED
    BY <1>1, <1>7, <2>3
<1>8. QED
  BY <1>2, <1>3, <1>4, <1>5, <1>6, <1>7 DEF CanBeSaid

\* The written forms of one or two requests are understood.
LEMMA OneIsUnderstood ==
  ASSUME NEW r, r # None, CanBeSaid(r), NEW one \in Written(r)
  PROVE  one \in Seq(Tokens) /\ ParsePrompt(one) = <<r>>
<1>1. IsStep(one) /\ ParseSingle(one) = r
  BY WrittenIs
<1>2. ~SplitPrompt(one).failed /\ SplitPrompt(one).segments = <<one>> /\ Trim(one) = one
  BY <1>1, StepAlone
<1>3. one # <<>> /\ one \in Seq(Tokens)
  BY <1>1 DEF IsStep
<1> DEFINE requests == [i \in DOMAIN <<one>> |-> ParseSingle(<<one>>[i])]
<1>4. requests = <<r>>
  BY <1>1
<1>5. None \notin Range(<<r>>)
  BY DEF Range
<1>6. ParsePrompt(one)
        = IF Trim(one) = <<>> \/ SplitPrompt(one).failed \/ None \in Range(requests) THEN None ELSE requests
  BY <1>2 DEF ParsePrompt
<1> HIDE DEF requests
<1>7. QED
  BY <1>2, <1>3, <1>4, <1>5, <1>6

LEMMA TwoAreUnderstood ==
  ASSUME NEW r, r # None, CanBeSaid(r), NEW one \in Written(r),
         NEW q, q # None, CanBeSaid(q), NEW two \in Written(q), NEW connector \in Connectors
  PROVE  /\ one \o connector \o two \in Seq(Tokens)
         /\ ParsePrompt(one \o connector \o two) = <<r, q>>
<1>1. IsStep(one) /\ ParseSingle(one) = r /\ IsStep(two) /\ ParseSingle(two) = q
  BY WrittenIs
<1>2. PICK s : s = one \o connector \o two
  OBVIOUS
<1>3. /\ s \in Seq(Tokens) /\ s # <<>> /\ Trim(s) = s
      /\ ~SplitPrompt(s).failed /\ SplitPrompt(s).segments = <<one, two>>
  BY <1>1, <1>2, StepsJoined
<1> DEFINE requests == [i \in DOMAIN <<one, two>> |-> ParseSingle(<<one, two>>[i])]
<1>4. requests = <<r, q>>
  BY <1>1
<1>5. None \notin Range(<<r, q>>)
  BY DEF Range
<1>6. ParsePrompt(s)
        = IF Trim(s) = <<>> \/ SplitPrompt(s).failed \/ None \in Range(requests) THEN None ELSE requests
  BY <1>3 DEF ParsePrompt
<1> HIDE DEF requests
<1>7. ParsePrompt(s) = <<r, q>>
  BY <1>3, <1>4, <1>5, <1>6
<1>8. QED
  BY <1>2, <1>3, <1>7

-----------------------------------------------------------------------------
(***************************************************************************)
(* The prompt panel.                                                       *)
(***************************************************************************)
PromptInv == prompt \in Seq(Tokens) /\ UnderstoodAsWritten

LEMMA PromptInitiallyInv ==
  ASSUME PromptInit
  PROVE  PromptInv
  BY DEF PromptInit, PromptInv, UnderstoodAsWritten

LEMMA PromptStepInv ==
  ASSUME PromptInv, [PromptNext]_promptVars
  PROVE  PromptInv'
<1>1. prompt \in Seq(Tokens) /\ UnderstoodAsWritten
  BY DEF PromptInv
<1>2. CASE WritePrompt
  <2>1. PICK first \in Requests, second \in Requests :
          \E one \in Written(first), two \in Written(second) : \E connector \in Connectors :
            \/ prompt' = one /\ intended' = <<first>>
            \/ prompt' = one \o connector \o two /\ intended' = <<first, second>>
    BY <1>2 DEF WritePrompt
  <2> PICK one \in Written(first), two \in Written(second) : \E connector \in Connectors :
        \/ prompt' = one /\ intended' = <<first>>
        \/ prompt' = one \o connector \o two /\ intended' = <<first, second>>
    BY <2>1
  <2> PICK connector \in Connectors :
        \/ prompt' = one /\ intended' = <<first>>
        \/ prompt' = one \o connector \o two /\ intended' = <<first, second>>
    OBVIOUS
  <2>2. first # None /\ CanBeSaid(first) /\ second # None /\ CanBeSaid(second)
    BY RequestAssumption
  <2>3. one \in Seq(Tokens) /\ ParsePrompt(one) = <<first>>
    BY <2>2, OneIsUnderstood
  <2>4. /\ one \o connector \o two \in Seq(Tokens)
        /\ ParsePrompt(one \o connector \o two) = <<first, second>>
    BY <2>2, TwoAreUnderstood
  <2>5. prompt' \in Seq(Tokens) /\ ParsePrompt(prompt') = intended'
    <3>1. CASE prompt' = one /\ intended' = <<first>>
      BY <2>3, <3>1
    <3>2. CASE prompt' = one \o connector \o two /\ intended' = <<first, second>>
      BY <2>4, <3>2
    <3>3. QED
      BY <3>1, <3>2
  <2>6. ParsePrompt(prompt)' = ParsePrompt(prompt')
    OBVIOUS
  <2>7. QED
    BY <2>5, <2>6 DEF PromptInv, UnderstoodAsWritten
<1>3. CASE Type
  <2>1. prompt' \in Seq(Tokens) /\ intended' = None
    <3>1. PICK token \in Typed : prompt' = Append(prompt, token)
      BY <1>3 DEF Type
    <3>2. token \in Tokens
      BY PromptAssumption
    <3>3. QED
      BY <1>1, <1>3, <3>1, <3>2 DEF Type
  <2>2. QED
    BY <2>1 DEF PromptInv, UnderstoodAsWritten
<1>4. CASE Backspace
  <2>1. prompt' \in Seq(Tokens)
    BY <1>1, <1>4 DEF Backspace, Front
  <2>2. intended' = None
    BY <1>4 DEF Backspace
  <2>3. QED
    BY <2>1, <2>2 DEF PromptInv, UnderstoodAsWritten
<1>5. CASE SubmitPrompt
  <2>1. CASE prompt' = <<>> /\ intended' = None
    <3>1. prompt' \in Seq(Tokens)
      BY <2>1
    <3>2. QED
      BY <2>1, <3>1 DEF PromptInv, UnderstoodAsWritten
  <2>2. CASE UNCHANGED <<prompt, intended>>
    BY <1>1, <2>2 DEF PromptInv, UnderstoodAsWritten
  <2>3. QED
    BY <1>5, <2>1, <2>2 DEF SubmitPrompt
<1>6. CASE UNCHANGED promptVars
  BY <1>1, <1>6 DEF promptVars, PromptInv, UnderstoodAsWritten
<1>7. QED
  BY <1>2, <1>3, <1>4, <1>5, <1>6 DEF PromptNext

LEMMA PromptAlwaysInv == PromptSpec => []PromptInv
<1>1. PromptInit => PromptInv
  BY PromptInitiallyInv
<1>2. PromptInv /\ [PromptNext]_promptVars => PromptInv'
  BY PromptStepInv
<1>3. QED
  BY <1>1, <1>2, PTL DEF PromptSpec

\* Whatever is typed, a prompt is cut at the connectors outside of quotes and
\* nowhere else, and it is refused exactly if a quote is open, a piece is blank
\* or a character of the shell stands outside of quotes: no text of a message
\* becomes a step, and no step is lost (split_prompt_sequence).
THEOREM PromptSplitsAtUnquotedConnectors == PromptSpec => []SplitsAtUnquotedConnectors
<1>1. PromptInv => SplitsAtUnquotedConnectors
  <2> SUFFICES ASSUME PromptInv PROVE SplitsAtUnquotedConnectors
    OBVIOUS
  <2>1. prompt \in Seq(Tokens)
    BY DEF PromptInv
  <2>2. Trim(prompt) \in Seq(Tokens)
    BY <2>1, TrimType
  <2>3. QED
    BY <2>2, SplitIsAtCuts
<1>2. QED
  BY <1>1, PromptAlwaysInv, PTL

\* Every request that can be said, and every two of them joined by any
\* connector, is understood as what the user meant when it is written as the
\* documentation does: no connector, option or blank of a quoted message, and
\* no name, makes it another request (parse_prompt).
THEOREM PromptUnderstoodAsWritten == PromptSpec => []UnderstoodAsWritten
<1>1. PromptInv => UnderstoodAsWritten
  BY DEF PromptInv
<1>2. QED
  BY <1>1, PromptAlwaysInv, PTL
=============================================================================
