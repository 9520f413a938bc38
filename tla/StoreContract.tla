---------------------------- MODULE StoreContract ----------------------------
(***************************************************************************)
(* What a reader of the local store may see: the registered repositories,  *)
(* and the active and recent ones.  One change of what is read is the      *)
(* whole effect of one requested update of what was read before: no update *)
(* is applied in part, none is undone, and an older content never comes    *)
(* back.  An update is lost, though acknowledged, only in a file in doubt  *)
(* after a failed one, and ends that doubt.  Only a file whose very first  *)
(* update fails may become unreadable.                                     *)
(***************************************************************************)
EXTENDS Lists

CONSTANTS Repos, NoRepo, RecentCap, Unreadable

VARIABLES
  registered, \* content of the registry
  recorded,   \* content of the application state
  kept,       \* the files with an update that took effect
  doubt,      \* the files whose last update failed halfway
  missed      \* the files that lost an acknowledged update

vars == <<registered, recorded, kept, doubt, missed>>

Init ==
  /\ registered = {}
  /\ recorded = [active |-> NoRepo, recent |-> <<>>]
  /\ kept = {} /\ doubt = {} /\ missed = {}

Applied(file) ==
  /\ file \notin doubt
  /\ kept' = kept \cup {file}
  /\ UNCHANGED <<doubt, missed>>

KeepRegistry(repos) == registered' = repos /\ Applied("registry") /\ UNCHANGED recorded
KeepState(state)    == recorded' = state /\ Applied("state") /\ UNCHANGED registered

Register(repo)   == registered # Unreadable /\ KeepRegistry(registered \cup {repo})
Unregister(repo) == registered # Unreadable /\ KeepRegistry(registered \ {repo})

Others(repo) == Sublist(recorded.recent, Repos \ {repo})

Forget(repo) ==
  /\ recorded # Unreadable
  /\ KeepState([active |-> IF recorded.active = repo THEN NoRepo ELSE recorded.active,
                recent |-> Others(repo)])

Deactivate == recorded # Unreadable /\ KeepState([recorded EXCEPT !.active = NoRepo])

\* The active repository heads the recent ones, of which the oldest fall off.
Activate(repo) ==
  LET latest == IF Len(Others(repo)) < RecentCap THEN Others(repo)
                ELSE SubSeq(Others(repo), 1, RecentCap - 1)
  IN /\ recorded # Unreadable /\ registered # Unreadable
     /\ repo \in registered
     /\ KeepState([active |-> repo, recent |-> <<repo>> \o latest])

FailHalfway(file) ==
  /\ doubt' = doubt \cup {file}
  /\ IF file \in kept THEN UNCHANGED <<registered, recorded>>
     ELSE IF file = "registry" THEN registered' = Unreadable /\ UNCHANGED recorded
     ELSE recorded' = Unreadable /\ UNCHANGED registered
  /\ UNCHANGED <<kept, missed>>

Lose(file) ==
  /\ file \in doubt \cap kept
  /\ doubt' = doubt \ {file}
  /\ missed' \in {missed, missed \cup {file}}
  /\ UNCHANGED <<registered, recorded, kept>>

Next ==
  \/ \E repo \in Repos : Register(repo) \/ Unregister(repo) \/ Forget(repo) \/ Activate(repo)
  \/ Deactivate
  \/ \E file \in {"registry", "state"} : FailHalfway(file) \/ Lose(file)

Spec == Init /\ [][Next]_vars

=============================================================================
