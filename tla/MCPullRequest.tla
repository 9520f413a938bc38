--------------------------- MODULE MCPullRequest ---------------------------
(***************************************************************************)
(* A small instance of PullRequest for TLC: one repository with its fork,  *)
(* two branches, two commits.  The configurations redirect the head to the *)
(* fork, the base to the fork (by the push URL alone of the remote called  *)
(* upstream), and the branch to no upstream.                               *)
(***************************************************************************)
EXTENDS PullRequest

CONSTANTS c1, c2

History == {<<c1, c1>>, <<c1, c2>>, <<c2, c2>>}

Direct ==
  [pushRemote |-> [b \in Branches |-> Nil], pushDefault |-> Nil, mode |-> "current",
   defaultRemote |-> "origin",
   upstream |-> [b \in Branches |-> IF b = "topic" THEN <<"origin", "topic">> ELSE Nil],
   urls |-> [r \in Remotes |-> IF r = "origin" THEN {"u1"} ELSE {}],
   fetch |-> [r \in Remotes |-> IF r = "origin" THEN "u1" ELSE Nil]]
Based    == [Direct EXCEPT !.urls["upstream"] = {"u2"}]
Forked   == [Based EXCEPT !.pushDefault = "upstream", !.fetch["upstream"] = "u1"]
Unbound  == [Direct EXCEPT !.upstream["topic"] = Nil]

Redirections == {Direct, Forked, Based, Unbound}

Hosted == [u \in Urls |-> IF u = "u1" THEN "app" ELSE "fork"]

Open   == [kind |-> "open", branch |-> Nil]
Push   == [kind |-> "push", branch |-> Nil]
Switch == [kind |-> "checkout", branch |-> "topic"]
Start  == [kind |-> "create", branch |-> "topic"]
Track  == [kind |-> "track", branch |-> <<"origin", "topic">>]
Asked  == {<<Open>>, <<Push, Open>>, <<Switch, Push, Open>>, <<Start, Push, Open>>,
           <<Track, Open>>}

Duplicates == {[repository |-> "app", base |-> "main", from |-> "app", branch |-> "topic"],
               [repository |-> "app", base |-> "topic", from |-> "app", branch |-> "topic"]}

MCInit ==
  /\ Init
  /\ \/ tip = [b \in Branches |-> IF b = "main" THEN c1 ELSE c2] /\ config = Direct
     \/ tip = [b \in Branches |-> IF b = "main" THEN c1 ELSE Nil] /\ config = Unbound
  /\ published = [place \in Names \X Branches |->
                    IF place[2] = "main" THEN c1 ELSE IF place[1] = "app" THEN c2 ELSE Nil]
  /\ tracking = [d \in Destinations |->
                   IF d[1] = "upstream" THEN Nil ELSE IF d[2] = "main" THEN c1 ELSE c2]

MCSpec == MCInit /\ [][Next]_vars

=============================================================================
