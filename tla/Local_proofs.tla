---------------------------- MODULE Local_proofs ----------------------------
(***************************************************************************)
(* What a session guarantees by itself, without the other clients of the   *)
(* repository having a say.  What the local store guarantees, for files of *)
(* any length and whatever writes fail, and what the audit log does; what  *)
(* run_bounded_command does for all limits, pipe sizes and deadlines,      *)
(* however its caller, its drains, Git and what Git has started are        *)
(* scheduled; what the list of changed files shows and acts on, for all    *)
(* paths, worktrees and terminals; and what a plan says while it waits for *)
(* a key, for all policies and sequences.                                  *)
(***************************************************************************)
EXTENDS Store, AuditLog, BoundedCommand, StatusPanel, Confirmation, SequenceTheorems,
        FiniteSetTheorems, WellFoundedInduction, TLAPS

-----------------------------------------------------------------------------
(***************************************************************************)
(* Induction.  Theorems that take an operator cannot be used here; that    *)
(* the order of the natural numbers is well-founded gives induction over   *)
(* sets instead: to show a property of all numbers, take the set of those  *)
(* that have it.                                                           *)
(***************************************************************************)
\* Every set of natural numbers but the empty one has a least element.
LEMMA LeastNatural ==
  ASSUME NEW T \in SUBSET Nat, T # {}
  PROVE  \E n \in T : \A m \in T : n <= m
<1>1. \E R : /\ IsWellFoundedOn(R, Nat)
             /\ \A x, y \in Nat : <<y, x>> \in R <=> y < x
  <2> DEFINE R == OpToRel(<, Nat)
  <2>1. IsWellFoundedOn(R, Nat)
    BY NatLessThanWellFounded
  <2>2. \A x, y \in Nat : <<y, x>> \in R <=> y < x
    BY DEF OpToRel
  <2> HIDE DEF R
  <2>3. QED
    BY <2>1, <2>2
<1>2. PICK R : /\ IsWellFoundedOn(R, Nat)
               /\ \A x, y \in Nat : <<y, x>> \in R <=> y < x
  BY <1>1
<1>3. PICK x \in T : \A y \in T : ~ (<<y, x>> \in R)
  BY <1>2, WFMin
<1>4. \A y \in T : ~ (y < x)
  <2> SUFFICES ASSUME NEW y \in T PROVE ~ (y < x)
    OBVIOUS
  <2>1. x \in Nat /\ y \in Nat /\ ~ (<<y, x>> \in R)
    BY <1>3
  <2>2. QED
    BY <1>2, <2>1
<1>5. QED
  BY <1>4

LEMMA SetInduction ==
  ASSUME NEW S, 0 \in S, \A n \in Nat : n \in S => n + 1 \in S
  PROVE  Nat \subseteq S
<1> SUFFICES ASSUME ~(Nat \subseteq S) PROVE FALSE
  OBVIOUS
<1>1. PICK n \in Nat \ S : \A m \in Nat \ S : n <= m
  BY LeastNatural
<1>2. n # 0 /\ n - 1 \in Nat
  BY <1>1
<1>3. n - 1 \in S
  BY <1>1, <1>2
<1>4. QED
  BY <1>1, <1>2, <1>3

\* A set of positions in a list has a last one.
LEMMA LastPosition ==
  ASSUME NEW n \in Nat, NEW T \in SUBSET (1..n), T # {}
  PROVE  \E i \in T : \A j \in T : j <= i
<1> DEFINE Back == {n - i : i \in T}
<1>1. Back \in SUBSET Nat /\ Back # {}
  <2>1. \A i \in T : n - i \in Nat
    OBVIOUS
  <2>2. QED
    BY <2>1
<1>2. PICK d \in Back : \A e \in Back : d <= e
  BY <1>1, LeastNatural
<1>3. PICK i \in T : d = n - i
  BY <1>2
<1>4. \A j \in T : n - i <= n - j
  BY <1>2, <1>3
<1>5. QED
  BY <1>3, <1>4

-----------------------------------------------------------------------------
(***************************************************************************)
(* Sublists.  The recursive function exists, since its initial parts do,   *)
(* and there is one only; so Sublist goes through a list element by        *)
(* element.                                                                *)
(***************************************************************************)
\* The function by which Sublist is defined, on the first positions of a list.
IsSub(sub, list, elements, n) ==
  sub = [i \in 0..n |->
           IF i = 0 THEN <<>>
           ELSE IF list[i] \in elements THEN Append(sub[i - 1], list[i])
           ELSE sub[i - 1]]

LEMMA SubExists ==
  ASSUME NEW list, NEW elements, NEW n \in Nat
  PROVE  \E sub : IsSub(sub, list, elements, n)
<1> DEFINE S == {k \in Nat : \E sub : IsSub(sub, list, elements, k)}
<1>1. 0 \in S
  <2> DEFINE sub == [i \in 0..0 |-> <<>>]
  <2>1. IsSub(sub, list, elements, 0)
    BY DEF IsSub
  <2>2. QED
    BY <2>1
<1>2. ASSUME NEW k \in Nat, k \in S PROVE k + 1 \in S
  <2>1. PICK sub : IsSub(sub, list, elements, k)
    BY <1>2
  <2> DEFINE last == IF list[k + 1] \in elements THEN Append(sub[k], list[k + 1]) ELSE sub[k]
             next == [i \in 0..(k + 1) |-> IF i = k + 1 THEN last ELSE sub[i]]
             step(s, i) == IF i = 0 THEN <<>>
                           ELSE IF list[i] \in elements THEN Append(s[i - 1], list[i])
                           ELSE s[i - 1]
  <2>2. ASSUME NEW i \in 0..(k + 1)
        PROVE  next[i] = step(next, i)
    <3>1. CASE i = k + 1
      <4>1. next[i] = last /\ next[i - 1] = sub[k] /\ i # 0
        BY <3>1
      <4> HIDE DEF next
      <4>2. QED
        BY <3>1, <4>1
    <3>2. CASE i \in 0..k
      <4>1. next[i] = sub[i] /\ (i # 0 => next[i - 1] = sub[i - 1])
        BY <3>2
      <4>2. sub[i] = step(sub, i)
        BY <2>1, <3>2 DEF IsSub
      <4> HIDE DEF next
      <4>3. QED
        BY <4>1, <4>2
    <3>3. QED
      BY <3>1, <3>2
  <2>3. next = [i \in 0..(k + 1) |-> next[i]]
    OBVIOUS
  <2> HIDE DEF next
  <2>4. IsSub(next, list, elements, k + 1)
    BY <2>2, <2>3 DEF IsSub
  <2>5. QED
    BY <2>4
<1> HIDE DEF S
<1>3. Nat \subseteq S
  BY <1>1, <1>2, SetInduction
<1>4. QED
  BY <1>3 DEF S

\* Of lists that agree so far, by sets of elements that agree on them.
LEMMA SubUnique ==
  ASSUME NEW n \in Nat, NEW m \in Nat, n <= m,
         NEW list, NEW other, NEW elements, NEW others,
         \A i \in 1..n : other[i] = list[i] /\ (list[i] \in others <=> list[i] \in elements),
         NEW sub, IsSub(sub, list, elements, n),
         NEW also, IsSub(also, other, others, m)
  PROVE  \A i \in 0..n : also[i] = sub[i]
<1> DEFINE S == {k \in Nat : k <= n => also[k] = sub[k]}
<1>1. 0 \in S
  BY DEF IsSub
<1>2. ASSUME NEW k \in Nat, k \in S PROVE k + 1 \in S
  <2> SUFFICES ASSUME k + 1 <= n PROVE also[k + 1] = sub[k + 1]
    OBVIOUS
  <2>1. k + 1 \in 1..n /\ k + 1 \in 0..n /\ k + 1 \in 0..m /\ k + 1 # 0 /\ (k + 1) - 1 = k
    OBVIOUS
  <2>2. sub[k + 1] = IF list[k + 1] \in elements THEN Append(sub[k], list[k + 1]) ELSE sub[k]
    BY <2>1 DEF IsSub
  <2>3. also[k + 1] = IF other[k + 1] \in others THEN Append(also[k], other[k + 1]) ELSE also[k]
    BY <2>1 DEF IsSub
  <2>4. also[k] = sub[k]
    BY <1>2
  <2>5. QED
    BY <2>1, <2>2, <2>3, <2>4
<1> HIDE DEF S
<1>3. Nat \subseteq S
  BY <1>1, <1>2, SetInduction
<1>4. QED
  BY <1>3 DEF S

\* What Sublist is: the last value of that function.
LEMMA SubDef ==
  ASSUME NEW list, Len(list) \in Nat, NEW elements
  PROVE  \E sub : IsSub(sub, list, elements, Len(list)) /\ Sublist(list, elements) = sub[Len(list)]
<1> DEFINE sub == CHOOSE s : IsSub(s, list, elements, Len(list))
<1>1. IsSub(sub, list, elements, Len(list))
  BY SubExists
<1>2. Sublist(list, elements) = sub[Len(list)]
  BY DEF Sublist, IsSub
<1> HIDE DEF sub
<1>3. QED
  BY <1>1, <1>2

\* The sublist of nothing, and of a list with one more element.
LEMMA SublistEmpty ==
  ASSUME NEW elements
  PROVE  Sublist(<<>>, elements) = <<>>
<1>1. Len(<<>>) = 0
  OBVIOUS
<1>2. PICK sub : IsSub(sub, <<>>, elements, 0) /\ Sublist(<<>>, elements) = sub[0]
  BY <1>1, SubDef
<1>3. QED
  BY <1>2 DEF IsSub

LEMMA SublistAppend ==
  ASSUME NEW S, NEW list \in Seq(S), NEW e \in S, NEW elements
  PROVE  Sublist(Append(list, e), elements) =
           IF e \in elements THEN Append(Sublist(list, elements), e)
           ELSE Sublist(list, elements)
<1> DEFINE n == Len(list)
           longer == Append(list, e)
<1>1. /\ n \in Nat /\ longer \in Seq(S) /\ Len(longer) = n + 1
      /\ \A i \in 1..n : longer[i] = list[i]
      /\ longer[n + 1] = e
  OBVIOUS
<1> HIDE DEF longer
<1>2. PICK sub : IsSub(sub, list, elements, n) /\ Sublist(list, elements) = sub[n]
  BY <1>1, SubDef
<1>3. PICK also : /\ IsSub(also, longer, elements, n + 1)
                  /\ Sublist(longer, elements) = also[n + 1]
  BY <1>1, SubDef
<1>4. also[n] = sub[n]
  <2>1. \A i \in 0..n : also[i] = sub[i]
    <3>1. n + 1 \in Nat /\ n <= n + 1
      BY <1>1
    <3> HIDE DEF n
    <3>2. QED
      BY <1>1, <1>2, <1>3, <3>1, SubUnique
  <2>2. QED
    BY <1>1, <2>1
<1>5. also[n + 1] = IF longer[n + 1] \in elements THEN Append(also[n], longer[n + 1]) ELSE also[n]
  <2>1. n + 1 \in 0..(n + 1) /\ n + 1 # 0 /\ (n + 1) - 1 = n
    BY <1>1
  <2>2. QED
    BY <1>3, <2>1 DEF IsSub
<1>6. QED
  BY <1>1, <1>2, <1>3, <1>4, <1>5 DEF longer

\* Of two sets that agree on a list the sublists are the same.
LEMMA SublistSame ==
  ASSUME NEW list, Len(list) \in Nat, NEW elements, NEW others,
         \A i \in 1..Len(list) : list[i] \in others <=> list[i] \in elements
  PROVE  Sublist(list, others) = Sublist(list, elements)
<1> DEFINE n == Len(list)
<1>1. PICK sub : IsSub(sub, list, elements, n) /\ Sublist(list, elements) = sub[n]
  BY SubDef
<1>2. PICK also : IsSub(also, list, others, n) /\ Sublist(list, others) = also[n]
  BY SubDef
<1>3. /\ n \in Nat /\ n <= n /\ n \in 0..n
      /\ \A i \in 1..n : list[i] = list[i] /\ (list[i] \in others <=> list[i] \in elements)
  OBVIOUS
<1> HIDE DEF n
<1>4. \A i \in 0..n : also[i] = sub[i]
  BY <1>1, <1>2, <1>3, SubUnique
<1>5. QED
  BY <1>1, <1>2, <1>3, <1>4

\* No element occurs twice.
Distinct(list) == \A i, j \in 1..Len(list) : list[i] = list[j] => i = j

\* A sublist has the elements of the list that are among the given ones, is not
\* longer, repeats nothing that the list does not, and begins with the same
\* element if that is given.
LEMMA SublistParts ==
  ASSUME NEW S, NEW list \in Seq(S), NEW elements
  PROVE  LET sub == Sublist(list, elements)
         IN /\ sub \in Seq({list[i] : i \in 1..Len(list)} \cap elements)
            /\ Len(sub) <= Len(list)
            /\ Distinct(list) => Distinct(sub)
            /\ list # <<>> /\ list[1] \in elements => sub # <<>> /\ sub[1] = list[1]
<1> DEFINE n == Len(list)
           Elements(k) == {list[i] : i \in 1..k}
           Part(s, k) ==
             /\ s \in Seq(Elements(k) \cap elements)
             /\ Len(s) <= k
             /\ Distinct(list) => Distinct(s)
             /\ k > 0 /\ list[1] \in elements => Len(s) > 0 /\ s[1] = list[1]
<1>1. PICK sub : IsSub(sub, list, elements, n) /\ Sublist(list, elements) = sub[n]
  BY SubDef
<1> DEFINE T == {k \in Nat : k <= n => Part(sub[k], k)}
<1>2. 0 \in T
  <2>1. sub[0] = <<>>
    BY <1>1 DEF IsSub
  <2>2. Len(<<>>) = 0 /\ <<>> \in Seq(Elements(0) \cap elements)
    OBVIOUS
  <2>3. Distinct(<<>>)
    BY <2>2 DEF Distinct
  <2>4. Part(<<>>, 0)
    BY <2>2, <2>3
  <2>5. QED
    BY <2>1, <2>4
<1>3. ASSUME NEW k \in Nat, k \in T PROVE k + 1 \in T
  <2> SUFFICES ASSUME k + 1 <= n PROVE Part(sub[k + 1], k + 1)
    OBVIOUS
  <2> DEFINE s == sub[k]
             e == list[k + 1]
  <2>1. Part(s, k)
    BY <1>3
  <2>2. k + 1 \in 1..n /\ k + 1 \in 0..n /\ k + 1 # 0 /\ (k + 1) - 1 = k
    OBVIOUS
  <2>3. sub[k + 1] = IF e \in elements THEN Append(s, e) ELSE s
    BY <1>1, <2>2 DEF IsSub
  <2>4. Elements(k) \subseteq Elements(k + 1) /\ e \in Elements(k + 1)
    OBVIOUS
  <2>5. Distinct(list) => e \notin Elements(k)
    BY <2>2 DEF Distinct
  <2>6. s \in Seq(Elements(k + 1) \cap elements) /\ Len(s) \in Nat
    BY <2>1, <2>4
  <2>7. \A i \in 1..Len(s) : s[i] \in Elements(k)
    BY <2>1
  <2>8. k = 0 => e = list[1] /\ Len(s) = 0
    BY <2>1, <2>6
  <2> HIDE DEF Elements, s, e
  <2>9. CASE e \in elements
    <3> DEFINE t == Append(s, e)
    <3>1. /\ t \in Seq(Elements(k + 1) \cap elements) /\ Len(t) = Len(s) + 1
          /\ t[Len(s) + 1] = e /\ \A i \in 1..Len(s) : t[i] = s[i]
      BY <2>4, <2>6, <2>9
    <3> HIDE DEF t
    <3>2. Distinct(list) => Distinct(t)
      <4> SUFFICES ASSUME Distinct(list),
                          NEW i \in 1..Len(t), NEW j \in 1..Len(t), t[i] = t[j]
                   PROVE  i = j
        BY DEF Distinct
      <4>1. \A a \in 1..Len(t) : a = Len(s) + 1 \/ a \in 1..Len(s)
        BY <2>6, <3>1
      <4>2. CASE i \in 1..Len(s) /\ j \in 1..Len(s)
        BY <2>1, <3>1, <4>2 DEF Distinct
      <4>3. CASE i = Len(s) + 1 /\ j \in 1..Len(s)
        BY <2>5, <2>7, <3>1, <4>3
      <4>4. CASE j = Len(s) + 1 /\ i \in 1..Len(s)
        BY <2>5, <2>7, <3>1, <4>4
      <4>5. QED
        BY <4>1, <4>2, <4>3, <4>4
    <3>3. list[1] \in elements => Len(t) > 0 /\ t[1] = list[1]
      BY <2>1, <2>6, <2>8, <3>1
    <3>4. sub[k + 1] = t
      BY <2>3, <2>9 DEF t
    <3>5. QED
      BY <2>1, <2>6, <3>1, <3>2, <3>3, <3>4
  <2>10. CASE e \notin elements
    BY <2>1, <2>3, <2>6, <2>8, <2>10
  <2>11. QED
    BY <2>9, <2>10
<1> HIDE DEF T
<1>4. Nat \subseteq T
  BY <1>2, <1>3, SetInduction
<1>5. Part(sub[n], n)
  <2>1. n \in Nat /\ n <= n
    OBVIOUS
  <2>2. n \in T
    BY <1>4, <2>1
  <2> HIDE DEF Part
  <2>3. QED
    BY <2>1, <2>2 DEF T
<1>6. QED
  BY <1>1, <1>5

\* A list has an element.
Has(list, element) == \E i \in 1..Len(list) : list[i] = element

\* Every element of the list that is among the given ones is in the sublist.
LEMMA SublistKeeps ==
  ASSUME NEW S, NEW list \in Seq(S), NEW elements, NEW j \in 1..Len(list), list[j] \in elements
  PROVE  Has(Sublist(list, elements), list[j])
<1> DEFINE n == Len(list)
<1>1. PICK sub : IsSub(sub, list, elements, n) /\ Sublist(list, elements) = sub[n]
  BY SubDef
<1>2. \A k \in 0..n : sub[k] \in Seq(S)
  <2> DEFINE T == {k \in Nat : k <= n => sub[k] \in Seq(S)}
  <2>1. 0 \in T
    BY <1>1 DEF IsSub
  <2>2. ASSUME NEW k \in Nat, k \in T PROVE k + 1 \in T
    <3> SUFFICES ASSUME k + 1 <= n PROVE sub[k + 1] \in Seq(S)
      OBVIOUS
    <3>1. k + 1 \in 1..n /\ k + 1 \in 0..n /\ k + 1 # 0 /\ (k + 1) - 1 = k /\ list[k + 1] \in S
      OBVIOUS
    <3>2. sub[k + 1] = IF list[k + 1] \in elements THEN Append(sub[k], list[k + 1]) ELSE sub[k]
      BY <1>1, <3>1 DEF IsSub
    <3>3. sub[k] \in Seq(S)
      BY <2>2
    <3>4. QED
      BY <3>1, <3>2, <3>3
  <2> HIDE DEF T
  <2>3. Nat \subseteq T
    BY <2>1, <2>2, SetInduction
  <2>4. QED
    BY <2>3 DEF T
<1> DEFINE T == {k \in Nat : j <= k /\ k <= n => Has(sub[k], list[j])}
<1>3. 0 \in T
  OBVIOUS
<1>4. ASSUME NEW k \in Nat, k \in T PROVE k + 1 \in T
  <2> SUFFICES ASSUME j <= k + 1, k + 1 <= n PROVE Has(sub[k + 1], list[j])
    OBVIOUS
  <2> DEFINE s == sub[k]
             e == list[k + 1]
  <2>1. k + 1 \in 0..n /\ k \in 0..n /\ k + 1 # 0 /\ (k + 1) - 1 = k /\ e \in S
    OBVIOUS
  <2>2. s \in Seq(S)
    BY <1>2, <2>1
  <2>3. sub[k + 1] = IF e \in elements THEN Append(s, e) ELSE s
    BY <1>1, <2>1 DEF IsSub
  <2>4. j <= k => Has(s, list[j])
    <3>1. k <= n
      OBVIOUS
    <3>2. QED
      BY <1>4, <3>1
  <2> HIDE DEF s, e
  <2>5. /\ Append(s, e) \in Seq(S) /\ Len(Append(s, e)) = Len(s) + 1 /\ Len(s) \in Nat
        /\ Append(s, e)[Len(s) + 1] = e
        /\ \A i \in 1..Len(s) : Append(s, e)[i] = s[i]
    BY <2>1, <2>2
  <2>6. CASE j = k + 1
    <3>1. e = list[j] /\ e \in elements
      BY <2>6 DEF e
    <3>2. Len(s) + 1 \in 1..(Len(s) + 1)
      BY <2>5
    <3>3. QED
      BY <2>3, <2>5, <3>1, <3>2 DEF Has
  <2>7. CASE j <= k
    <3>1. PICK i \in 1..Len(s) : s[i] = list[j]
      BY <2>4, <2>7 DEF Has
    <3>2. i \in 1..(Len(s) + 1)
      BY <2>5
    <3>3. QED
      BY <2>3, <2>5, <3>1, <3>2 DEF Has
  <2>8. QED
    BY <2>6, <2>7
<1> HIDE DEF T
<1>5. Nat \subseteq T
  BY <1>3, <1>4, SetInduction
<1>6. Has(sub[n], list[j])
  BY <1>5 DEF T
<1>7. QED
  BY <1>1, <1>6

-----------------------------------------------------------------------------
(***************************************************************************)
(* The audit log.  As long as all lines parse, those that were             *)
(* acknowledged are all there in their order, and every number that a line *)
(* holds has been given out.                                               *)
(***************************************************************************)
Acknowledged == {acknowledged[i] : i \in DOMAIN acknowledged}

Parses == \A i \in 1..Len(lines) : lines[i] # Corrupt

AuditInv ==
  /\ calls \in Nat /\ calls <= MaxEntries
  /\ lines \in Seq(1..calls \cup {Corrupt})
  /\ acknowledged \in Seq(1..calls)
  /\ Parses => Sublist(lines, Acknowledged) = acknowledged

\* The lines and the numbers after a call.
LEMMA CallType ==
  ASSUME AuditInv, calls < MaxEntries
  PROVE  /\ calls + 1 \in 1..MaxEntries /\ calls + 1 # Corrupt
         /\ lines \in Seq(1..(calls + 1) \cup {Corrupt})
         /\ acknowledged \in Seq(1..(calls + 1))
         /\ Acknowledged \subseteq 1..calls
         /\ \A i \in 1..Len(lines) : lines[i] # calls + 1
<1> USE AuditAssumption
<1>1. calls + 1 \in 1..MaxEntries /\ 1..calls \subseteq 1..(calls + 1) /\ calls + 1 \notin 1..calls
  BY DEF AuditInv
<1>2. calls + 1 # Corrupt
  BY <1>1
<1>3. /\ lines \in Seq(1..(calls + 1) \cup {Corrupt})
      /\ acknowledged \in Seq(1..(calls + 1))
  BY <1>1 DEF AuditInv
<1>4. Acknowledged \subseteq 1..calls
  BY DEF AuditInv, Acknowledged
<1>5. \A i \in 1..Len(lines) : lines[i] \in 1..calls \cup {Corrupt}
  BY DEF AuditInv
<1>6. QED
  BY <1>1, <1>2, <1>3, <1>4, <1>5

\* A call that writes a line, whole or corrupt.
LEMMA LineWritten ==
  ASSUME AuditInv, calls < MaxEntries, calls' = calls + 1,
         NEW line \in {calls', Corrupt}, lines' = Append(lines, line),
         acknowledged' \in {acknowledged, Append(acknowledged, calls')}
  PROVE  AuditInv'
<1> DEFINE n == calls + 1
<1>1. /\ n \in 1..MaxEntries /\ n # Corrupt /\ n \in 1..n
      /\ lines \in Seq(1..n \cup {Corrupt}) /\ acknowledged \in Seq(1..n)
      /\ Acknowledged \subseteq 1..calls
      /\ \A i \in 1..Len(lines) : lines[i] # n
  BY CallType
<1>2. line \in 1..n \cup {Corrupt}
  BY <1>1
<1>3. /\ lines' \in Seq(1..n \cup {Corrupt}) /\ Len(lines) \in Nat
      /\ Len(lines') = Len(lines) + 1 /\ lines'[Len(lines) + 1] = line
      /\ \A i \in 1..Len(lines) : lines'[i] = lines[i]
  <2> DEFINE S == 1..n \cup {Corrupt}
  <2>1. lines \in Seq(S) /\ line \in S
    BY <1>1, <1>2
  <2> HIDE DEF S
  <2>2. Append(lines, line) \in Seq(S)
    BY <2>1
  <2>3. Len(Append(lines, line)) = Len(lines) + 1 /\ Len(lines) \in Nat
    BY <2>1
  <2>4. /\ Append(lines, line)[Len(lines) + 1] = line
        /\ \A i \in 1..Len(lines) : Append(lines, line)[i] = lines[i]
    BY <2>1, <2>3
  <2>5. QED
    BY <2>2, <2>3, <2>4 DEF S
<1>4. /\ acknowledged' \in Seq(1..n)
      /\ Acknowledged' = IF acknowledged' = acknowledged THEN Acknowledged
                         ELSE Acknowledged \cup {n}
  <2> DEFINE S == 1..n
  <2>1. acknowledged \in Seq(S) /\ n \in S /\ Len(acknowledged) \in Nat
    BY <1>1
  <2> HIDE DEF S
  <2>2. CASE acknowledged' = acknowledged
    BY <2>1, <2>2 DEF Acknowledged, S
  <2>3. CASE acknowledged' = Append(acknowledged, n)
    <3> DEFINE k == Len(acknowledged)
    <3>1. /\ acknowledged' \in Seq(S) /\ DOMAIN acknowledged = 1..k
          /\ DOMAIN acknowledged' = 1..(k + 1) /\ acknowledged'[k + 1] = n
          /\ \A i \in 1..k : acknowledged'[i] = acknowledged[i]
      BY <2>1, <2>3
    <3>2. 1..(k + 1) = 1..k \cup {k + 1} /\ k + 1 \notin 1..k
      BY <2>1
    <3>3. acknowledged' # acknowledged
      BY <3>1, <3>2
    <3>4. Acknowledged' = Acknowledged \cup {n}
      <4> HIDE DEF k
      <4>1. {acknowledged'[i] : i \in 1..k} = {acknowledged[i] : i \in 1..k}
        BY <3>1
      <4>2. QED
        BY <3>1, <3>2, <4>1 DEF Acknowledged
    <3>5. QED
      BY <3>1, <3>3, <3>4 DEF S
  <2>4. QED
    BY <2>2, <2>3
<1>5. ASSUME Parses' PROVE Sublist(lines', Acknowledged') = acknowledged'
  <2>1. Parses /\ line = n
    <3>1. Len(lines) \in Nat
      BY <1>1
    <3>2. \A i \in 1..Len(lines) : lines[i] # Corrupt
      BY <1>3, <1>5, <3>1 DEF Parses
    <3>3. line # Corrupt
      BY <1>3, <1>5, <3>1 DEF Parses
    <3>4. QED
      BY <3>2, <3>3 DEF Parses
  <2>2. Sublist(lines, Acknowledged) = acknowledged
    BY <2>1 DEF AuditInv
  <2>3. Sublist(lines, Acknowledged') = Sublist(lines, Acknowledged)
    <3>1. Len(lines) \in Nat
      BY <1>1
    <3>2. \A i \in 1..Len(lines) : lines[i] \in Acknowledged' <=> lines[i] \in Acknowledged
      BY <1>1, <1>4
    <3>3. QED
      BY <3>1, <3>2, SublistSame
  <2>4. Sublist(lines', Acknowledged') =
          IF n \in Acknowledged' THEN Append(Sublist(lines, Acknowledged'), n)
          ELSE Sublist(lines, Acknowledged')
    <3> DEFINE S == 1..n \cup {Corrupt}
               elements == Acknowledged'
    <3>1. lines \in Seq(S) /\ n \in S /\ lines' = Append(lines, n)
      BY <1>1, <2>1
    <3> HIDE DEF n, S, elements
    <3>2. Sublist(Append(lines, n), elements) =
            IF n \in elements THEN Append(Sublist(lines, elements), n) ELSE Sublist(lines, elements)
      BY <3>1, SublistAppend
    <3>3. QED
      BY <3>1, <3>2 DEF elements
  <2>5. n \notin Acknowledged
    BY <1>1 DEF AuditInv
  <2>6. CASE acknowledged' = acknowledged
    BY <1>4, <2>2, <2>3, <2>4, <2>5, <2>6
  <2>7. CASE acknowledged' = Append(acknowledged, n)
    BY <1>4, <2>2, <2>3, <2>4, <2>7
  <2>8. QED
    BY <2>6, <2>7
<1>6. QED
  BY <1>1, <1>3, <1>4, <1>5 DEF AuditInv

LEMMA AuditStep == AuditInv /\ [AuditNext]_auditVars => AuditInv'
<1> SUFFICES ASSUME AuditInv, [AuditNext]_auditVars PROVE AuditInv'
  OBVIOUS
<1>0. \A rest : Joined(rest, calls') \subseteq {calls', Corrupt}
  BY DEF Joined
<1>1. CASE AppendAudit
  BY <1>0, <1>1, LineWritten DEF AppendAudit
<1>2. CASE AppendFails
  <2>1. CASE lines' = lines
    <3>1. /\ calls' = calls + 1 /\ calls + 1 \in 1..MaxEntries /\ acknowledged' = acknowledged
          /\ lines' \in Seq(1..calls' \cup {Corrupt}) /\ acknowledged' \in Seq(1..calls')
      BY <1>2, <2>1, CallType DEF AppendFails
    <3>2. QED
      BY <2>1, <3>1 DEF AuditInv, Parses, Acknowledged
  <2>2. CASE \E line \in Joined(tail, calls') : lines' = Append(lines, line)
    BY <1>0, <1>2, <2>2, LineWritten DEF AppendFails
  <2>3. QED
    BY <1>2, <2>1, <2>2 DEF AppendFails
<1>3. CASE UNCHANGED auditVars
  BY <1>3 DEF auditVars, AuditInv, Parses, Acknowledged
<1>4. QED
  BY <1>1, <1>2, <1>3 DEF AuditNext

LEMMA AuditInitial == AuditInit => AuditInv
<1> SUFFICES ASSUME AuditInit PROVE AuditInv
  OBVIOUS
<1>1. lines = <<>> /\ acknowledged = <<>> /\ calls = 0 /\ 0 <= MaxEntries
  BY AuditAssumption DEF AuditInit
<1>2. QED
  BY <1>1, SublistEmpty DEF AuditInv

LEMMA AuditImplied == AuditInv => ListingComplete
<1> SUFFICES ASSUME AuditInv, NEW listing \in Listings
             PROVE  Sublist(listing, Acknowledged) = acknowledged
  BY DEF ListingComplete, Acknowledged
<1>1. Parses /\ listing \in {lines, Append(lines, Partial)}
  BY DEF Listings, Parses, AuditInv
<1>2. Sublist(lines, Acknowledged) = acknowledged
  BY <1>1 DEF AuditInv
<1>3. Partial \notin Acknowledged
  BY AuditAssumption DEF AuditInv, Acknowledged
<1>4. lines \in Seq(1..calls \cup {Corrupt, Partial}) /\ Partial \in 1..calls \cup {Corrupt, Partial}
  BY DEF AuditInv
<1>5. Sublist(Append(lines, Partial), Acknowledged) = Sublist(lines, Acknowledged)
  BY <1>3, <1>4, SublistAppend
<1>6. QED
  BY <1>1, <1>2, <1>5

\* Evidence is refused or complete: a log of any length that can be listed
\* lists every entry whose append succeeded, in the order of the calls
\* (append_audit, parse_audit_entries).
THEOREM EvidenceIsComplete == AuditSpec => []ListingComplete
<1>1. QED
  BY AuditInitial, AuditStep, AuditImplied, PTL DEF AuditSpec

-----------------------------------------------------------------------------
(***************************************************************************)
(* Reading the files of the store: what one write leaves to be read.       *)
(***************************************************************************)
\* The files of which every whole line is one of these snapshots.
Files(snapshots) == [lines : Seq(snapshots \cup {Broken}), torn : BOOLEAN]

\* What is read is the last whole line; a file without one is empty or unreadable.
LEMMA ReadLast ==
  ASSUME NEW file, NEW default, NEW i \in WholeLines(file), \A j \in WholeLines(file) : j <= i,
         WholeLines(file) \subseteq Nat
  PROVE  ReadSnapshot(file, default) = file.lines[i]
<1>1. \A k \in WholeLines(file) : (\A j \in WholeLines(file) : j <= k) => k = i
  OBVIOUS
<1>2. (CHOOSE k \in WholeLines(file) : \A j \in WholeLines(file) : j <= k) = i
  BY <1>1
<1>3. QED
  BY <1>2 DEF ReadSnapshot

LEMMA WholeHasLast ==
  ASSUME NEW S, NEW file \in Files(S), NEW default, WholeLines(file) # {}
  PROVE  \E i \in WholeLines(file) : /\ \A j \in WholeLines(file) : j <= i
                                     /\ ReadSnapshot(file, default) = file.lines[i]
                                     /\ file.lines[i] \in S
<1>1. /\ file.lines \in Seq(S \cup {Broken}) /\ Len(file.lines) \in Nat
      /\ DOMAIN file.lines = 1..Len(file.lines)
  BY DEF Files
<1>2. WholeLines(file) \in SUBSET (1..Len(file.lines))
  BY <1>1 DEF WholeLines
<1>3. PICK i \in WholeLines(file) : \A j \in WholeLines(file) : j <= i
  BY <1>1, <1>2, LastPosition
<1>4. ReadSnapshot(file, default) = file.lines[i]
  BY <1>1, <1>2, <1>3, ReadLast
<1>5. file.lines[i] \in S
  BY <1>1, <1>3 DEF WholeLines
<1>6. QED
  BY <1>3, <1>4, <1>5

\* What is read is a snapshot, the content of no file at all, or nothing usable.
LEMMA ReadIsTyped ==
  ASSUME NEW S, NEW file \in Files(S), NEW default
  PROVE  /\ WholeLines(file) # {} => ReadSnapshot(file, default) \in S
         /\ ReadSnapshot(file, default) \in S \cup {default, Unreadable}
         /\ WholeLines(file) = {} /\ file.torn => ReadSnapshot(file, default) = Unreadable
<1>1. CASE WholeLines(file) # {}
  BY <1>1, WholeHasLast
<1>2. CASE WholeLines(file) = {}
  BY <1>2 DEF ReadSnapshot, EmptyFile
<1>3. QED
  BY <1>1, <1>2

\* A line cut short adds no whole line.
LEMMA CutShort ==
  ASSUME NEW S, NEW file \in Files(S), NEW default
  PROVE  LET cut == [file EXCEPT !.torn = TRUE]
         IN /\ cut \in Files(S) /\ cut.torn
            /\ WholeLines(cut) = WholeLines(file)
            /\ ReadSnapshot(cut, default) = IF WholeLines(file) = {} THEN Unreadable
                                            ELSE ReadSnapshot(file, default)
<1> DEFINE cut == [file EXCEPT !.torn = TRUE]
<1>1. cut \in Files(S) /\ cut.torn /\ cut.lines = file.lines
  BY DEF Files
<1>2. WholeLines(cut) = WholeLines(file)
  BY <1>1 DEF WholeLines
<1>3. cut # EmptyFile
  BY <1>1 DEF EmptyFile
<1> HIDE DEF cut
<1>4. ReadSnapshot(cut, default) = IF WholeLines(file) = {} THEN Unreadable
                                   ELSE ReadSnapshot(file, default)
  BY <1>1, <1>2, <1>3 DEF ReadSnapshot
<1>5. QED
  BY <1>1, <1>2, <1>4 DEF cut

\* A whole line is read, unless it was written onto the rest of another.
LEMMA LineAppended ==
  ASSUME NEW S, NEW file \in Files(S), NEW default, NEW snapshot \in S, Broken \notin S
  PROVE  LET after == AppendLine(file, snapshot)
         IN /\ after \in Files(S) /\ ~ after.torn
            /\ ~ file.torn => WholeLines(after) # {} /\ ReadSnapshot(after, default) = snapshot
            /\ file.torn /\ WholeLines(file) # {} =>
                 /\ WholeLines(after) = WholeLines(file)
                 /\ ReadSnapshot(after, default) = ReadSnapshot(file, default)
<1> DEFINE after == AppendLine(file, snapshot)
           line == IF file.torn THEN Broken ELSE snapshot
           T == S \cup {Broken}
           n == Len(file.lines)
<1>1. file.lines \in Seq(T) /\ line \in T /\ file.torn \in BOOLEAN /\ n \in Nat
  BY DEF Files
<1>2. after.lines = Append(file.lines, line) /\ ~ after.torn
  BY DEF AppendLine
<1>3. /\ after.lines \in Seq(T) /\ DOMAIN after.lines = 1..(n + 1) /\ after.lines[n + 1] = line
      /\ \A i \in 1..n : after.lines[i] = file.lines[i]
      /\ DOMAIN file.lines = 1..n
  <2> HIDE DEF line, T, after
  <2>1. QED
    BY <1>1, <1>2
<1>4. after \in Files(S)
  <2>1. after = [lines |-> Append(file.lines, line), torn |-> FALSE]
    BY DEF AppendLine
  <2> HIDE DEF line
  <2>2. QED
    BY <1>2, <1>3, <2>1 DEF Files
<1> HIDE DEF after, n, T
<1>5. ASSUME ~ file.torn
      PROVE  WholeLines(after) # {} /\ ReadSnapshot(after, default) = snapshot
  <2>1. n + 1 \in WholeLines(after) /\ WholeLines(after) \subseteq 1..(n + 1)
    BY <1>1, <1>3, <1>5 DEF WholeLines
  <2>2. \A j \in WholeLines(after) : j <= n + 1
    BY <1>1, <2>1
  <2>3. ReadSnapshot(after, default) = after.lines[n + 1]
    BY <1>1, <2>1, <2>2, ReadLast
  <2>4. QED
    BY <1>3, <1>5, <2>1, <2>3
<1>6. ASSUME file.torn, WholeLines(file) # {}
      PROVE  /\ WholeLines(after) = WholeLines(file)
             /\ ReadSnapshot(after, default) = ReadSnapshot(file, default)
  <2>1. \A i \in 1..(n + 1) : i \in 1..n \/ i = n + 1
    BY <1>1
  <2>2. WholeLines(after) = WholeLines(file)
    BY <1>1, <1>3, <1>6, <2>1 DEF WholeLines
  <2>3. PICK i \in WholeLines(file) : /\ \A j \in WholeLines(file) : j <= i
                                      /\ ReadSnapshot(file, default) = file.lines[i]
    BY <1>6, WholeHasLast
  <2>4. i \in 1..n /\ WholeLines(after) \subseteq Nat
    BY <1>1, <1>3, <2>2 DEF WholeLines
  <2>5. ReadSnapshot(after, default) = after.lines[i]
    BY <2>2, <2>3, <2>4, ReadLast
  <2>6. QED
    BY <1>3, <2>2, <2>3, <2>4, <2>5
<1>7. QED
  BY <1>2, <1>4, <1>5, <1>6 DEF after

\* What a write leaves, of a file that could be read: the file as it was, a line
\* cut short, a line that is read, or a line lost behind one cut short.
LEMMA Written ==
  ASSUME NEW S, NEW file \in Files(S), NEW default, NEW snapshot \in S,
         Broken \notin S, ReadSnapshot(file, default) # Unreadable,
         NEW succeeds \in BOOLEAN,
         NEW after \in WriteSnapshot(file, snapshot, succeeds)
  PROVE  /\ after \in Files(S)
         /\ \/ after = file /\ ~ succeeds
            \/ /\ ~ succeeds /\ after.torn /\ WholeLines(after) = WholeLines(file)
               /\ ReadSnapshot(after, default) = IF WholeLines(file) = {} THEN Unreadable
                                                 ELSE ReadSnapshot(file, default)
            \/ /\ ~ file.torn /\ ~ after.torn /\ WholeLines(after) # {}
               /\ ReadSnapshot(after, default) = snapshot
            \/ /\ file.torn /\ ~ after.torn
               /\ WholeLines(file) # {} /\ WholeLines(after) = WholeLines(file)
               /\ ReadSnapshot(after, default) = ReadSnapshot(file, default)
<1>1. file.torn => WholeLines(file) # {}
  BY ReadIsTyped
<1>2. CASE after = file /\ ~ succeeds
  BY <1>2
<1>3. CASE after = [file EXCEPT !.torn = TRUE] /\ ~ succeeds
  BY <1>3, CutShort
<1>4. CASE after = AppendLine(file, snapshot)
  BY <1>1, <1>4, LineAppended
<1>5. QED
  BY <1>2, <1>3, <1>4 DEF WriteSnapshot

-----------------------------------------------------------------------------
(***************************************************************************)
(* The store.  Every whole line of the state file is in order, the list is *)
(* short enough, repeats nothing and has the active repository first; this *)
(* is an invariant of the file, as any line may come to be the last that   *)
(* can be read.                                                            *)
(***************************************************************************)
OrderedStates ==
  {state \in States :
     /\ Len(state.recent) <= RecentCap
     /\ Distinct(state.recent)
     /\ state.active # NoRepo => state.recent # <<>> /\ state.recent[1] = state.active}

FilesInv ==
  /\ registryFile \in Files(SUBSET Repos)
  /\ stateFile \in Files(OrderedStates)
  /\ removing \in Repos \cup {NoRepo}
  /\ missed \subseteq {"registry", "state"}

LEMMA StatesDiffer ==
  /\ Broken \notin SUBSET Repos /\ Unreadable \notin SUBSET Repos
  /\ Broken \notin OrderedStates /\ Unreadable \notin OrderedStates
  /\ NoState \in OrderedStates
<1>1. Broken \notin SUBSET Repos /\ Unreadable \notin SUBSET Repos
  BY StoreAssumption
<1>2. OrderedStates \subseteq States
  BY DEF OrderedStates
<1>3. NoState \in States /\ Len(<<>>) = 0 /\ 0 <= RecentCap
  BY StoreAssumption DEF NoState, States
<1>4. Distinct(<<>>)
  BY <1>3 DEF Distinct
<1>5. NoState \in OrderedStates
  BY <1>3, <1>4 DEF OrderedStates, NoState
<1>6. QED
  BY <1>1, <1>2, <1>5, StoreAssumption

LEMMA ReadsTyped ==
  ASSUME FilesInv
  PROVE  /\ Registry \in (SUBSET Repos) \cup {Unreadable}
         /\ State \in OrderedStates \cup {Unreadable}
<1>1. {} \in SUBSET Repos
  OBVIOUS
<1>2. QED
  BY <1>1, ReadIsTyped, StatesDiffer DEF FilesInv, Registry, State

\* The list without a repository.
LEMMA WithoutParts ==
  ASSUME NEW list \in Seq(Repos), NEW repo
  PROVE  LET rest == Without(list, repo)
         IN /\ rest \in Seq(Repos \ {repo})
            /\ rest \in Seq(Repos)
            /\ {rest[i] : i \in 1..Len(rest)} \subseteq {list[i] : i \in 1..Len(list)}
            /\ Len(rest) <= Len(list)
            /\ Distinct(list) => Distinct(rest)
            /\ list # <<>> /\ list[1] # repo => rest # <<>> /\ rest[1] = list[1]
<1> DEFINE rest == Sublist(list, Repos \ {repo})
           read == {list[i] : i \in 1..Len(list)}
<1>1. /\ rest \in Seq(read \cap (Repos \ {repo}))
      /\ Len(rest) <= Len(list)
      /\ Distinct(list) => Distinct(rest)
      /\ list # <<>> /\ list[1] \in Repos \ {repo} => rest # <<>> /\ rest[1] = list[1]
  BY SublistParts
<1>2. list # <<>> => list[1] \in Repos
  OBVIOUS
<1> HIDE DEF rest, read
<1>3. /\ rest \in Seq(Repos \ {repo}) /\ rest \in Seq(Repos)
      /\ {rest[i] : i \in 1..Len(rest)} \subseteq read
  BY <1>1
<1>4. QED
  BY <1>1, <1>2, <1>3 DEF Without, rest, read

LEMMA Joining ==
  ASSUME NEW S, NEW one \in Seq(S), NEW list \in Seq(S)
  PROVE  /\ one \o list \in Seq(S) /\ Len(one \o list) = Len(one) + Len(list)
         /\ \A i \in 1..(Len(one) + Len(list)) :
              (one \o list)[i] = IF i <= Len(one) THEN one[i] ELSE list[i - Len(one)]
OBVIOUS

LEMMA Prepend ==
  ASSUME NEW S, NEW e \in S, NEW list \in Seq(S)
  PROVE  LET longer == <<e>> \o list
         IN /\ longer \in Seq(S) /\ Len(list) \in Nat /\ Len(longer) = Len(list) + 1
            /\ longer[1] = e
            /\ \A i \in 2..(Len(list) + 1) : longer[i] = list[i - 1] /\ i - 1 \in 1..Len(list)
<1> DEFINE one == <<e>>
           longer == one \o list
<1>1. one \in Seq(S) /\ Len(one) = 1 /\ one[1] = e /\ Len(list) \in Nat
  OBVIOUS
<1> HIDE DEF one
<1>2. /\ longer \in Seq(S) /\ Len(longer) = Len(list) + 1
      /\ \A i \in 1..(Len(list) + 1) : longer[i] = IF i <= 1 THEN one[i] ELSE list[i - 1]
  <2>1. /\ longer \in Seq(S) /\ Len(longer) = Len(one) + Len(list)
        /\ \A i \in 1..(Len(one) + Len(list)) :
             longer[i] = IF i <= Len(one) THEN one[i] ELSE list[i - Len(one)]
    BY <1>1, Joining
  <2> HIDE DEF longer
  <2>2. QED
    BY <1>1, <2>1
<1> HIDE DEF longer
<1>3. longer[1] = e
  BY <1>1, <1>2
<1>4. \A i \in 2..(Len(list) + 1) : longer[i] = list[i - 1] /\ i - 1 \in 1..Len(list)
  BY <1>1, <1>2
<1>5. QED
  BY <1>1, <1>2, <1>3, <1>4 DEF longer, one

\* The list with a repository in front, cut to its length: what push_recent
\* returns.
LEMMA PushParts ==
  ASSUME NEW list \in Seq(Repos), NEW repo \in Repos
  PROVE  LET rest   == Without(list, repo)
             pushed == PushRecent(list, repo)
         IN /\ pushed \in Seq(Repos)
            /\ Len(pushed) = IF Len(rest) < RecentCap THEN Len(rest) + 1 ELSE RecentCap
            /\ pushed[1] = repo
            /\ \A i \in 2..Len(pushed) : pushed[i] = rest[i - 1] /\ i - 1 \in 1..Len(rest)
<1> DEFINE rest == Without(list, repo)
           queue == <<repo>> \o rest
           k == IF Len(queue) > RecentCap THEN RecentCap ELSE Len(queue)
           pushed == SubSeq(queue, 1, k)
<1>1. rest \in Seq(Repos) /\ Len(rest) \in Nat
  <2>1. rest \in Seq(Repos)
    BY WithoutParts
  <2> HIDE DEF rest
  <2>2. QED
    BY <2>1
<1> HIDE DEF rest
<1>3. /\ queue \in Seq(Repos) /\ Len(queue) = Len(rest) + 1 /\ queue[1] = repo
      /\ \A i \in 2..Len(queue) : queue[i] = rest[i - 1] /\ i - 1 \in 1..Len(rest)
  BY <1>1, Prepend
<1>4. /\ k \in 1..Len(queue) /\ RecentCap \in Nat
      /\ k = IF Len(rest) < RecentCap THEN Len(rest) + 1 ELSE RecentCap
  BY <1>1, <1>3, StoreAssumption
<1> HIDE DEF queue, k
<1>5. /\ pushed \in Seq(Repos) /\ Len(pushed) = k
      /\ \A i \in 1..k : pushed[i] = queue[i]
  BY <1>3, <1>4
<1> HIDE DEF pushed
<1>6. /\ pushed[1] = repo
      /\ \A i \in 2..Len(pushed) : pushed[i] = rest[i - 1] /\ i - 1 \in 1..Len(rest)
  <2>1. 1 \in 1..k /\ \A i \in 2..k : i \in 1..k /\ i \in 2..Len(queue)
    BY <1>1, <1>3, <1>4
  <2>2. QED
    BY <1>3, <1>5, <2>1
<1>7. QED
  BY <1>4, <1>5, <1>6 DEF PushRecent, pushed, k, queue, rest

\* The repositories a state names.
Named(state) ==
  ({state.active} \ {NoRepo}) \cup {state.recent[i] : i \in 1..Len(state.recent)}

StateWith(state, repo) == [active |-> repo, recent |-> PushRecent(state.recent, repo)]

StateWithout(state, repo) ==
  [active |-> IF state.active = repo THEN NoRepo ELSE state.active,
   recent |-> Without(state.recent, repo)]

StateCleared(state) == [state EXCEPT !.active = NoRepo]

\* The three states that are saved are in order again.
LEMMA WithIsOrdered ==
  ASSUME NEW state \in OrderedStates, NEW repo \in Repos
  PROVE  /\ StateWith(state, repo) \in OrderedStates
         /\ Named(StateWith(state, repo)) \subseteq Named(state) \cup {repo}
<1> DEFINE list == state.recent
           rest == Without(list, repo)
           pushed == PushRecent(list, repo)
<1>1. list \in Seq(Repos) /\ Len(list) <= RecentCap /\ Distinct(list)
  BY DEF OrderedStates, States
<1>2. /\ rest \in Seq(Repos \ {repo}) /\ rest \in Seq(Repos) /\ Len(rest) \in Nat
      /\ {rest[i] : i \in 1..Len(rest)} \subseteq {list[i] : i \in 1..Len(list)}
      /\ Distinct(rest)
  <2>1. /\ rest \in Seq(Repos \ {repo}) /\ rest \in Seq(Repos)
        /\ {rest[i] : i \in 1..Len(rest)} \subseteq {list[i] : i \in 1..Len(list)}
        /\ Distinct(rest)
    BY <1>1, WithoutParts
  <2> HIDE DEF rest
  <2>2. rest \in Seq(Repos)
    BY <2>1
  <2>3. Len(rest) \in Nat
    BY <2>2
  <2>4. QED
    BY <2>1, <2>3, Zenon
<1>3. /\ pushed \in Seq(Repos)
      /\ Len(pushed) = IF Len(rest) < RecentCap THEN Len(rest) + 1 ELSE RecentCap
      /\ pushed[1] = repo
      /\ \A i \in 2..Len(pushed) : pushed[i] = rest[i - 1] /\ i - 1 \in 1..Len(rest)
  BY <1>1, PushParts
<1> HIDE DEF rest, pushed
<1>4. RecentCap \in Nat \ {0} /\ Len(pushed) \in Nat /\ 1 <= Len(pushed) /\ Len(pushed) <= RecentCap
  BY <1>2, <1>3, StoreAssumption
<1>5. \A i \in 1..Len(pushed) : i = 1 \/ i \in 2..Len(pushed)
  BY <1>4
<1>6. \A i \in 2..Len(pushed) : pushed[i] # repo
  BY <1>2, <1>3
<1>7. Distinct(pushed)
  <2> SUFFICES ASSUME NEW i \in 1..Len(pushed), NEW j \in 1..Len(pushed), pushed[i] = pushed[j]
               PROVE  i = j
    BY DEF Distinct
  <2>1. CASE i \in 2..Len(pushed) /\ j \in 2..Len(pushed)
    <3>1. /\ rest[i - 1] = rest[j - 1]
          /\ i - 1 \in 1..Len(rest) /\ j - 1 \in 1..Len(rest)
      BY <1>3, <2>1
    <3>2. i - 1 = j - 1
      BY <1>2, <3>1 DEF Distinct
    <3>3. QED
      BY <2>1, <3>2
  <2>2. CASE i = 1 \/ j = 1
    BY <1>3, <1>5, <1>6, <2>2
  <2>3. QED
    BY <1>5, <2>1, <2>2
<1>8. [active |-> repo, recent |-> pushed] \in OrderedStates
  <2>1. pushed # <<>>
    BY <1>4
  <2>2. QED
    BY <1>3, <1>4, <1>7, <2>1 DEF OrderedStates, States
<1>9. {pushed[i] : i \in 1..Len(pushed)} \subseteq {list[i] : i \in 1..Len(list)} \cup {repo}
  <2> SUFFICES ASSUME NEW i \in 1..Len(pushed)
               PROVE  pushed[i] \in {list[j] : j \in 1..Len(list)} \cup {repo}
    OBVIOUS
  <2>1. CASE i = 1
    BY <1>3, <2>1
  <2>2. CASE i \in 2..Len(pushed)
    BY <1>2, <1>3, <2>2
  <2>3. QED
    BY <1>5, <2>1, <2>2
<1>10. QED
  BY <1>8, <1>9 DEF StateWith, Named, pushed

LEMMA WithoutIsOrdered ==
  ASSUME NEW state \in OrderedStates, NEW repo \in Repos
  PROVE  /\ StateWithout(state, repo) \in OrderedStates
         /\ Named(StateWithout(state, repo)) \subseteq Named(state) \ {repo}
<1> DEFINE list == state.recent
           rest == Without(list, repo)
<1>1. /\ list \in Seq(Repos) /\ Len(list) <= RecentCap /\ Distinct(list)
      /\ state.active \in Repos \cup {NoRepo}
      /\ state.active # NoRepo => list # <<>> /\ list[1] = state.active
  BY DEF OrderedStates, States
<1>2. /\ rest \in Seq(Repos \ {repo}) /\ rest \in Seq(Repos)
      /\ {rest[i] : i \in 1..Len(rest)} \subseteq {list[i] : i \in 1..Len(list)}
      /\ Len(rest) <= Len(list) /\ Distinct(rest)
      /\ list # <<>> /\ list[1] # repo => rest # <<>> /\ rest[1] = list[1]
  BY <1>1, WithoutParts
<1> HIDE DEF rest
<1>3. Len(rest) \in Nat /\ Len(list) \in Nat /\ RecentCap \in Nat
  BY <1>1, <1>2, StoreAssumption
<1>4. Len(rest) <= RecentCap
  BY <1>1, <1>2, <1>3
<1>5. StateWithout(state, repo) =
        [active |-> IF state.active = repo THEN NoRepo ELSE state.active, recent |-> rest]
  BY DEF StateWithout, rest
<1>6. StateWithout(state, repo) \in OrderedStates
  BY <1>1, <1>2, <1>4, <1>5, StoreAssumption DEF OrderedStates, States
<1>7. {rest[i] : i \in 1..Len(rest)} \subseteq {list[i] : i \in 1..Len(list)} \ {repo}
  <2>1. \A i \in 1..Len(rest) : rest[i] # repo
    BY <1>2
  <2> DEFINE all == {list[i] : i \in 1..Len(list)}
  <2>2. {rest[i] : i \in 1..Len(rest)} \subseteq all
    BY <1>2
  <2> HIDE DEF all
  <2>3. \A i \in 1..Len(rest) : rest[i] \in all \ {repo}
    BY <2>1, <2>2
  <2>4. QED
    BY <2>3 DEF all
<1>8. Named(StateWithout(state, repo)) \subseteq Named(state) \ {repo}
  <2> DEFINE left == {rest[i] : i \in 1..Len(rest)}
             all == {list[i] : i \in 1..Len(list)}
             active == IF state.active = repo THEN NoRepo ELSE state.active
  <2>1. Named(state) = ({state.active} \ {NoRepo}) \cup all
    BY DEF Named
  <2>2. Named(StateWithout(state, repo)) = ({active} \ {NoRepo}) \cup left
    BY <1>5 DEF Named
  <2>3. left \subseteq all \ {repo}
    BY <1>7
  <2> HIDE DEF left, all
  <2>4. QED
    BY <2>1, <2>2, <2>3
<1>9. QED
  BY <1>6, <1>8

LEMMA ClearedIsOrdered ==
  ASSUME NEW state \in OrderedStates
  PROVE  /\ StateCleared(state) \in OrderedStates
         /\ Named(StateCleared(state)) \subseteq Named(state)
<1>1. StateCleared(state) = [active |-> NoRepo, recent |-> state.recent]
  BY DEF OrderedStates, States, StateCleared
<1>2. QED
  BY <1>1 DEF OrderedStates, States, Named

\* A save of either file: nothing, a failure halfway, the new content, or a loss
\* behind an earlier failure.
LEMMA StateSaved ==
  ASSUME FilesInv, State # Unreadable, NEW snapshot \in OrderedStates, NEW succeeds \in BOOLEAN,
         SaveState(snapshot, succeeds)
  PROVE  /\ stateFile' \in Files(OrderedStates) /\ registryFile' = registryFile
         /\ \/ stateFile' = stateFile /\ ~ succeeds /\ missed' = missed
            \/ /\ ~ succeeds /\ missed' = missed
               /\ stateFile'.torn /\ WholeLines(stateFile') = WholeLines(stateFile)
               /\ State' = IF WholeLines(stateFile) = {} THEN Unreadable ELSE State
            \/ /\ ~ stateFile.torn /\ ~ stateFile'.torn /\ WholeLines(stateFile') # {}
               /\ State' = snapshot /\ missed' = missed
            \/ /\ stateFile.torn /\ ~ stateFile'.torn /\ WholeLines(stateFile) # {}
               /\ WholeLines(stateFile') = WholeLines(stateFile) /\ State' = State
               /\ missed' = IF succeeds /\ State # snapshot THEN missed \cup {"state"} ELSE missed
<1>1. stateFile' \in WriteSnapshot(stateFile, snapshot, succeeds)
  BY DEF SaveState
<1>2. /\ missed' = IF succeeds /\ State' # snapshot THEN missed \cup {"state"} ELSE missed
      /\ registryFile' = registryFile
  BY DEF SaveState
<1>3. State = ReadSnapshot(stateFile, NoState) /\ State' = ReadSnapshot(stateFile', NoState)
  BY DEF State
<1>4. stateFile \in Files(OrderedStates)
  BY DEF FilesInv
<1> DEFINE after == stateFile'
           read  == State'
<1>5. /\ after \in Files(OrderedStates)
      /\ \/ after = stateFile /\ ~ succeeds
         \/ /\ ~ succeeds /\ after.torn /\ WholeLines(after) = WholeLines(stateFile)
            /\ read = IF WholeLines(stateFile) = {} THEN Unreadable ELSE State
         \/ ~ stateFile.torn /\ ~ after.torn /\ WholeLines(after) # {} /\ read = snapshot
         \/ /\ stateFile.torn /\ ~ after.torn
            /\ WholeLines(stateFile) # {} /\ WholeLines(after) = WholeLines(stateFile)
            /\ read = State
  BY <1>1, <1>3, <1>4, StatesDiffer, Written
<1> HIDE DEF after, read
<1>6. QED
  BY <1>2, <1>5 DEF after, read

LEMMA RegistrySaved ==
  ASSUME FilesInv, Registry # Unreadable, NEW repos \in SUBSET Repos, NEW succeeds \in BOOLEAN,
         SaveRegistry(repos, succeeds)
  PROVE  /\ registryFile' \in Files(SUBSET Repos) /\ stateFile' = stateFile
         /\ \/ registryFile' = registryFile /\ ~ succeeds /\ missed' = missed
            \/ /\ ~ succeeds /\ missed' = missed
               /\ registryFile'.torn /\ WholeLines(registryFile') = WholeLines(registryFile)
               /\ Registry' = IF WholeLines(registryFile) = {} THEN Unreadable ELSE Registry
            \/ /\ ~ registryFile.torn /\ ~ registryFile'.torn /\ WholeLines(registryFile') # {}
               /\ Registry' = repos /\ missed' = missed
            \/ /\ registryFile.torn /\ ~ registryFile'.torn /\ WholeLines(registryFile) # {}
               /\ WholeLines(registryFile') = WholeLines(registryFile) /\ Registry' = Registry
               /\ missed' = IF succeeds /\ Registry # repos THEN missed \cup {"registry"} ELSE missed
<1>1. registryFile' \in WriteSnapshot(registryFile, repos, succeeds)
  BY DEF SaveRegistry
<1>2. /\ missed' = IF succeeds /\ Registry' # repos THEN missed \cup {"registry"} ELSE missed
      /\ stateFile' = stateFile
  BY DEF SaveRegistry
<1>3. Registry = ReadSnapshot(registryFile, {}) /\ Registry' = ReadSnapshot(registryFile', {})
  BY DEF Registry
<1> DEFINE after == registryFile'
           read  == Registry'
           S     == SUBSET Repos
<1>4. registryFile \in Files(S) /\ repos \in S /\ Broken \notin S
  BY StatesDiffer DEF FilesInv
<1> HIDE DEF S
<1>5. /\ after \in Files(S)
      /\ \/ after = registryFile /\ ~ succeeds
         \/ /\ ~ succeeds /\ after.torn /\ WholeLines(after) = WholeLines(registryFile)
            /\ read = IF WholeLines(registryFile) = {} THEN Unreadable ELSE Registry
         \/ ~ registryFile.torn /\ ~ after.torn /\ WholeLines(after) # {} /\ read = repos
         \/ /\ registryFile.torn /\ ~ after.torn
            /\ WholeLines(registryFile) # {} /\ WholeLines(after) = WholeLines(registryFile)
            /\ read = Registry
  BY <1>1, <1>3, <1>4, Written
<1> HIDE DEF after, read
<1>6. QED
  BY <1>2, <1>5 DEF after, read, S

-----------------------------------------------------------------------------
(***************************************************************************)
(* The invariant.  While a removal is between its two files, the registry  *)
(* can be read and the state no longer names the repository.  A file that  *)
(* cannot be read stays so, and what was missed stays missed.              *)
(***************************************************************************)
StoreInv ==
  /\ FilesInv
  /\ "state" \notin missed /\ Loads => Named(State) \subseteq Registry
  /\ removing # NoRepo =>
       /\ Registry # Unreadable
       /\ "state" \notin missed /\ State # Unreadable => removing \notin Named(State)

LEMMA StoreInitial == StoreInit => StoreInv
<1> SUFFICES ASSUME StoreInit PROVE StoreInv
  OBVIOUS
<1>1. /\ registryFile = EmptyFile /\ stateFile = EmptyFile /\ removing = NoRepo /\ missed = {}
  BY DEF StoreInit
<1>2. \A S : EmptyFile \in Files(S)
  BY DEF Files, EmptyFile
<1>3. FilesInv
  BY <1>1, <1>2 DEF FilesInv
<1>4. WholeLines(EmptyFile) = {}
  BY DEF WholeLines, EmptyFile
<1>5. State = NoState
  BY <1>1, <1>4 DEF State, ReadSnapshot
<1>6. Named(NoState) = {}
  BY DEF Named, NoState
<1>7. QED
  BY <1>1, <1>3, <1>5, <1>6 DEF StoreInv

\* What each call saves.
LEMMA CallsSave ==
  ASSUME StoreInv
  PROVE  /\ \A repo \in Repos : AddRepository(repo) =>
              /\ Loads /\ removing' = removing /\ removing = NoRepo
              /\ \E succeeds \in BOOLEAN : SaveRegistry(Registry \cup {repo}, succeeds)
         /\ \A repo \in Repos : SetActive(repo) =>
              /\ Loads /\ removing' = removing /\ removing = NoRepo /\ repo \in Registry
              /\ \E succeeds \in BOOLEAN : SaveState(StateWith(State, repo), succeeds)
         /\ ClearActive =>
              /\ State # Unreadable /\ removing' = removing /\ removing = NoRepo
              /\ \E succeeds \in BOOLEAN : SaveState(StateCleared(State), succeeds)
         /\ \A repo \in Repos : RemoveFromState(repo) =>
              /\ Loads
              /\ \E succeeds \in BOOLEAN :
                   /\ SaveState(StateWithout(State, repo), succeeds)
                   /\ removing' = IF succeeds THEN repo ELSE NoRepo
         /\ RemoveFromRegistry =>
              /\ removing \in Repos /\ Registry # Unreadable /\ removing' = NoRepo
              /\ \E succeeds \in BOOLEAN : SaveRegistry(Registry \ {removing}, succeeds)
<1>1. \A repo \in Repos : AddRepository(repo) =>
              /\ Loads /\ removing' = removing /\ removing = NoRepo
              /\ \E succeeds \in BOOLEAN : SaveRegistry(Registry \cup {repo}, succeeds)
  BY DEF AddRepository
<1>2. \A repo \in Repos : SetActive(repo) =>
              /\ Loads /\ removing' = removing /\ removing = NoRepo /\ repo \in Registry
              /\ \E succeeds \in BOOLEAN : SaveState(StateWith(State, repo), succeeds)
  BY DEF SetActive, StateWith
<1>3. ClearActive =>
              /\ State # Unreadable /\ removing' = removing /\ removing = NoRepo
              /\ \E succeeds \in BOOLEAN : SaveState(StateCleared(State), succeeds)
  BY DEF ClearActive, StateCleared
<1>4. \A repo \in Repos : RemoveFromState(repo) =>
              /\ Loads
              /\ \E succeeds \in BOOLEAN :
                   /\ SaveState(StateWithout(State, repo), succeeds)
                   /\ removing' = IF succeeds THEN repo ELSE NoRepo
  BY DEF RemoveFromState, StateWithout
<1>5. RemoveFromRegistry =>
              /\ removing \in Repos /\ Registry # Unreadable /\ removing' = NoRepo
              /\ \E succeeds \in BOOLEAN : SaveRegistry(Registry \ {removing}, succeeds)
  BY DEF RemoveFromRegistry, StoreInv, FilesInv
<1>6. QED
  BY <1>1, <1>2, <1>3, <1>4, <1>5

\* What is read of the file that is not written does not change.
LEMMA OtherRead ==
  /\ registryFile' = registryFile => Registry' = Registry
  /\ stateFile' = stateFile => State' = State
BY DEF Registry, State

LEMMA StoreStep == StoreInv /\ [StoreNext]_storeVars => StoreInv'
<1> SUFFICES ASSUME StoreInv, [StoreNext]_storeVars PROVE StoreInv'
  OBVIOUS
<1>0. /\ FilesInv
      /\ Registry \in (SUBSET Repos) \cup {Unreadable} /\ State \in OrderedStates \cup {Unreadable}
      /\ missed \subseteq {"registry", "state"} /\ NoRepo \notin Repos
  BY ReadsTyped, StoreAssumption DEF StoreInv, FilesInv
<1>1. ASSUME NEW repo \in Repos, AddRepository(repo)
      PROVE  StoreInv'
  <2>1. PICK succeeds \in BOOLEAN : /\ SaveRegistry(Registry \cup {repo}, succeeds)
                                /\ Loads /\ removing' = removing /\ removing = NoRepo
    BY <1>1, CallsSave
  <2>2. Registry # Unreadable /\ State # Unreadable /\ Registry \cup {repo} \in SUBSET Repos
    BY <1>0, <2>1 DEF Loads
  <2>3. /\ registryFile' \in Files(SUBSET Repos) /\ stateFile' = stateFile
        /\ Registry' \in {Registry, Unreadable, Registry \cup {repo}}
        /\ missed' \in {missed, missed \cup {"registry"}}
    BY <1>0, <2>1, <2>2, RegistrySaved, OtherRead
  <2>4. FilesInv'
    BY <1>0, <2>1, <2>3 DEF FilesInv
  <2>5. State' = State
    BY <2>3, OtherRead
  <2>6. QED
    BY <2>1, <2>2, <2>3, <2>4, <2>5 DEF StoreInv, Loads
<1>2. ASSUME NEW repo \in Repos, SetActive(repo)
      PROVE  StoreInv'
  <2>1. PICK succeeds \in BOOLEAN : /\ SaveState(StateWith(State, repo), succeeds) /\ repo \in Registry
                                /\ Loads /\ removing' = removing /\ removing = NoRepo
    BY <1>2, CallsSave
  <2>2. Registry # Unreadable /\ State # Unreadable /\ State \in OrderedStates
    BY <1>0, <2>1 DEF Loads
  <2>3. /\ StateWith(State, repo) \in OrderedStates
        /\ Named(StateWith(State, repo)) \subseteq Named(State) \cup {repo}
    BY <2>2, WithIsOrdered
  <2>4. /\ stateFile' \in Files(OrderedStates) /\ registryFile' = registryFile
        /\ State' \in {State, Unreadable, StateWith(State, repo)}
        /\ missed' \in {missed, missed \cup {"state"}}
    BY <1>0, <2>1, <2>2, <2>3, StateSaved, OtherRead
  <2>5. FilesInv'
    BY <1>0, <2>1, <2>4 DEF FilesInv
  <2>6. Registry' = Registry
    BY <2>4, OtherRead
  <2>7. QED
    BY <2>1, <2>2, <2>3, <2>4, <2>5, <2>6 DEF StoreInv, Loads
<1>3. ASSUME ClearActive
      PROVE  StoreInv'
  <2>1. PICK succeeds \in BOOLEAN : /\ SaveState(StateCleared(State), succeeds) /\ State # Unreadable
                                /\ removing' = removing /\ removing = NoRepo
    BY <1>3, CallsSave
  <2>2. State \in OrderedStates
    BY <1>0, <2>1
  <2>3. /\ StateCleared(State) \in OrderedStates
        /\ Named(StateCleared(State)) \subseteq Named(State)
    BY <2>2, ClearedIsOrdered
  <2>4. /\ stateFile' \in Files(OrderedStates) /\ registryFile' = registryFile
        /\ State' \in {State, Unreadable, StateCleared(State)}
        /\ missed' \in {missed, missed \cup {"state"}}
    BY <1>0, <2>1, <2>2, <2>3, StateSaved, OtherRead
  <2>5. FilesInv'
    BY <1>0, <2>1, <2>4 DEF FilesInv
  <2>6. Registry' = Registry
    BY <2>4, OtherRead
  <2>7. QED
    BY <2>1, <2>3, <2>4, <2>5, <2>6 DEF StoreInv, Loads
<1>4. ASSUME NEW repo \in Repos, RemoveFromState(repo)
      PROVE  StoreInv'
  <2>1. PICK succeeds \in BOOLEAN : /\ SaveState(StateWithout(State, repo), succeeds) /\ Loads
                                /\ removing' = IF succeeds THEN repo ELSE NoRepo
    BY <1>4, CallsSave
  <2>2. Registry # Unreadable /\ State # Unreadable /\ State \in OrderedStates
    BY <1>0, <2>1 DEF Loads
  <2>3. /\ StateWithout(State, repo) \in OrderedStates
        /\ Named(StateWithout(State, repo)) \subseteq Named(State) \ {repo}
    BY <2>2, WithoutIsOrdered
  <2>4. /\ stateFile' \in Files(OrderedStates) /\ registryFile' = registryFile
        /\ State' \in {State, Unreadable, StateWithout(State, repo)}
        /\ missed' \in {missed, missed \cup {"state"}}
        /\ succeeds /\ State' # StateWithout(State, repo) => missed' = missed \cup {"state"}
    BY <1>0, <2>1, <2>2, <2>3, StateSaved, OtherRead
  <2>5. FilesInv'
    BY <1>0, <2>1, <2>4 DEF FilesInv
  <2>6. Registry' = Registry
    BY <2>4, OtherRead
  <2>7. QED
    BY <2>1, <2>2, <2>3, <2>4, <2>5, <2>6 DEF StoreInv, Loads
<1>5. ASSUME RemoveFromRegistry
      PROVE  StoreInv'
  <2>1. PICK succeeds \in BOOLEAN : /\ SaveRegistry(Registry \ {removing}, succeeds) /\ removing \in Repos
                                /\ Registry # Unreadable /\ removing' = NoRepo
    BY <1>5, CallsSave
  <2>2. Registry \ {removing} \in SUBSET Repos
    BY <1>0, <2>1
  <2>3. /\ registryFile' \in Files(SUBSET Repos) /\ stateFile' = stateFile
        /\ Registry' \in {Registry, Unreadable, Registry \ {removing}}
        /\ missed' \in {missed, missed \cup {"registry"}}
    BY <1>0, <2>1, <2>2, RegistrySaved, OtherRead
  <2>4. FilesInv'
    BY <1>0, <2>1, <2>3 DEF FilesInv
  <2>5. State' = State
    BY <2>3, OtherRead
  <2>6. /\ removing # NoRepo
        /\ "state" \notin missed /\ State # Unreadable =>
             /\ Named(State) \subseteq Registry /\ removing \notin Named(State)
    BY <1>0, <2>1 DEF StoreInv, Loads
  <2>7. QED
    BY <2>1, <2>3, <2>4, <2>5, <2>6 DEF StoreInv, Loads
<1>6. CASE CrashInRemoval
  BY <1>0, <1>6, OtherRead DEF CrashInRemoval, StoreInv, FilesInv, Loads
<1>7. CASE UNCHANGED storeVars
  BY <1>7, OtherRead DEF storeVars, StoreInv, FilesInv, Loads
<1>8. QED
  BY <1>1, <1>2, <1>3, <1>4, <1>5, <1>6, <1>7 DEF StoreNext

LEMMA StoreImplied == StoreInv => NoDanglingReference /\ RecentIsOrdered
<1> SUFFICES ASSUME StoreInv PROVE NoDanglingReference /\ RecentIsOrdered
  OBVIOUS
<1>1. State \in OrderedStates \cup {Unreadable}
  BY ReadsTyped DEF StoreInv
<1>2. NoDanglingReference
  <2> SUFFICES ASSUME "state" \notin missed, Loads
               PROVE  /\ State.active \in Registry \cup {NoRepo}
                      /\ \A i \in DOMAIN State.recent : State.recent[i] \in Registry
    BY DEF NoDanglingReference
  <2>1. State \in OrderedStates /\ Named(State) \subseteq Registry
    BY <1>1 DEF StoreInv, Loads
  <2>2. DOMAIN State.recent = 1..Len(State.recent)
    BY <2>1 DEF OrderedStates, States
  <2>3. QED
    BY <2>1, <2>2 DEF Named
<1>3. RecentIsOrdered
  <2> SUFFICES ASSUME State # Unreadable
               PROVE  /\ Len(State.recent) <= RecentCap
                      /\ \A i, j \in DOMAIN State.recent : State.recent[i] = State.recent[j] => i = j
                      /\ State.active # NoRepo =>
                           State.recent # <<>> /\ Head(State.recent) = State.active
    BY DEF RecentIsOrdered
  <2>1. /\ State.recent \in Seq(Repos)
        /\ Len(State.recent) <= RecentCap
        /\ Distinct(State.recent)
        /\ State.active # NoRepo => State.recent # <<>> /\ State.recent[1] = State.active
    BY <1>1 DEF OrderedStates, States
  <2>2. DOMAIN State.recent = 1..Len(State.recent) /\ Head(State.recent) = State.recent[1]
    BY <2>1
  <2>3. QED
    BY <2>1, <2>2 DEF Distinct
<1>4. QED
  BY <1>2, <1>3

\* For any repositories, any length of the files and of the recent list: what is
\* active or recent is registered, also when a removal stops between its two files
\* or in one of them, as long as no acknowledged state was missed (remove_repository).
THEOREM ReferencesAreRegistered == StoreSpec => []NoDanglingReference
<1>1. QED
  BY StoreInitial, StoreStep, StoreImplied, PTL DEF StoreSpec

\* The list of recent repositories is short enough, names none twice and is headed
\* by the active one, whichever line of the state file comes to be read
\* (push_recent, set_active_repository, remove_repository).
THEOREM RecentStaysOrdered == StoreSpec => []RecentIsOrdered
<1>1. QED
  BY StoreInitial, StoreStep, StoreImplied, PTL DEF StoreSpec

-----------------------------------------------------------------------------
(***************************************************************************)
(* The contract.  A write that leaves nothing is a stutter of the          *)
(* contract, as is the end of a removal; every other one is one of its     *)
(* steps.                                                                  *)
(***************************************************************************)
KeptFiles  == {f \in {"registry", "state"} : WholeLines(FileOf[f]) # {}}
FilesInDoubt == {f \in {"registry", "state"} : FileOf[f].torn}

LEMMA KeptDoubt ==
  /\ "registry" \in KeptFiles <=> WholeLines(registryFile) # {}
  /\ "state" \in KeptFiles <=> WholeLines(stateFile) # {}
  /\ "registry" \in FilesInDoubt <=> registryFile.torn
  /\ "state" \in FilesInDoubt <=> stateFile.torn
  /\ KeptFiles \subseteq {"registry", "state"} /\ FilesInDoubt \subseteq {"registry", "state"}
BY DEF KeptFiles, FilesInDoubt, FileOf

LEMMA KeptDoubtNext ==
  /\ "registry" \in KeptFiles' <=> WholeLines(registryFile') # {}
  /\ "state" \in KeptFiles' <=> WholeLines(stateFile') # {}
  /\ "registry" \in FilesInDoubt' <=> registryFile'.torn
  /\ "state" \in FilesInDoubt' <=> stateFile'.torn
  /\ KeptFiles' \subseteq {"registry", "state"} /\ FilesInDoubt' \subseteq {"registry", "state"}
BY DEF KeptFiles, FilesInDoubt, FileOf

LEMMA SameFiles ==
  ASSUME NEW A \in SUBSET {"registry", "state"}, NEW B \in SUBSET {"registry", "state"},
         "registry" \in A <=> "registry" \in B, "state" \in A <=> "state" \in B
  PROVE  A = B
<1>1. A \subseteq B
  OBVIOUS
<1>2. B \subseteq A
  OBVIOUS
<1>3. QED
  BY <1>1, <1>2

LEMMA SameSublist ==
  \A list, elements : Contract!Sublist(list, elements) = Sublist(list, elements)
BY DEF Contract!Sublist, Sublist

LEMMA ContractStutters ==
  ASSUME registryFile' = registryFile, stateFile' = stateFile, missed' = missed
  PROVE  UNCHANGED Contract!vars
BY DEF Contract!vars, Registry, State, FileOf

\* What push_recent keeps of the other repositories.
LEMMA PushIsLatest ==
  ASSUME NEW list \in Seq(Repos), NEW repo \in Repos
  PROVE  PushRecent(list, repo) =
           <<repo>> \o (IF Len(Without(list, repo)) < RecentCap THEN Without(list, repo)
                        ELSE SubSeq(Without(list, repo), 1, RecentCap - 1))
<1> DEFINE rest == Without(list, repo)
           latest == IF Len(rest) < RecentCap THEN rest ELSE SubSeq(rest, 1, RecentCap - 1)
           pushed == PushRecent(list, repo)
<1>1. rest \in Seq(Repos)
  BY WithoutParts
<1>2. /\ pushed \in Seq(Repos)
      /\ Len(pushed) = IF Len(rest) < RecentCap THEN Len(rest) + 1 ELSE RecentCap
      /\ pushed[1] = repo
      /\ \A i \in 2..Len(pushed) : pushed[i] = rest[i - 1] /\ i - 1 \in 1..Len(rest)
  BY PushParts
<1> HIDE DEF rest, pushed
<1>3. RecentCap \in Nat \ {0} /\ Len(rest) \in Nat
  BY <1>1, StoreAssumption
<1>4. /\ latest \in Seq(Repos)
      /\ Len(latest) = IF Len(rest) < RecentCap THEN Len(rest) ELSE RecentCap - 1
      /\ \A i \in 1..Len(latest) : latest[i] = rest[i]
  <2>1. CASE Len(rest) < RecentCap
    BY <1>1, <2>1
  <2>2. CASE ~ (Len(rest) < RecentCap)
    <3>1. RecentCap - 1 \in 0..Len(rest)
      BY <1>3, <2>2
    <3>2. latest = SubSeq(rest, 1, RecentCap - 1)
      BY <2>2
    <3> HIDE DEF latest
    <3>3. QED
      BY <1>1, <1>3, <2>2, <3>1, <3>2
  <2>3. QED
    BY <2>1, <2>2
<1> DEFINE both == <<repo>> \o latest
<1>5. Len(pushed) = Len(latest) + 1 /\ Len(latest) \in Nat
  BY <1>2, <1>3, <1>4
<1> HIDE DEF latest
<1>6. /\ both \in Seq(Repos) /\ Len(both) = Len(latest) + 1 /\ both[1] = repo
      /\ \A i \in 2..(Len(latest) + 1) : both[i] = latest[i - 1] /\ i - 1 \in 1..Len(latest)
  BY <1>4, Prepend
<1> HIDE DEF both
<1>7. \A i \in 1..Len(pushed) : pushed[i] = both[i]
  <2> SUFFICES ASSUME NEW i \in 1..Len(pushed) PROVE pushed[i] = both[i]
    OBVIOUS
  <2>1. CASE i = 1
    BY <1>2, <1>6, <2>1
  <2>2. CASE i \in 2..Len(pushed)
    BY <1>2, <1>4, <1>5, <1>6, <2>2
  <2>3. QED
    BY <1>5, <2>1, <2>2
<1>8. pushed = both
  BY <1>2, <1>5, <1>6, <1>7
<1>9. QED
  BY <1>8 DEF both, latest, pushed, rest

\* A save is a step of the contract or a stutter of it.
LEMMA StateSaveKeepsContract ==
  ASSUME StoreInv, State # Unreadable, NEW snapshot \in OrderedStates, NEW succeeds \in BOOLEAN,
         SaveState(snapshot, succeeds)
  PROVE  \/ Contract!KeepState(snapshot)
         \/ Contract!FailHalfway("state") \/ Contract!Lose("state")
         \/ UNCHANGED Contract!vars
<1>1. /\ registryFile' = registryFile /\ Registry' = Registry
      /\ \/ stateFile' = stateFile /\ missed' = missed
         \/ /\ missed' = missed
            /\ stateFile'.torn /\ WholeLines(stateFile') = WholeLines(stateFile)
            /\ State' = IF WholeLines(stateFile) = {} THEN Unreadable ELSE State
         \/ /\ ~ stateFile.torn /\ ~ stateFile'.torn /\ WholeLines(stateFile') # {}
            /\ State' = snapshot /\ missed' = missed
         \/ /\ stateFile.torn /\ ~ stateFile'.torn /\ WholeLines(stateFile) # {}
            /\ WholeLines(stateFile') = WholeLines(stateFile) /\ State' = State
            /\ missed' \in {missed, missed \cup {"state"}}
  BY StateSaved, OtherRead DEF StoreInv
<1>2. CASE stateFile' = stateFile /\ missed' = missed
  BY <1>1, <1>2, ContractStutters
<1>3. CASE /\ missed' = missed
           /\ stateFile'.torn /\ WholeLines(stateFile') = WholeLines(stateFile)
           /\ State' = IF WholeLines(stateFile) = {} THEN Unreadable ELSE State
  <2>1. FilesInDoubt' = FilesInDoubt \cup {"state"} /\ KeptFiles' = KeptFiles
    <3>1. FilesInDoubt' = FilesInDoubt \cup {"state"}
      <4> DEFINE set == FilesInDoubt \cup {"state"}
      <4>1. /\ "registry" \in FilesInDoubt' <=> "registry" \in set
            /\ "state" \in FilesInDoubt' <=> "state" \in set
            /\ set \in SUBSET {"registry", "state"} /\ FilesInDoubt' \in SUBSET {"registry", "state"}
        BY <1>1, <1>3, KeptDoubt, KeptDoubtNext
      <4> HIDE DEF set
      <4>2. QED
        BY <4>1, SameFiles DEF set
    <3>2. KeptFiles' = KeptFiles
      BY <1>1, <1>3, KeptDoubt, KeptDoubtNext, SameFiles
    <3>3. QED
      BY <1>3, <3>1, <3>2, KeptDoubt
  <2>2. IF "state" \in KeptFiles THEN Registry' = Registry /\ State' = State
        ELSE State' = Unreadable /\ Registry' = Registry
    BY <1>1, <1>3, KeptDoubt
  <2>3. QED
    BY <1>3, <2>1, <2>2 DEF Contract!FailHalfway, KeptFiles, FilesInDoubt
<1>4. CASE /\ ~ stateFile.torn /\ ~ stateFile'.torn /\ WholeLines(stateFile') # {}
           /\ State' = snapshot /\ missed' = missed
  <2>1. FilesInDoubt' = FilesInDoubt /\ KeptFiles' = KeptFiles \cup {"state"} /\ "state" \notin FilesInDoubt
    <3>1. FilesInDoubt' = FilesInDoubt
      BY <1>1, <1>4, KeptDoubt, KeptDoubtNext, SameFiles
    <3>2. KeptFiles' = KeptFiles \cup {"state"}
      <4> DEFINE set == KeptFiles \cup {"state"}
      <4>1. /\ "registry" \in KeptFiles' <=> "registry" \in set
            /\ "state" \in KeptFiles' <=> "state" \in set
            /\ set \in SUBSET {"registry", "state"} /\ KeptFiles' \in SUBSET {"registry", "state"}
        BY <1>1, <1>4, KeptDoubt, KeptDoubtNext
      <4> HIDE DEF set
      <4>2. QED
        BY <4>1, SameFiles DEF set
    <3>3. QED
      BY <1>4, <3>1, <3>2, KeptDoubt
  <2>2. QED
    BY <1>1, <1>4, <2>1 DEF Contract!KeepState, Contract!Applied, KeptFiles, FilesInDoubt
<1>5. CASE /\ stateFile.torn /\ ~ stateFile'.torn /\ WholeLines(stateFile) # {}
           /\ WholeLines(stateFile') = WholeLines(stateFile) /\ State' = State
           /\ missed' \in {missed, missed \cup {"state"}}
  <2>1. FilesInDoubt' = FilesInDoubt \ {"state"} /\ KeptFiles' = KeptFiles /\ "state" \in FilesInDoubt \cap KeptFiles
    <3>1. FilesInDoubt' = FilesInDoubt \ {"state"}
      <4> DEFINE set == FilesInDoubt \ {"state"}
      <4>1. /\ "registry" \in FilesInDoubt' <=> "registry" \in set
            /\ "state" \in FilesInDoubt' <=> "state" \in set
            /\ set \in SUBSET {"registry", "state"} /\ FilesInDoubt' \in SUBSET {"registry", "state"}
        BY <1>1, <1>5, KeptDoubt, KeptDoubtNext
      <4> HIDE DEF set
      <4>2. QED
        BY <4>1, SameFiles DEF set
    <3>2. KeptFiles' = KeptFiles
      BY <1>1, <1>5, KeptDoubt, KeptDoubtNext, SameFiles
    <3>3. QED
      BY <1>5, <3>1, <3>2, KeptDoubt
  <2>2. QED
    BY <1>1, <1>5, <2>1 DEF Contract!Lose, KeptFiles, FilesInDoubt
<1>6. QED
  BY <1>1, <1>2, <1>3, <1>4, <1>5

LEMMA RegistrySaveKeepsContract ==
  ASSUME StoreInv, Registry # Unreadable, NEW repos \in SUBSET Repos, NEW succeeds \in BOOLEAN,
         SaveRegistry(repos, succeeds)
  PROVE  \/ Contract!KeepRegistry(repos)
         \/ Contract!FailHalfway("registry") \/ Contract!Lose("registry")
         \/ UNCHANGED Contract!vars
<1>1. /\ stateFile' = stateFile /\ State' = State
      /\ \/ registryFile' = registryFile /\ missed' = missed
         \/ /\ missed' = missed
            /\ registryFile'.torn /\ WholeLines(registryFile') = WholeLines(registryFile)
            /\ Registry' = IF WholeLines(registryFile) = {} THEN Unreadable ELSE Registry
         \/ /\ ~ registryFile.torn /\ ~ registryFile'.torn /\ WholeLines(registryFile') # {}
            /\ Registry' = repos /\ missed' = missed
         \/ /\ registryFile.torn /\ ~ registryFile'.torn /\ WholeLines(registryFile) # {}
            /\ WholeLines(registryFile') = WholeLines(registryFile) /\ Registry' = Registry
            /\ missed' \in {missed, missed \cup {"registry"}}
  BY RegistrySaved, OtherRead DEF StoreInv
<1>2. CASE registryFile' = registryFile /\ missed' = missed
  BY <1>1, <1>2, ContractStutters
<1>3. CASE /\ missed' = missed
           /\ registryFile'.torn /\ WholeLines(registryFile') = WholeLines(registryFile)
           /\ Registry' = IF WholeLines(registryFile) = {} THEN Unreadable ELSE Registry
  <2>1. FilesInDoubt' = FilesInDoubt \cup {"registry"} /\ KeptFiles' = KeptFiles
    <3>1. FilesInDoubt' = FilesInDoubt \cup {"registry"}
      <4> DEFINE set == FilesInDoubt \cup {"registry"}
      <4>1. /\ "registry" \in FilesInDoubt' <=> "registry" \in set
            /\ "state" \in FilesInDoubt' <=> "state" \in set
            /\ set \in SUBSET {"registry", "state"} /\ FilesInDoubt' \in SUBSET {"registry", "state"}
        BY <1>1, <1>3, KeptDoubt, KeptDoubtNext
      <4> HIDE DEF set
      <4>2. QED
        BY <4>1, SameFiles DEF set
    <3>2. KeptFiles' = KeptFiles
      BY <1>1, <1>3, KeptDoubt, KeptDoubtNext, SameFiles
    <3>3. QED
      BY <1>3, <3>1, <3>2, KeptDoubt
  <2>2. IF "registry" \in KeptFiles THEN Registry' = Registry /\ State' = State
        ELSE Registry' = Unreadable /\ State' = State
    BY <1>1, <1>3, KeptDoubt
  <2>3. QED
    BY <1>3, <2>1, <2>2 DEF Contract!FailHalfway, KeptFiles, FilesInDoubt
<1>4. CASE /\ ~ registryFile.torn /\ ~ registryFile'.torn /\ WholeLines(registryFile') # {}
           /\ Registry' = repos /\ missed' = missed
  <2>1. FilesInDoubt' = FilesInDoubt /\ KeptFiles' = KeptFiles \cup {"registry"} /\ "registry" \notin FilesInDoubt
    <3>1. FilesInDoubt' = FilesInDoubt
      BY <1>1, <1>4, KeptDoubt, KeptDoubtNext, SameFiles
    <3>2. KeptFiles' = KeptFiles \cup {"registry"}
      <4> DEFINE set == KeptFiles \cup {"registry"}
      <4>1. /\ "registry" \in KeptFiles' <=> "registry" \in set
            /\ "state" \in KeptFiles' <=> "state" \in set
            /\ set \in SUBSET {"registry", "state"} /\ KeptFiles' \in SUBSET {"registry", "state"}
        BY <1>1, <1>4, KeptDoubt, KeptDoubtNext
      <4> HIDE DEF set
      <4>2. QED
        BY <4>1, SameFiles DEF set
    <3>3. QED
      BY <1>4, <3>1, <3>2, KeptDoubt
  <2>2. QED
    BY <1>1, <1>4, <2>1 DEF Contract!KeepRegistry, Contract!Applied, KeptFiles, FilesInDoubt
<1>5. CASE /\ registryFile.torn /\ ~ registryFile'.torn /\ WholeLines(registryFile) # {}
           /\ WholeLines(registryFile') = WholeLines(registryFile) /\ Registry' = Registry
           /\ missed' \in {missed, missed \cup {"registry"}}
  <2>1. FilesInDoubt' = FilesInDoubt \ {"registry"} /\ KeptFiles' = KeptFiles /\ "registry" \in FilesInDoubt \cap KeptFiles
    <3>1. FilesInDoubt' = FilesInDoubt \ {"registry"}
      <4> DEFINE set == FilesInDoubt \ {"registry"}
      <4>1. /\ "registry" \in FilesInDoubt' <=> "registry" \in set
            /\ "state" \in FilesInDoubt' <=> "state" \in set
            /\ set \in SUBSET {"registry", "state"} /\ FilesInDoubt' \in SUBSET {"registry", "state"}
        BY <1>1, <1>5, KeptDoubt, KeptDoubtNext
      <4> HIDE DEF set
      <4>2. QED
        BY <4>1, SameFiles DEF set
    <3>2. KeptFiles' = KeptFiles
      BY <1>1, <1>5, KeptDoubt, KeptDoubtNext, SameFiles
    <3>3. QED
      BY <1>5, <3>1, <3>2, KeptDoubt
  <2>2. QED
    BY <1>1, <1>5, <2>1 DEF Contract!Lose, KeptFiles, FilesInDoubt
<1>6. QED
  BY <1>1, <1>2, <1>3, <1>4, <1>5

\* The empty files are the contract's beginning.
LEMMA ContractBegins == StoreInit => Contract!Init
<1> SUFFICES ASSUME StoreInit PROVE Contract!Init
  OBVIOUS
<1>1. registryFile = EmptyFile /\ stateFile = EmptyFile /\ missed = {}
  BY DEF StoreInit
<1>2. WholeLines(EmptyFile) = {} /\ ~ EmptyFile.torn
  BY DEF WholeLines, EmptyFile
<1>3. Registry = {} /\ State = [active |-> NoRepo, recent |-> <<>>]
  BY <1>1, <1>2 DEF Registry, State, ReadSnapshot, NoState
<1>4. KeptFiles = {} /\ FilesInDoubt = {}
  BY <1>1, <1>2, KeptDoubt
<1>5. QED
  BY <1>1, <1>3, <1>4 DEF Contract!Init, KeptFiles, FilesInDoubt

LEMMA ContractStep ==
  ASSUME StoreInv, [StoreNext]_storeVars
  PROVE  Contract!Next \/ UNCHANGED Contract!vars
<1>0. /\ Registry \in (SUBSET Repos) \cup {Unreadable} /\ State \in OrderedStates \cup {Unreadable}
  BY ReadsTyped DEF StoreInv
<1>1. ASSUME NEW repo \in Repos, AddRepository(repo)
      PROVE  Contract!Next \/ UNCHANGED Contract!vars
  <2>1. PICK succeeds \in BOOLEAN : SaveRegistry(Registry \cup {repo}, succeeds) /\ Loads
    BY <1>1, CallsSave
  <2>2. Registry # Unreadable /\ Registry \cup {repo} \in SUBSET Repos
    BY <1>0, <2>1 DEF Loads
  <2>3. Contract!KeepRegistry(Registry \cup {repo}) => Contract!Register(repo)
    BY <2>2 DEF Contract!Register
  <2>4. QED
    BY <2>1, <2>2, <2>3, RegistrySaveKeepsContract DEF Contract!Next
<1>2. ASSUME NEW repo \in Repos, SetActive(repo)
      PROVE  Contract!Next \/ UNCHANGED Contract!vars
  <2>1. PICK succeeds \in BOOLEAN : SaveState(StateWith(State, repo), succeeds) /\ Loads /\ repo \in Registry
    BY <1>2, CallsSave
  <2>2. Registry # Unreadable /\ State # Unreadable /\ State \in OrderedStates
    BY <1>0, <2>1 DEF Loads
  <2>3. StateWith(State, repo) \in OrderedStates
    BY <2>2, WithIsOrdered
  <2>4. Contract!KeepState(StateWith(State, repo)) => Contract!Activate(repo)
    <3>1. State.recent \in Seq(Repos)
      BY <2>2 DEF OrderedStates, States
    <3>2. StateWith(State, repo) =
            [active |-> repo,
             recent |-> <<repo>> \o
               (IF Len(Contract!Others(repo)) < RecentCap THEN Contract!Others(repo)
                ELSE SubSeq(Contract!Others(repo), 1, RecentCap - 1))]
      BY <3>1, PushIsLatest, SameSublist DEF StateWith, Contract!Others, Without
    <3>3. QED
      BY <2>1, <2>2, <3>2 DEF Contract!Activate
  <2>5. QED
    BY <2>1, <2>2, <2>3, <2>4, StateSaveKeepsContract DEF Contract!Next
<1>3. ASSUME ClearActive
      PROVE  Contract!Next \/ UNCHANGED Contract!vars
  <2>1. PICK succeeds \in BOOLEAN : SaveState(StateCleared(State), succeeds) /\ State # Unreadable
    BY <1>3, CallsSave
  <2>2. StateCleared(State) \in OrderedStates
    BY <1>0, <2>1, ClearedIsOrdered
  <2>3. Contract!KeepState(StateCleared(State)) => Contract!Deactivate
    BY <2>1 DEF Contract!Deactivate, StateCleared
  <2>4. QED
    BY <2>1, <2>2, <2>3, StateSaveKeepsContract DEF Contract!Next
<1>4. ASSUME NEW repo \in Repos, RemoveFromState(repo)
      PROVE  Contract!Next \/ UNCHANGED Contract!vars
  <2>1. PICK succeeds \in BOOLEAN : SaveState(StateWithout(State, repo), succeeds) /\ Loads
    BY <1>4, CallsSave
  <2>2. State # Unreadable /\ State \in OrderedStates
    BY <1>0, <2>1 DEF Loads
  <2>3. StateWithout(State, repo) \in OrderedStates
    BY <2>2, WithoutIsOrdered
  <2>4. Contract!KeepState(StateWithout(State, repo)) => Contract!Forget(repo)
    BY <2>2, SameSublist DEF Contract!Forget, Contract!Others, StateWithout, Without
  <2>5. QED
    BY <2>1, <2>2, <2>3, <2>4, StateSaveKeepsContract DEF Contract!Next
<1>5. ASSUME RemoveFromRegistry
      PROVE  Contract!Next \/ UNCHANGED Contract!vars
  <2>1. PICK succeeds \in BOOLEAN : /\ SaveRegistry(Registry \ {removing}, succeeds)
                                /\ removing \in Repos /\ Registry # Unreadable
    BY <1>5, CallsSave
  <2>2. Registry \ {removing} \in SUBSET Repos
    BY <1>0, <2>1
  <2>3. Contract!KeepRegistry(Registry \ {removing}) => Contract!Unregister(removing)
    BY <2>1 DEF Contract!Unregister
  <2>4. QED
    BY <2>1, <2>2, <2>3, RegistrySaveKeepsContract DEF Contract!Next
<1>6. CASE CrashInRemoval
  BY <1>6, ContractStutters DEF CrashInRemoval
<1>7. CASE UNCHANGED storeVars
  BY <1>7, ContractStutters DEF storeVars
<1>8. QED
  BY <1>1, <1>2, <1>3, <1>4, <1>5, <1>6, <1>7 DEF StoreNext

\* What readers see of the two files follows the contract: every change is one
\* whole update, nothing older comes back, and an acknowledged write is lost only
\* right behind a failed one (write_snapshot, read_snapshot_optional).
THEOREM StoreKeepsContract == StoreSpec => ImplementsContract
<1>1. StoreInv /\ [StoreNext]_storeVars => [Contract!Next]_Contract!vars
  BY ContractStep
<1>2. QED
  BY ContractBegins, StoreInitial, StoreStep, <1>1, PTL DEF StoreSpec, ImplementsContract, Contract!Spec

-----------------------------------------------------------------------------
(***************************************************************************)
(* Types.  TypeOK is not inductive: the counters of a drain stay within    *)
(* the bound because what is read and what waits in the pipe add up to     *)
(* what has been written.                                                  *)
(***************************************************************************)
Waited == {"wait", "pollOutput", "pollExit", "pollDeadline", "kill", "reap", "killRest"}
Places == {"start", "beforeSpawn", "spawn", "joinStdout", "joinStderr", "finish", "returned"}
          \cup Waited

Counted(s) ==
  /\ drain[s].total + pipe[s] = written[s]
  /\ drain[s].digested <= drain[s].total
  /\ drain[s].kept <= drain[s].total

TypeInv ==
  /\ TypeOK
  /\ caller \in Places
  /\ Output <= MaxOutput
  /\ \A s \in Streams : Counted(s)

\* The smaller one of two numbers.
LEMMA MinOfTwo ==
  ASSUME NEW a \in Nat, NEW b \in Nat
  PROVE  Min({a, b}) = IF a <= b THEN a ELSE b
<1> DEFINE m == IF a <= b THEN a ELSE b
<1>1. m \in {a, b} /\ \A y \in {a, b} : m <= y
  OBVIOUS
<1>2. Min({a, b}) \in {a, b} /\ \A y \in {a, b} : Min({a, b}) <= y
  BY <1>1 DEF Min
<1>3. QED
  BY <1>1, <1>2

\* What is kept of the output is bounded.
LEMMA KeptType ==
  ASSUME NEW d, d.kept \in 0..OutputLimit, NEW within \in {0, 1}
  PROVE  Kept(d, within) \in 0..OutputLimit /\ Kept(d, within) <= d.kept + within
<1>1. OutputLimit \in Nat /\ d.kept + within \in Nat
  BY BoundAssumption
<1>2. Kept(d, within) = IF OutputLimit <= d.kept + within THEN OutputLimit ELSE d.kept + within
  BY <1>1, MinOfTwo DEF Kept
<1>3. QED
  BY <1>1, <1>2

\* A drain that reads counts what it takes out of the pipe.
LEMMA ReadType ==
  ASSUME TypeInv, NEW s \in Streams, Read(s)
  PROVE  TypeInv'
<1> DEFINE d == drain[s]
           within == IF Captured(d.total) THEN 1 ELSE 0
           next == [d EXCEPT !.total = d.total + 1,
                             !.digested = IF commandPolicy = "RecoveryExecution" THEN d.digested
                                          ELSE d.digested + within,
                             !.kept = Kept(d, within)]
<1> USE DEF TypeInv, TypeOK
<1>1. /\ d \in [state : {"none", "reading", "done", "failed"}, total : 0..MaxOutput,
                digested : 0..MaxOutput, kept : 0..OutputLimit]
      /\ pipe[s] \in 0..PipeSize /\ pipe[s] > 0 /\ written[s] \in 0..MaxOutput
      /\ d.total + pipe[s] = written[s] /\ d.digested <= d.total /\ d.kept <= d.total
  BY DEF Read, Counted
<1>2. PipeSize \in Nat /\ MaxOutput \in Nat /\ OutputLimit \in Nat
  BY BoundAssumption
<1>3. /\ drain' = [drain EXCEPT ![s] = next]
      /\ pipe' = [pipe EXCEPT ![s] = pipe[s] - 1]
      /\ exceeded' \in BOOLEAN
      /\ UNCHANGED <<commandPolicy, now, caller, verdict, process, group, fate, reaped, written, result>>
  BY DEF Read, Drain, processes
<1>4. Kept(d, within) \in 0..OutputLimit /\ Kept(d, within) <= d.kept + within
  BY <1>1, KeptType
<1>5. /\ next.total = d.total + 1
      /\ next.digested \in {d.digested, d.digested + within}
      /\ next.kept = Kept(d, within)
      /\ next.state = d.state
  BY <1>1
<1>6. within \in {0, 1}
  OBVIOUS
<1>7. /\ next.total \in 0..MaxOutput
      /\ next.digested \in 0..MaxOutput /\ next.digested <= next.total
      /\ next.kept \in 0..OutputLimit /\ next.kept <= next.total
  <2> HIDE DEF next, within
  <2>1. d.total + 1 \in 0..MaxOutput
    BY <1>1, <1>2
  <2>2. /\ next.digested \in Nat /\ next.digested <= d.total + 1
        /\ next.kept \in Nat /\ next.kept <= d.total + 1
    BY <1>1, <1>2, <1>4, <1>5, <1>6
  <2>3. QED
    BY <1>1, <1>2, <1>4, <1>5, <2>1, <2>2
<1>n. next \in [state : {"none", "reading", "done", "failed"}, total : 0..MaxOutput,
                digested : 0..MaxOutput, kept : 0..OutputLimit]
  BY <1>1, <1>7
<1> HIDE DEF next, within
<1>8. /\ drain' \in [Streams -> [state : {"none", "reading", "done", "failed"},
                                 total : 0..MaxOutput, digested : 0..MaxOutput,
                                 kept : 0..OutputLimit]]
      /\ pipe' \in [Streams -> 0..PipeSize]
  BY <1>1, <1>2, <1>3, <1>n
<1>9. ASSUME NEW r \in Streams PROVE Counted(r)'
  <2>1. CASE r = s
    <3>1. drain'[r] = next /\ pipe'[r] = pipe[r] - 1 /\ written' = written
      BY <1>3, <2>1
    <3>2. next.total + (pipe[s] - 1) = written[s]
      <4>1. d.total \in Int /\ pipe[s] \in Int /\ written[s] \in Int
        BY <1>1, <1>2
      <4>2. QED
        BY <1>1, <1>5, <4>1
    <3>3. QED
      BY <1>7, <2>1, <3>1, <3>2 DEF Counted
  <2>2. CASE r # s
    BY <1>3, <2>2 DEF Counted
  <2>3. QED
    BY <2>1, <2>2
<1>10. QED
  BY <1>3, <1>8, <1>9 DEF Output

\* A drain that ends or fails has the counts it had.
LEMMA DrainEndType ==
  ASSUME TypeInv, NEW s \in Streams, ReadEnd(s) \/ ReadFails(s)
  PROVE  TypeInv'
<1> DEFINE d == drain[s]
<1> USE DEF TypeInv, TypeOK
<1>1. /\ d \in [state : {"none", "reading", "done", "failed"}, total : 0..MaxOutput,
                digested : 0..MaxOutput, kept : 0..OutputLimit]
      /\ d.total + pipe[s] = written[s] /\ d.digested <= d.total /\ d.kept <= d.total
  BY DEF Counted
<1>2. MaxOutput \in Nat /\ OutputLimit \in Nat
  BY BoundAssumption
<1>3. UNCHANGED <<commandPolicy, now, caller, verdict, process, group, fate, reaped, written, result,
                  pipe, exceeded>>
  BY DEF ReadEnd, ReadFails, Drain, processes
<1>4. PICK next : /\ drain' = [drain EXCEPT ![s] = next]
                  /\ next.state \in {"done", "failed"}
                  /\ next.total = d.total /\ next.kept = d.kept
                  /\ next.digested \in {d.digested, d.kept}
                  /\ next \in [state : {"none", "reading", "done", "failed"},
                               total : 0..MaxOutput, digested : 0..MaxOutput,
                               kept : 0..OutputLimit]
  <2>1. CASE ReadEnd(s)
    <3> DEFINE next == [d EXCEPT !.state = "done",
                                 !.digested = IF commandPolicy = "RecoveryExecution" THEN d.kept
                                              ELSE d.digested]
    <3>1. drain' = [drain EXCEPT ![s] = next]
      BY <2>1 DEF ReadEnd
    <3>2. d.kept \in 0..MaxOutput
      BY <1>1, <1>2
    <3>3. /\ next.state = "done" /\ next.total = d.total /\ next.kept = d.kept
          /\ next.digested \in {d.digested, d.kept}
          /\ next \in [state : {"none", "reading", "done", "failed"},
                       total : 0..MaxOutput, digested : 0..MaxOutput, kept : 0..OutputLimit]
      BY <1>1, <3>2
    <3> HIDE DEF next
    <3>4. QED
      BY <3>1, <3>3
  <2>2. CASE ReadFails(s)
    <3> DEFINE next == [d EXCEPT !.state = "failed"]
    <3>1. drain' = [drain EXCEPT ![s] = next]
      BY <2>2 DEF ReadFails
    <3>2. /\ next.state = "failed" /\ next.total = d.total /\ next.kept = d.kept
          /\ next.digested = d.digested
          /\ next \in [state : {"none", "reading", "done", "failed"},
                       total : 0..MaxOutput, digested : 0..MaxOutput, kept : 0..OutputLimit]
      BY <1>1
    <3> HIDE DEF next
    <3>3. QED
      BY <3>1, <3>2
  <2>3. QED
    BY <2>1, <2>2
<1>5. drain' \in [Streams -> [state : {"none", "reading", "done", "failed"},
                              total : 0..MaxOutput, digested : 0..MaxOutput,
                              kept : 0..OutputLimit]]
  BY <1>4
<1>6. ASSUME NEW r \in Streams PROVE Counted(r)'
  BY <1>1, <1>3, <1>4 DEF Counted
<1>7. QED
  BY <1>3, <1>5, <1>6 DEF Output

\* Writing adds to the pipe what it adds to the output.
LEMMA WriteType ==
  ASSUME TypeInv, NEW p \in Processes, NEW s \in Streams, Write(p, s)
  PROVE  TypeInv'
<1> USE DEF TypeInv, TypeOK
<1>1. PipeSize \in Nat /\ MaxOutput \in Nat
  BY BoundAssumption
<1>2. /\ pipe' = [pipe EXCEPT ![s] = pipe[s] + 1]
      /\ written' = [written EXCEPT ![s] = written[s] + 1]
      /\ pipe[s] < PipeSize /\ Output < MaxOutput
      /\ UNCHANGED <<commandPolicy, now, caller, verdict, process, group, fate, reaped, drain, exceeded,
                     result>>
  BY DEF Write, Environment, processes
<1>3. /\ pipe[s] \in 0..PipeSize /\ s \in {"stdout", "stderr"}
      /\ written["stdout"] \in 0..MaxOutput /\ written["stderr"] \in 0..MaxOutput
      /\ written["stdout"] + written["stderr"] < MaxOutput
  BY <1>2 DEF Streams, Output
<1>4. pipe' \in [Streams -> 0..PipeSize]
  BY <1>1, <1>2, <1>3
<1>5. written[s] + 1 \in 0..MaxOutput
  BY <1>1, <1>3
<1>6. written' \in [Streams -> 0..MaxOutput]
  BY <1>2, <1>5
<1>7. Output' = Output + 1 /\ Output \in Nat
  BY <1>2, <1>3 DEF Output, Streams
<1>8. ASSUME NEW r \in Streams PROVE Counted(r)'
  <2>1. /\ drain[r].total \in Nat /\ pipe[r] \in Nat /\ written[r] \in Nat
        /\ drain[r].total + pipe[r] = written[r]
    BY <1>1 DEF Counted
  <2>2. \/ r # s /\ pipe'[r] = pipe[r] /\ written'[r] = written[r]
        \/ r = s /\ pipe'[r] = pipe[r] + 1 /\ written'[r] = written[r] + 1
    BY <1>2
  <2>3. QED
    BY <1>2, <2>1, <2>2 DEF Counted
<1>9. Output' <= MaxOutput
  BY <1>1, <1>2, <1>7
<1>10. QED
  BY <1>2, <1>4, <1>6, <1>8, <1>9

\* Git, what it starts, and the clock.
LEMMA EnvironmentType ==
  ASSUME TypeInv, Fork \/ Detach \/ Tick \/ \E p \in Processes : Exit(p)
  PROVE  TypeInv'
<1> USE DEF TypeInv, TypeOK, Output, Counted, processes, Environment
<1>1. CASE Fork
  BY <1>1 DEF Fork, Processes
<1>2. CASE Detach
  BY <1>2 DEF Detach
<1>3. CASE Tick
  BY <1>3, BoundAssumption DEF Tick
<1>4. ASSUME NEW p \in Processes, Exit(p) PROVE TypeInv'
  BY <1>4 DEF Exit
<1>5. QED
  BY <1>1, <1>2, <1>3, <1>4

\* Before the spawn nothing runs and nothing is drained.
Fresh ==
  caller \in {"start", "beforeSpawn", "spawn"} =>
    /\ process = [p \in Processes |-> "none"]
    /\ drain = [s \in Streams |-> NoDrain]

LEMMA FreshStep == TypeInv /\ Fresh /\ [CommandNext]_commandVars => Fresh'
<1> SUFFICES ASSUME TypeInv, Fresh, [CommandNext]_commandVars, caller' \in {"start", "beforeSpawn", "spawn"}
             PROVE  caller \in {"start", "beforeSpawn", "spawn"} /\ UNCHANGED <<process, drain>>
  BY DEF Fresh
<1> USE DEF processes, streams, Goto, Return, StopFor
<1>1. CASE Caller
  BY <1>1 DEF Caller, CheckDeadline, BeforeSpawn, SpawnFails, Spawn, Wait, PollOutput, PollExit,
              PollDeadline, Kill, Reap, KillRest, Join, Finish
<1>2. ASSUME NEW s \in Streams, Read(s) \/ ReadEnd(s) \/ ReadFails(s) PROVE FALSE
  <2>1. caller' = caller /\ drain[s].state = "reading"
    BY <1>2 DEF Read, ReadEnd, ReadFails, Drain
  <2>2. QED
    BY <2>1 DEF Fresh, NoDrain
<1>3. ASSUME NEW p \in Processes, NEW s \in Streams, Write(p, s) PROVE UNCHANGED <<caller, process, drain>>
  BY <1>3 DEF Write, Environment
<1>4. ASSUME NEW p \in Processes, process[p] = "running", caller' = caller PROVE FALSE
  BY <1>4 DEF Fresh
<1>5. CASE Fork \/ Detach \/ Tick \/ \E p \in Processes : Exit(p)
  BY <1>4, <1>5 DEF Fork, Detach, Tick, Exit, Environment, Processes
<1>6. CASE Returned \/ UNCHANGED commandVars
  BY <1>6 DEF Returned, commandVars
<1>7. QED
  BY <1>1, <1>2, <1>3, <1>5, <1>6 DEF CommandNext

\* The caller keeps the types.
LEMMA CallerType ==
  ASSUME TypeInv, Fresh, Caller
  PROVE  TypeInv'
<1> USE DEF TypeInv, TypeOK, CallerStep, Goto, Return, StopFor, Places, Waited, Results
<1>1. CASE \/ CheckDeadline \/ BeforeSpawn \/ SpawnFails \/ Wait \/ PollOutput \/ PollExit
           \/ PollDeadline \/ Reap \/ Finish
           \/ Join("joinStdout", "stdout", "joinStderr") \/ Join("joinStderr", "stderr", "finish")
  <2>1. /\ UNCHANGED <<commandPolicy, now, process, group, fate, pipe, written, drain, exceeded>>
        /\ reaped' \in BOOLEAN
        /\ caller' \in Places
        /\ verdict' \in {"none", "exit", "output", "TimedOut", "Io"}
        /\ \/ caller' # "returned" /\ result' = "none"
           \/ caller' = "returned" /\ result' \in Results
    BY <1>1 DEF CheckDeadline, BeforeSpawn, SpawnFails, Wait, PollOutput, PollExit,
                PollDeadline, Reap, Finish, Join, processes, streams
  <2>2. QED
    BY <2>1 DEF Output, Counted
<1>2. CASE Spawn
  <2>1. drain' = [s \in Streams |-> [NoDrain EXCEPT !.state = "reading"]]
    BY <1>2 DEF Spawn
  <2>2. ASSUME NEW s \in Streams
        PROVE  /\ drain'[s] = [state |-> "reading", total |-> 0, digested |-> 0, kept |-> 0]
               /\ drain[s] = [state |-> "none", total |-> 0, digested |-> 0, kept |-> 0]
    BY <1>2, <2>1 DEF Spawn, Fresh, NoDrain
  <2>3. ASSUME NEW s \in Streams PROVE Counted(s)'
    BY <1>2, <2>2 DEF Spawn, Counted
  <2>4. drain' \in [Streams -> [state : {"none", "reading", "done", "failed"},
                                total : 0..MaxOutput, digested : 0..MaxOutput,
                                kept : 0..OutputLimit]]
    BY <2>1, BoundAssumption DEF NoDrain
  <2>5. QED
    BY <1>2, <2>3, <2>4 DEF Spawn, Output, Processes
<1>3. CASE Kill \/ KillRest
  <2>1. /\ UNCHANGED <<commandPolicy, now, group, reaped, pipe, written, drain, exceeded, verdict, result>>
        /\ process' \in [Processes -> {"none", "running", "ended"}]
        /\ fate' \in {"none", "killed", "exited"}
        /\ caller \in Waited /\ caller' \in {"reap", "joinStdout"}
    BY <1>3 DEF Kill, KillRest, KillProcessTree, Killed, streams
  <2>2. QED
    BY <2>1 DEF Output, Counted
<1>4. QED
  BY <1>1, <1>2, <1>3 DEF Caller

LEMMA TypeStep == TypeInv /\ Fresh /\ [CommandNext]_commandVars => TypeInv'
<1> SUFFICES ASSUME TypeInv, Fresh, [CommandNext]_commandVars PROVE TypeInv'
  OBVIOUS
<1>1. CASE Returned \/ UNCHANGED commandVars
  BY <1>1 DEF Returned, commandVars, TypeInv, TypeOK, Output, Counted, processes, streams
<1>2. QED
  BY <1>1, CallerType, ReadType, DrainEndType, WriteType, EnvironmentType DEF CommandNext

LEMMA InitType == CommandInit => TypeInv /\ Fresh
<1> SUFFICES ASSUME CommandInit PROVE TypeInv /\ Fresh
  OBVIOUS
<1>1. Fresh
  BY DEF CommandInit, Fresh
<1>2. ASSUME NEW s \in Streams
      PROVE  drain[s] = [state |-> "none", total |-> 0, digested |-> 0, kept |-> 0]
             /\ pipe[s] = 0 /\ written[s] = 0
  BY DEF CommandInit, NoDrain
<1>3. ASSUME NEW s \in Streams PROVE Counted(s)
  BY <1>2 DEF Counted
<1>4. drain \in [Streams -> [state : {"none", "reading", "done", "failed"},
                             total : 0..MaxOutput, digested : 0..MaxOutput,
                             kept : 0..OutputLimit]]
  BY BoundAssumption DEF CommandInit, NoDrain
<1>5. Output <= MaxOutput
  BY <1>2, BoundAssumption DEF Output, Streams
<1>6. TypeOK /\ caller \in Places
  <2>1. PipeSize \in Nat /\ MaxOutput \in Nat /\ Deadline \in Nat
    BY BoundAssumption
  <2>2. pipe \in [Streams -> 0..PipeSize] /\ written \in [Streams -> 0..MaxOutput]
    BY <2>1 DEF CommandInit
  <2>3. process \in [Processes -> {"none", "running", "ended"}] /\ now \in 0..Deadline
    BY <2>1 DEF CommandInit
  <2>4. QED
    BY <1>4, <2>2, <2>3 DEF CommandInit, TypeOK, Places
<1>7. QED
  BY <1>1, <1>3, <1>5, <1>6 DEF TypeInv

\* Reachable states have their types: no counter and no pipe leaves its bound.
THEOREM TypeCorrect == CommandSpec => []TypeOK
<1>1. TypeInv => TypeOK
  BY DEF TypeInv
<1>2. QED
  BY <1>1, InitType, FreshStep, TypeStep, PTL DEF CommandSpec

-----------------------------------------------------------------------------
(***************************************************************************)
(* The inductive invariant.  Output is missing from a digest only if the   *)
(* limit was exceeded; a drain that has met the end of its stream leaves   *)
(* nobody who could write to it; and the caller returns without an error   *)
(* of its own only when both drains have met that end.                     *)
(***************************************************************************)
NothingMissed ==
  commandPolicy # "RecoveryExecution" =>
    \/ commandPolicy = "Diagnostic" /\ exceeded
    \/ \A s \in Streams : drain[s].digested = drain[s].total

AtTheEnd(s) ==
  /\ drain[s].state # "none" => process["git"] # "none"
  /\ drain[s].state = "done" => pipe[s] = 0 /\ \A p \in Processes : process[p] # "running"

DrainsJoined(s) == drain[s].state = "done" \/ verdict = "Io"

JoinsInOrder ==
  /\ caller \in {"joinStderr", "finish"} => DrainsJoined("stdout")
  /\ caller = "finish" => DrainsJoined("stderr")

AllDone == \A s \in Streams : drain[s].state = "done"

Outcome ==
  /\ result = "Ok" => AllDone /\ ~(commandPolicy = "Diagnostic" /\ exceeded)
  /\ result \in {"TimedOut", "Blocked"} /\ process["git"] # "none" => AllDone

CommandInv ==
  /\ TypeInv /\ Fresh /\ NothingMissed
  /\ \A s \in Streams : AtTheEnd(s)
  /\ JoinsInOrder /\ Outcome

\* The drains.
LEMMA DrainSafe ==
  ASSUME CommandInv, NEW s \in Streams, Read(s) \/ ReadEnd(s) \/ ReadFails(s)
  PROVE  NothingMissed' /\ (\A r \in Streams : AtTheEnd(r)') /\ JoinsInOrder' /\ Outcome'
<1> DEFINE d == drain[s]
<1> USE DEF CommandInv, TypeInv, TypeOK
<1>1. /\ d.state = "reading"
      /\ UNCHANGED <<commandPolicy, caller, verdict, process, result>>
      /\ \A r \in Streams \ {s} : drain'[r] = drain[r] /\ pipe'[r] = pipe[r]
  BY DEF Read, ReadEnd, ReadFails, Drain, processes
<1>2. /\ d.total \in Nat /\ d.digested \in Nat
      /\ d \in [state : {"none", "reading", "done", "failed"}, total : 0..MaxOutput,
                digested : 0..MaxOutput, kept : 0..OutputLimit]
  OBVIOUS
<1>3. AtTheEnd(s)'
  <2>1. CASE Read(s)
    <3>1. drain'[s].state = "reading"
      BY <1>1, <2>1 DEF Read
    <3>2. QED
      BY <1>1, <3>1 DEF AtTheEnd
  <2>2. CASE ReadEnd(s)
    BY <1>1, <2>2 DEF ReadEnd, AtTheEnd
  <2>3. CASE ReadFails(s)
    <3>1. drain'[s].state = "failed"
      BY <1>2, <2>3 DEF ReadFails
    <3>2. QED
      BY <1>1, <3>1 DEF AtTheEnd
  <2>4. QED
    BY <2>1, <2>2, <2>3
<1>4. \A r \in Streams : AtTheEnd(r)'
  BY <1>1, <1>3 DEF AtTheEnd
<1>5. JoinsInOrder'
  BY <1>1 DEF JoinsInOrder, DrainsJoined, Streams
<1>6. Outcome'
  BY <1>1 DEF Outcome, AllDone
<1>7. NothingMissed'
  <2> SUFFICES ASSUME commandPolicy # "RecoveryExecution", ~(commandPolicy = "Diagnostic" /\ exceeded')
               PROVE  \A r \in Streams : drain'[r].digested = drain'[r].total
    BY <1>1 DEF NothingMissed
  <2>1. CASE Read(s)
    <3>1. Captured(d.total) /\ ~(commandPolicy = "Diagnostic" /\ exceeded)
      BY <2>1 DEF Read, Captured
    <3>2. drain'[s].digested = d.digested + 1 /\ drain'[s].total = d.total + 1
      BY <1>2, <2>1, <3>1 DEF Read
    <3>3. QED
      BY <1>1, <3>1, <3>2 DEF NothingMissed
  <2>2. CASE ReadEnd(s) \/ ReadFails(s)
    <3>1. exceeded' = exceeded
      BY <2>2 DEF ReadEnd, ReadFails
    <3>2. drain'[s].digested = d.digested /\ drain'[s].total = d.total
      BY <1>2, <2>2 DEF ReadEnd, ReadFails
    <3>3. QED
      BY <1>1, <3>1, <3>2 DEF NothingMissed
  <2>3. QED
    BY <2>1, <2>2
<1>8. QED
  BY <1>4, <1>5, <1>6, <1>7

\* Git and what it starts.
LEMMA EnvironmentSafe ==
  ASSUME CommandInv,
         \/ \E p \in Processes, s \in Streams : Write(p, s)
         \/ \E p \in Processes : Exit(p)
         \/ Fork \/ Detach \/ Tick
  PROVE  NothingMissed' /\ (\A s \in Streams : AtTheEnd(s)') /\ JoinsInOrder' /\ Outcome'
<1> USE DEF CommandInv, TypeInv, TypeOK
<1>1. UNCHANGED <<commandPolicy, caller, verdict, drain, exceeded, result>>
  BY DEF Write, Exit, Fork, Detach, Tick, Environment
<1>2. /\ process'["git"] = "none" <=> process["git"] = "none"
      /\ (\A p \in Processes : process[p] # "running")
           => pipe' = pipe /\ \A p \in Processes : process'[p] # "running"
  BY DEF Write, Exit, Fork, Detach, Tick, Processes, processes
<1>3. QED
  BY <1>1, <1>2 DEF NothingMissed, AtTheEnd, JoinsInOrder, DrainsJoined, Outcome, AllDone

\* The caller.
LEMMA CallerSafe ==
  ASSUME CommandInv, Caller
  PROVE  NothingMissed' /\ (\A s \in Streams : AtTheEnd(s)') /\ JoinsInOrder' /\ Outcome'
<1> USE DEF CommandInv, TypeInv, TypeOK, CallerStep, Goto, Return, StopFor, processes, streams
<1>1. CASE CheckDeadline \/ BeforeSpawn \/ SpawnFails
  <2>1. UNCHANGED <<commandPolicy, process, pipe, drain, exceeded>> /\ process["git"] = "none"
    BY <1>1 DEF CheckDeadline, BeforeSpawn, SpawnFails, Fresh, Processes
  <2>2. /\ caller' \in {"beforeSpawn", "spawn", "returned"}
        /\ result' \in {"none", "TimedOut", "Refused", "Io"}
    BY <1>1 DEF CheckDeadline, BeforeSpawn, SpawnFails
  <2>3. QED
    BY <2>1, <2>2 DEF NothingMissed, AtTheEnd, JoinsInOrder, Outcome
<1>2. CASE Spawn
  <2>1. \A s \in Streams : drain'[s] = [state |-> "reading", total |-> 0, digested |-> 0,
                                        kept |-> 0]
    BY <1>2 DEF Spawn, NoDrain
  <2>2. process'["git"] = "running" /\ result' = "none"
    BY <1>2 DEF Spawn, Processes
  <2>3. caller' \in {"wait", "pollOutput"}
    BY <1>2 DEF Spawn
  <2>4. QED
    BY <2>1, <2>2, <2>3 DEF NothingMissed, AtTheEnd, JoinsInOrder, Outcome
<1>3. CASE Wait \/ PollOutput \/ PollExit \/ PollDeadline \/ Kill \/ Reap \/ KillRest
  <2>1. /\ UNCHANGED <<commandPolicy, pipe, drain, exceeded>>
        /\ caller' \notin {"joinStderr", "finish"}
        /\ result' \in {"none", "Io"}
    BY <1>3 DEF Wait, PollOutput, PollExit, PollDeadline, Kill, Reap, KillRest
  <2>2. /\ process'["git"] = "none" <=> process["git"] = "none"
        /\ \A p \in Processes : process'[p] = "running" => process[p] = "running"
    BY <1>3 DEF Wait, PollOutput, PollExit, PollDeadline, Kill, Reap, KillRest,
                KillProcessTree, Killed, Processes
  <2>3. QED
    BY <2>1, <2>2 DEF NothingMissed, AtTheEnd, JoinsInOrder, Outcome
<1>4. CASE \/ Join("joinStdout", "stdout", "joinStderr")
           \/ Join("joinStderr", "stderr", "finish")
  <2>1. UNCHANGED <<commandPolicy, process, pipe, drain, exceeded, verdict>>
    BY <1>4 DEF Join
  <2>2. /\ caller' = "joinStderr" => DrainsJoined("stdout")
        /\ caller' = "finish" => DrainsJoined("stdout") /\ DrainsJoined("stderr")
        /\ result' \in {"none", "Io"}
    BY <1>4 DEF Join, DrainsJoined, JoinsInOrder
  <2>3. QED
    BY <2>1, <2>2 DEF NothingMissed, AtTheEnd, JoinsInOrder, DrainsJoined, Outcome
<1>5. CASE Finish
  <2>1. UNCHANGED <<commandPolicy, process, pipe, drain, exceeded, verdict>> /\ caller' = "returned"
    BY <1>5 DEF Finish
  <2>2. result' # "Io" => AllDone
    <3>1. verdict = "Io" => result' = "Io"
      BY <1>5 DEF Finish
    <3>2. DrainsJoined("stdout") /\ DrainsJoined("stderr")
      BY <1>5 DEF Finish, JoinsInOrder
    <3>3. QED
      BY <3>1, <3>2 DEF DrainsJoined, AllDone, Streams
  <2>3. result' = "Ok" => ~(commandPolicy = "Diagnostic" /\ exceeded)
    BY <1>5 DEF Finish, OverTheLimit
  <2>4. Outcome'
    BY <2>1, <2>2, <2>3 DEF Outcome, AllDone
  <2>5. QED
    BY <2>1, <2>4 DEF NothingMissed, AtTheEnd, JoinsInOrder
<1>6. QED
  BY <1>1, <1>2, <1>3, <1>4, <1>5 DEF Caller

\* Every step keeps the invariant.
LEMMA CommandStep == CommandInv /\ [CommandNext]_commandVars => CommandInv'
<1> SUFFICES ASSUME CommandInv, [CommandNext]_commandVars PROVE CommandInv'
  OBVIOUS
<1>1. TypeInv' /\ Fresh'
  BY TypeStep, FreshStep DEF CommandInv
<1>2. CASE Returned \/ UNCHANGED commandVars
  BY <1>1, <1>2 DEF Returned, commandVars, processes, streams, CommandInv, NothingMissed, AtTheEnd,
                    JoinsInOrder, DrainsJoined, Outcome, AllDone
<1>3. QED
  BY <1>1, <1>2, CallerSafe, DrainSafe, EnvironmentSafe DEF CommandNext, CommandInv

\* The invariant holds throughout.
LEMMA CommandInvariant == CommandSpec => []CommandInv
<1>1. CommandInit => CommandInv
  <2> SUFFICES ASSUME CommandInit PROVE CommandInv
    OBVIOUS
  <2>1. \A s \in Streams : drain[s] = [state |-> "none", total |-> 0, digested |-> 0, kept |-> 0]
    BY DEF CommandInit, NoDrain
  <2>2. QED
    BY <2>1, InitType DEF CommandInit, CommandInv, NothingMissed, AtTheEnd, JoinsInOrder, Outcome
<1>2. QED
  BY <1>1, CommandStep, PTL DEF CommandSpec

-----------------------------------------------------------------------------
(***************************************************************************)
(* The theorems.                                                           *)
(***************************************************************************)
\* The digest run_bounded_command returns covers all that was written, whichever
\* of the last output, the exit and the polls came first.
THEOREM DigestIsComplete == CommandSpec => []OkDigestsEverything
<1>1. CommandInv => OkDigestsEverything
  <2> SUFFICES ASSUME CommandInv, result = "Ok", commandPolicy # "RecoveryExecution", NEW s \in Streams
               PROVE  drain[s].digested = written[s] /\ drain[s].total = written[s]
    BY DEF OkDigestsEverything
  <2>1. drain[s].digested = drain[s].total /\ pipe[s] = 0
    BY DEF CommandInv, Outcome, AllDone, NothingMissed, AtTheEnd
  <2>2. drain[s].total + pipe[s] = written[s] /\ drain[s].total \in Nat
    BY DEF CommandInv, TypeInv, TypeOK, Counted
  <2>3. QED
    BY <2>1, <2>2
<1>2. QED
  BY <1>1, CommandInvariant, PTL

\* A call that returns without an I/O error has ended what it started: Git, its
\* process group and both drains.
THEOREM NothingIsLeftBehind == CommandSpec => []LeavesNothingBehind
<1>1. CommandInv => LeavesNothingBehind
  <2> SUFFICES ASSUME CommandInv, result \in {"Ok", "TimedOut", "Blocked"},
                      process["git"] # "none"
               PROVE  /\ process["git"] = "ended"
                      /\ \A p \in group : process[p] # "running"
                      /\ AllDone
    BY DEF LeavesNothingBehind, AllDone
  <2>1. AllDone
    BY DEF CommandInv, Outcome
  <2>2. \A p \in Processes : process[p] # "running"
    BY <2>1 DEF CommandInv, AtTheEnd, AllDone, Streams
  <2>3. group \subseteq Processes /\ process["git"] \in {"none", "running", "ended"}
    BY DEF CommandInv, TypeInv, TypeOK, Processes
  <2>4. QED
    BY <2>1, <2>2, <2>3 DEF Processes
<1>2. QED
  BY <1>1, CommandInvariant, PTL

-----------------------------------------------------------------------------
(***************************************************************************)
(* Sequences of sequences, one behind the other.                           *)
(***************************************************************************)
\* A function that is given step by step, with its values in a set, exists.
IsGiven(f, base, n, step) ==
  f[0] = base /\ \A i \in 1..n : f[i] = step[<<i, f[i - 1]>>]

LEMMA StepByStep ==
  ASSUME NEW V, NEW base \in V, NEW n \in Nat, NEW step \in [(1..n) \X V -> V]
  PROVE  \E f \in [0..n -> V] : IsGiven(f, base, n, step)
<1> DEFINE Good(f, k) == f[0] = base /\ \A i \in 1..k : f[i] = step[<<i, f[i - 1]>>]
           S == {k \in Nat : k <= n => \E f \in [0..k -> V] : Good(f, k)}
<1>1. 0 \in S
  <2>1. [i \in 0..0 |-> base] \in [0..0 -> V] /\ Good([i \in 0..0 |-> base], 0)
    OBVIOUS
  <2>2. QED
    BY <2>1
<1>2. ASSUME NEW k \in Nat, k \in S PROVE k + 1 \in S
  <2> SUFFICES ASSUME k + 1 <= n PROVE \E f \in [0..(k + 1) -> V] : Good(f, k + 1)
    OBVIOUS
  <2>1. PICK f \in [0..k -> V] : Good(f, k)
    BY <1>2
  <2> DEFINE g == [i \in 0..(k + 1) |-> IF i = k + 1 THEN step[<<k + 1, f[k]>>] ELSE f[i]]
  <2>2. <<k + 1, f[k]>> \in (1..n) \X V
    OBVIOUS
  <2>3. step[<<k + 1, f[k]>>] \in V
    BY <2>2
  <2>4. g \in [0..(k + 1) -> V]
    BY <2>3
  <2>5. /\ g[k + 1] = step[<<k + 1, f[k]>>]
        /\ \A i \in 0..k : g[i] = f[i]
    OBVIOUS
  <2> HIDE DEF g
  <2>6. Good(g, k + 1)
    <3>1. g[0] = base
      BY <2>1, <2>5
    <3>2. ASSUME NEW i \in 1..(k + 1) PROVE g[i] = step[<<i, g[i - 1]>>]
      <4>1. CASE i = k + 1
        BY <2>5, <4>1
      <4>2. CASE i \in 1..k
        BY <2>1, <2>5, <4>2
      <4>3. QED
        BY <4>1, <4>2
    <3>3. QED
      BY <3>1, <3>2
  <2>7. QED
    BY <2>4, <2>6
<1> HIDE DEF S
<1>3. Nat \subseteq S
  BY <1>1, <1>2, SetInduction
<1>4. n \in S
  BY <1>3
<1>5. QED
  BY <1>4 DEF S, IsGiven

\* What FlattenSeq returns: the last of the lists that end with each sequence.
IsFlat(flat, seqs) ==
  /\ flat[0] = <<>>
  /\ \A i \in 1..Len(seqs) : flat[i] = flat[i - 1] \o seqs[i]

LEMMA FlattenParts ==
  ASSUME NEW S, NEW seqs \in Seq(Seq(S))
  PROVE  \E flat \in [0..Len(seqs) -> Seq(S)] :
           IsFlat(flat, seqs) /\ FlattenSeq(seqs) = flat[Len(seqs)]
<1> DEFINE n == Len(seqs)
           V == Seq(S)
<1>1. n \in Nat /\ \A i \in 1..n : seqs[i] \in V
  OBVIOUS
<1>2. <<>> \in V /\ \A s \in V : <<>> \o s = s
  OBVIOUS
<1>3. \A s, r \in V : s \o r \in V
  OBVIOUS
<1> HIDE DEF V, n
<1>4. PICK step \in [(1..n) \X V -> V] : \A i \in 1..n, s \in V : step[<<i, s>>] = s \o seqs[i]
  <2> DEFINE step == [x \in (1..n) \X V |-> x[2] \o seqs[x[1]]]
  <2>1. step \in [(1..n) \X V -> V] /\ \A i \in 1..n, s \in V : step[<<i, s>>] = s \o seqs[i]
    BY <1>1, <1>3
  <2> HIDE DEF step
  <2>2. QED
    BY <2>1
<1>5. PICK f \in [0..n -> V] : f[0] = <<>> /\ \A i \in 1..n : f[i] = step[<<i, f[i - 1]>>]
  <2>1. <<>> \in V /\ n \in Nat
    BY <1>1, <1>2
  <2>2. \E f \in [0..n -> V] : IsGiven(f, <<>>, n, step)
    BY <2>1, StepByStep
  <2>3. QED
    BY <2>2 DEF IsGiven
<1>6. \A i \in 1..n : f[i] = f[i - 1] \o seqs[i]
  <2> SUFFICES ASSUME NEW i \in 1..n PROVE f[i] = f[i - 1] \o seqs[i]
    OBVIOUS
  <2>1. f[i - 1] \in V
    BY <1>1
  <2>2. QED
    BY <1>4, <1>5, <2>1
<1>7. CASE n = 0
  <2>1. seqs = <<>>
    BY <1>7 DEF n
  <2>2. FlattenSeq(seqs) = <<>>
    BY <1>7, <2>1 DEF FlattenSeq, n
  <2>3. QED
    BY <1>5, <1>6, <1>7, <2>2 DEF IsFlat, n, V
<1>8. CASE n > 0
  <2> DEFINE IsPart(p) == p = [i \in 1..n |-> IF i = 1 THEN seqs[i] ELSE p[i - 1] \o seqs[i]]
             g == [i \in 1..n |-> f[i]]
             p == CHOOSE q : IsPart(q)
  <2>1. f[1] = seqs[1]
    <3>1. 1 \in 1..n /\ 1 - 1 = 0
      BY <1>1, <1>8
    <3>2. f[1] = f[1 - 1] \o seqs[1] /\ seqs[1] \in V
      BY <1>1, <1>6, <3>1
    <3>3. f[1 - 1] = <<>>
      BY <1>5, <3>1
    <3>4. QED
      BY <1>2, <3>2, <3>3
  <2>2. IsPart(g)
    <3>1. /\ g = [i \in 1..n |-> g[i]]
          /\ \A i \in 1..n : g[i] = f[i]
      OBVIOUS
    <3> HIDE DEF g
    <3>2. ASSUME NEW i \in 1..n
          PROVE  g[i] = IF i = 1 THEN seqs[i] ELSE g[i - 1] \o seqs[i]
      <4>1. CASE i = 1
        BY <2>1, <3>1, <4>1
      <4>2. CASE i # 1
        <5>1. i - 1 \in 1..n
          BY <1>1, <4>2
        <5>2. QED
          BY <1>6, <3>1, <4>2, <5>1
      <4>3. QED
        BY <4>1, <4>2
    <3>3. QED
      BY <3>1, <3>2
  <2>3. IsPart(p)
    <3> HIDE DEF IsPart
    <3>1. QED
      BY <2>2
  <2>4. FlattenSeq(seqs) = p[n]
    BY <1>8 DEF FlattenSeq, n
  <2> HIDE DEF p
  <2>5. \A i \in 1..n : p[i] = IF i = 1 THEN seqs[i] ELSE p[i - 1] \o seqs[i]
    BY <2>3
  <2> HIDE DEF IsPart
  <2>6. \A i \in 1..n : p[i] = f[i]
    <3> DEFINE T == {k \in Nat : k + 1 \in 1..n => p[k + 1] = f[k + 1]}
    <3>1. 0 \in T
      BY <1>1, <1>8, <2>1, <2>5
    <3>2. ASSUME NEW k \in Nat, k \in T PROVE k + 1 \in T
      <4> SUFFICES ASSUME (k + 1) + 1 \in 1..n PROVE p[(k + 1) + 1] = f[(k + 1) + 1]
        OBVIOUS
      <4>1. k + 1 \in 1..n /\ ((k + 1) + 1) - 1 = k + 1 /\ (k + 1) + 1 # 1
        BY <1>1
      <4>2. /\ f[(k + 1) + 1] = f[((k + 1) + 1) - 1] \o seqs[(k + 1) + 1]
            /\ p[(k + 1) + 1] = p[((k + 1) + 1) - 1] \o seqs[(k + 1) + 1]
        BY <1>6, <2>5, <4>1
      <4>3. p[k + 1] = f[k + 1]
        BY <3>2, <4>1
      <4>4. QED
        BY <4>1, <4>2, <4>3
    <3> HIDE DEF T
    <3>3. Nat \subseteq T
      BY <3>1, <3>2, SetInduction
    <3>4. QED
      <4> SUFFICES ASSUME NEW i \in 1..n PROVE p[i] = f[i]
        OBVIOUS
      <4>1. i - 1 \in Nat /\ (i - 1) + 1 = i
        BY <1>1
      <4>2. QED
        BY <3>3, <4>1 DEF T
  <2>7. FlattenSeq(seqs) = f[n]
    BY <1>1, <1>8, <2>4, <2>6
  <2>8. QED
    BY <1>5, <1>6, <2>7 DEF IsFlat, n, V
<1>9. QED
  BY <1>1, <1>7, <1>8

\* The elements of a list.
Members(list) == {list[i] : i \in 1..Len(list)}

LEMMA JoinedMembers ==
  ASSUME NEW S, NEW one \in Seq(S), NEW list \in Seq(S)
  PROVE  Members(one \o list) = Members(one) \cup Members(list)
<1> DEFINE both == one \o list
<1>1. Len(one) \in Nat /\ Len(list) \in Nat
  OBVIOUS
<1>2. /\ Len(both) = Len(one) + Len(list)
      /\ \A i \in 1..(Len(one) + Len(list)) :
           both[i] = IF i <= Len(one) THEN one[i] ELSE list[i - Len(one)]
  BY Joining
<1> HIDE DEF both
<1>3. ASSUME NEW i \in 1..Len(both) PROVE both[i] \in Members(one) \cup Members(list)
  <2>1. CASE i <= Len(one)
    BY <1>1, <1>2, <2>1 DEF Members
  <2>2. CASE ~ (i <= Len(one))
    <3>1. i - Len(one) \in 1..Len(list)
      BY <1>1, <1>2, <2>2
    <3>2. QED
      BY <1>1, <1>2, <2>2, <3>1 DEF Members
  <2>3. QED
    BY <2>1, <2>2
<1>4. ASSUME NEW i \in 1..Len(one) PROVE one[i] \in Members(both)
  <2>1. i \in 1..Len(both) /\ both[i] = one[i]
    BY <1>1, <1>2
  <2>2. QED
    BY <2>1 DEF Members
<1>5. ASSUME NEW i \in 1..Len(list) PROVE list[i] \in Members(both)
  <2>1. Len(one) + i \in 1..Len(both) /\ both[Len(one) + i] = list[(Len(one) + i) - Len(one)]
    BY <1>1, <1>2
  <2>2. (Len(one) + i) - Len(one) = i
    BY <1>1
  <2>3. QED
    BY <2>1, <2>2 DEF Members
<1>6. QED
  BY <1>3, <1>4, <1>5 DEF Members, both

\* The elements of sequences one behind the other.
LEMMA FlattenMembers ==
  ASSUME NEW S, NEW seqs \in Seq(Seq(S))
  PROVE  /\ FlattenSeq(seqs) \in Seq(S)
         /\ \A x : x \in Members(FlattenSeq(seqs)) <=> \E i \in 1..Len(seqs) : x \in Members(seqs[i])
<1> DEFINE n == Len(seqs)
<1>1. PICK flat \in [0..n -> Seq(S)] : IsFlat(flat, seqs) /\ FlattenSeq(seqs) = flat[n]
  BY FlattenParts
<1>2. n \in Nat /\ \A i \in 1..n : seqs[i] \in Seq(S)
  OBVIOUS
<1>3. flat[0] = <<>> /\ \A i \in 1..n : flat[i] = flat[i - 1] \o seqs[i]
  BY <1>1 DEF IsFlat
<1> HIDE DEF n
<1> DEFINE Right(k) == \A x : x \in Members(flat[k]) <=> \E i \in 1..k : x \in Members(seqs[i])
           T == {k \in Nat : k <= n => Right(k)}
<1>4. 0 \in T
  <2>1. Members(<<>>) = {}
    BY DEF Members
  <2>2. QED
    BY <1>3, <2>1
<1>5. ASSUME NEW k \in Nat, k \in T PROVE k + 1 \in T
  <2> SUFFICES ASSUME k + 1 <= n PROVE Right(k + 1)
    OBVIOUS
  <2>1. /\ k + 1 \in 1..n /\ (k + 1) - 1 = k /\ k \in 0..n
        /\ \A i \in 1..(k + 1) : i \in 1..k \/ i = k + 1
        /\ \A i \in 1..k : i \in 1..(k + 1)
    BY <1>2
  <2>2. flat[k + 1] = flat[k] \o seqs[k + 1]
    BY <1>3, <2>1
  <2>3. flat[k] \in Seq(S) /\ seqs[k + 1] \in Seq(S)
    BY <1>2, <2>1
  <2>4. Members(flat[k + 1]) = Members(flat[k]) \cup Members(seqs[k + 1])
    BY <2>2, <2>3, JoinedMembers
  <2>5. Right(k)
    BY <1>5, <2>1
  <2>6. QED
    BY <2>1, <2>4, <2>5
<1> HIDE DEF T
<1>6. Nat \subseteq T
  BY <1>4, <1>5, SetInduction
<1>7. Right(n)
  <2>1. n \in T /\ n <= n
    BY <1>2, <1>6
  <2> HIDE DEF Right
  <2>2. QED
    BY <2>1 DEF T
<1>8. flat[n] \in Seq(S)
  BY <1>2
<1>9. QED
  BY <1>1, <1>7, <1>8 DEF n

-----------------------------------------------------------------------------
(***************************************************************************)
(* Reading records one after the other.                                    *)
(***************************************************************************)
\* The function by which ParseStatus is defined, on the first records of a list.
IsParse(parsed, records, n) ==
  parsed = [i \in 0..n |-> IF i = 0 THEN Nothing ELSE ParseRecord(parsed[i - 1], records[i])]

LEMMA ParseExists ==
  ASSUME NEW records, NEW n \in Nat
  PROVE  \E parsed : IsParse(parsed, records, n)
<1> DEFINE T == {k \in Nat : \E parsed : IsParse(parsed, records, k)}
<1>1. 0 \in T
  <2>1. IsParse([i \in 0..0 |-> Nothing], records, 0)
    BY DEF IsParse
  <2>2. QED
    BY <2>1
<1>2. ASSUME NEW k \in Nat, k \in T PROVE k + 1 \in T
  <2>1. PICK parsed : IsParse(parsed, records, k)
    BY <1>2
  <2> DEFINE last == ParseRecord(parsed[k], records[k + 1])
             next == [i \in 0..(k + 1) |-> IF i = k + 1 THEN last ELSE parsed[i]]
             step(s, i) == IF i = 0 THEN Nothing ELSE ParseRecord(s[i - 1], records[i])
  <2>2. ASSUME NEW i \in 0..(k + 1)
        PROVE  next[i] = step(next, i)
    <3>1. CASE i = k + 1
      <4>1. next[i] = last /\ next[i - 1] = parsed[k] /\ i # 0
        BY <3>1
      <4> HIDE DEF next
      <4>2. QED
        BY <3>1, <4>1
    <3>2. CASE i \in 0..k
      <4>1. next[i] = parsed[i] /\ (i # 0 => next[i - 1] = parsed[i - 1])
        BY <3>2
      <4>2. parsed[i] = step(parsed, i)
        BY <2>1, <3>2 DEF IsParse
      <4> HIDE DEF next
      <4>3. QED
        BY <4>1, <4>2
    <3>3. QED
      BY <3>1, <3>2
  <2>3. next = [i \in 0..(k + 1) |-> next[i]]
    OBVIOUS
  <2> HIDE DEF next
  <2>4. IsParse(next, records, k + 1)
    BY <2>2, <2>3 DEF IsParse
  <2>5. QED
    BY <2>4
<1> HIDE DEF T
<1>3. Nat \subseteq T
  BY <1>1, <1>2, SetInduction
<1>4. QED
  BY <1>3 DEF T

LEMMA ParseUnique ==
  ASSUME NEW n \in Nat, NEW m \in Nat, n <= m, NEW records, NEW more,
         \A i \in 1..n : more[i] = records[i],
         NEW parsed, IsParse(parsed, records, n), NEW also, IsParse(also, more, m)
  PROVE  also[n] = parsed[n]
<1> DEFINE T == {k \in Nat : k <= n => also[k] = parsed[k]}
<1>1. 0 \in T
  BY DEF IsParse
<1>2. ASSUME NEW k \in Nat, k \in T PROVE k + 1 \in T
  <2> SUFFICES ASSUME k + 1 <= n PROVE also[k + 1] = parsed[k + 1]
    OBVIOUS
  <2>1. k + 1 \in 1..n /\ k + 1 \in 0..n /\ k + 1 \in 0..m /\ k + 1 # 0 /\ (k + 1) - 1 = k
    OBVIOUS
  <2>2. parsed[k + 1] = ParseRecord(parsed[k], records[k + 1])
    BY <2>1 DEF IsParse
  <2>3. also[k + 1] = ParseRecord(also[k], more[k + 1])
    BY <2>1 DEF IsParse
  <2>4. also[k] = parsed[k]
    BY <1>2
  <2>5. QED
    BY <2>1, <2>2, <2>3, <2>4
<1> HIDE DEF T
<1>3. Nat \subseteq T
  BY <1>1, <1>2, SetInduction
<1>4. QED
  BY <1>3 DEF T

LEMMA ParseDef ==
  ASSUME NEW records, Len(records) \in Nat
  PROVE  \E parsed : /\ IsParse(parsed, records, Len(records))
                     /\ ParseStatus(records) = parsed[Len(records)]
<1> DEFINE parsed == CHOOSE s : IsParse(s, records, Len(records))
<1>1. IsParse(parsed, records, Len(records))
  BY ParseExists
<1>2. ParseStatus(records) = parsed[Len(records)]
  BY DEF ParseStatus, IsParse
<1> HIDE DEF parsed
<1>3. QED
  BY <1>1, <1>2

LEMMA ParseNone == ParseStatus(<<>>) = Nothing
<1>1. Len(<<>>) = 0
  OBVIOUS
<1>2. PICK parsed : IsParse(parsed, <<>>, 0) /\ ParseStatus(<<>>) = parsed[0]
  BY <1>1, ParseDef
<1>3. QED
  BY <1>2 DEF IsParse

LEMMA ParseNext ==
  ASSUME NEW S, NEW records \in Seq(S), NEW r \in S
  PROVE  ParseStatus(Append(records, r)) = ParseRecord(ParseStatus(records), r)
<1> DEFINE n == Len(records)
           more == Append(records, r)
<1>1. /\ n \in Nat /\ Len(more) = n + 1 /\ more[n + 1] = r
      /\ \A i \in 1..n : more[i] = records[i]
  OBVIOUS
<1> HIDE DEF more
<1>2. PICK parsed : IsParse(parsed, records, n) /\ ParseStatus(records) = parsed[n]
  BY <1>1, ParseDef
<1>3. PICK also : IsParse(also, more, n + 1) /\ ParseStatus(more) = also[n + 1]
  BY <1>1, ParseDef
<1> HIDE DEF n
<1>4. n + 1 \in Nat /\ n <= n + 1
  BY <1>1
<1>5. also[n] = parsed[n]
  BY <1>1, <1>2, <1>3, <1>4, ParseUnique
<1>6. also[n + 1] = ParseRecord(also[n], more[n + 1])
  <2>1. n + 1 \in 0..(n + 1) /\ n + 1 # 0 /\ (n + 1) - 1 = n
    BY <1>1
  <2>2. QED
    BY <1>3, <2>1 DEF IsParse
<1>7. QED
  BY <1>1, <1>2, <1>3, <1>5, <1>6 DEF more

-----------------------------------------------------------------------------
(***************************************************************************)
(* What Git reports of a worktree, path by path, and how it is read.       *)
(***************************************************************************)
WorkLetter(t, p) == IF t.index[p] = Nil THEN "." ELSE Change(t.index[p], t.work[p])
IndexLetter(t, p) == Change(t.head[p], t.index[p])
Origins(t, p) == {q \in Paths : <<q, p>> \in Moves(t)}
IsOrigin(t, p) == \E n \in Paths : <<p, n>> \in Moves(t)
IsSame(t, p) == IndexLetter(t, p) = "." /\ WorkLetter(t, p) = "."

TrackedEntries(t, p) ==
  IF t.index[p] = Unmerged THEN {Entry("Conflict", <<"U", "U">>, p, Nil)}
  ELSE IF Origins(t, p) # {}
  THEN {Entry("Renamed", <<"R", WorkLetter(t, p)>>, p, q) : q \in Origins(t, p)}
  ELSE IF IsOrigin(t, p) \/ IsSame(t, p) THEN {}
  ELSE {Entry("Ordinary", <<IndexLetter(t, p), WorkLetter(t, p)>>, p, Nil)}

UntrackedEntries(t, p) ==
  IF t.index[p] = Nil /\ t.work[p] # Nil THEN {Entry("Untracked", <<".", "?">>, p, Nil)} ELSE {}

EntriesOf(t, p) == TrackedEntries(t, p) \cup UntrackedEntries(t, p)
Reported(t) == UNION {EntriesOf(t, p) : p \in Paths}

Letters == {".", "A", "D", "M"}

AllRecords ==
  {Record(tag, xy, p) : tag \in {"#", "1", "2", "u", "?"},
                        xy \in {<<>>} \cup (Letters \cup {"R", "U"}) \X (Letters \cup {"U"}),
                        p \in Paths \cup {Nil}}
  \cup {Bare[q] : q \in Paths}

LEMMA ChangeIs ==
  ASSUME NEW old, NEW new
  PROVE  Change(old, new) \in Letters /\ (Change(old, new) = "." <=> old = new)
BY DEF Change, Letters

LEMMA LettersAre ==
  ASSUME NEW t, NEW p
  PROVE  /\ WorkLetter(t, p) \in Letters /\ IndexLetter(t, p) \in Letters
         /\ IndexLetter(t, p) = "." <=> t.head[p] = t.index[p]
         /\ WorkLetter(t, p) = "." <=> t.index[p] = Nil \/ t.index[p] = t.work[p]
<1>1. WorkLetter(t, p) \in Letters /\ (WorkLetter(t, p) = "." <=> t.index[p] = Nil \/ t.index[p] = t.work[p])
  <2>1. "." \in Letters
    BY DEF Letters
  <2>2. QED
    BY <2>1, ChangeIs DEF WorkLetter
<1>2. QED
  BY <1>1, ChangeIs DEF IndexLetter

LEMMA MoveIs ==
  ASSUME NEW t, NEW q \in Paths, NEW p \in Paths
  PROVE  <<q, p>> \in Moves(t) <=>
           /\ IsMove(t, q, p)
           /\ \A n \in Paths : (IsMove(t, q, n) => n = p) /\ (IsMove(t, n, p) => n = q)
<1> DEFINE m == <<q, p>>
<1>1. m \in Paths \X Paths /\ m[1] = q /\ m[2] = p
  OBVIOUS
<1> HIDE DEF m
<1>2. m \in Moves(t) <=> /\ IsMove(t, m[1], m[2])
                         /\ \A n \in Paths : /\ IsMove(t, m[1], n) => n = m[2]
                                             /\ IsMove(t, n, m[2]) => n = m[1]
  BY <1>1 DEF Moves
<1>3. QED
  BY <1>1, <1>2 DEF m

LEMMA MoveUnique ==
  ASSUME NEW t, NEW q \in Paths, NEW p \in Paths, <<q, p>> \in Moves(t), NEW n \in Paths
  PROVE  (<<n, p>> \in Moves(t) => n = q) /\ (<<q, n>> \in Moves(t) => n = p)
BY MoveIs

Clear(entries) == [entries |-> entries, renamed |-> Nil, failed |-> FALSE]

\* The records of a list are read as these entries.
IsParsed(list, entries) == ParseStatus(list) = Clear(entries)

LEMMA RecordIs ==
  ASSUME NEW tag, NEW xy, NEW p
  PROVE  /\ Record(tag, xy, p).tag = tag /\ Record(tag, xy, p).xy = xy
         /\ Record(tag, xy, p).path = p
BY DEF Record

LEMMA TrackedForms ==
  ASSUME NEW t, NEW p \in Paths
  PROVE  \/ /\ TrackedRecords(t, p) = <<Record("u", <<"U", "U">>, p)>>
            /\ TrackedEntries(t, p) = {Entry("Conflict", <<"U", "U">>, p, Nil)}
         \/ \E q \in Paths :
              /\ TrackedRecords(t, p) = <<Record("2", <<"R", WorkLetter(t, p)>>, p), Bare[q]>>
              /\ TrackedEntries(t, p) = {Entry("Renamed", <<"R", WorkLetter(t, p)>>, p, q)}
         \/ /\ TrackedRecords(t, p) = <<>>
            /\ TrackedEntries(t, p) = {}
         \/ LET letters == <<IndexLetter(t, p), WorkLetter(t, p)>>
            IN /\ TrackedRecords(t, p) = <<Record("1", letters, p)>>
               /\ TrackedEntries(t, p) = {Entry("Ordinary", letters, p, Nil)}
<1> DEFINE letters == <<IndexLetter(t, p), WorkLetter(t, p)>>
<1>1. TrackedRecords(t, p) =
        IF t.index[p] = Unmerged THEN <<Record("u", <<"U", "U">>, p)>>
        ELSE IF Origins(t, p) # {}
        THEN <<Record("2", <<"R", WorkLetter(t, p)>>, p), Bare[CHOOSE q \in Origins(t, p) : TRUE]>>
        ELSE IF IsOrigin(t, p) \/ letters = <<".", ".">> THEN <<>>
        ELSE <<Record("1", letters, p)>>
  BY DEF TrackedRecords, Origins, IsOrigin, WorkLetter, IndexLetter
<1>2. letters = <<".", ".">> <=> IsSame(t, p)
  BY DEF IsSame
<1>3. CASE t.index[p] = Unmerged
  BY <1>1, <1>3 DEF TrackedEntries
<1>4. CASE t.index[p] # Unmerged /\ Origins(t, p) # {}
  <2> DEFINE q == CHOOSE q \in Origins(t, p) : TRUE
  <2>1. q \in Origins(t, p)
    BY <1>4
  <2>2. q \in Paths /\ <<q, p>> \in Moves(t)
    BY <2>1 DEF Origins
  <2>3. TrackedRecords(t, p) = <<Record("2", <<"R", WorkLetter(t, p)>>, p), Bare[q]>>
    BY <1>1, <1>4
  <2> HIDE DEF q
  <2>4. Origins(t, p) = {q}
    <3>1. \A n \in Paths : <<n, p>> \in Moves(t) => n = q
      BY <2>2, MoveUnique
    <3>2. QED
      BY <2>2, <3>1 DEF Origins
  <2>5. TrackedEntries(t, p) = {Entry("Renamed", <<"R", WorkLetter(t, p)>>, p, q)}
    BY <1>4, <2>4 DEF TrackedEntries
  <2>6. QED
    BY <2>2, <2>3, <2>5
<1>5. CASE t.index[p] # Unmerged /\ Origins(t, p) = {}
  <2>1. CASE IsOrigin(t, p) \/ IsSame(t, p)
    BY <1>1, <1>2, <1>5, <2>1 DEF TrackedEntries
  <2>2. CASE ~ (IsOrigin(t, p) \/ IsSame(t, p))
    BY <1>1, <1>2, <1>5, <2>2 DEF TrackedEntries
  <2>3. QED
    BY <2>1, <2>2
<1>6. QED
  BY <1>3, <1>4, <1>5
LEMMA WithIs ==
  ASSUME NEW entries, NEW renamed, NEW e
  PROVE  With([entries |-> entries, renamed |-> renamed, failed |-> FALSE], e)
           = Clear(entries \cup {e})
BY DEF With, Clear

LEMMA ReadRecord ==
  ASSUME NEW entries, NEW xy, NEW p
  PROVE  /\ ParseRecord(Clear(entries), Record("#", xy, p)) = Clear(entries)
         /\ ParseRecord(Clear(entries), Record("?", xy, p))
              = With(Clear(entries), Entry("Untracked", <<".", "?">>, p, Nil))
         /\ ParseRecord(Clear(entries), Record("1", xy, p))
              = With(Clear(entries), Entry("Ordinary", xy, p, Nil))
         /\ ParseRecord(Clear(entries), Record("u", xy, p))
              = With(Clear(entries), Entry("Conflict", <<"U", "U">>, p, Nil))
<1> DEFINE parsed == Clear(entries)
<1>1. parsed.entries = entries /\ parsed.renamed = Nil /\ parsed.failed = FALSE
  BY DEF Clear
<1> HIDE DEF parsed
<1>3. \A r : ParseRecord(parsed, r) =
               CASE r.tag = "#" -> parsed
                 [] r.tag = "?" -> With(parsed, UntrackedEntry(r))
                 [] r.tag = "1" -> With(parsed, OrdinaryEntry(r))
                 [] r.tag = "u" -> With(parsed, ConflictEntry(r))
                 [] r.tag = "2" -> [parsed EXCEPT !.renamed = r]
                 [] OTHER       -> [parsed EXCEPT !.failed = TRUE]
  BY <1>1 DEF ParseRecord
<1>4. ParseRecord(parsed, Record("#", xy, p)) = parsed
  BY <1>3, RecordIs
<1>5. ParseRecord(parsed, Record("?", xy, p)) = With(parsed, UntrackedEntry(Record("?", xy, p)))
  BY <1>3, RecordIs
<1>6. ParseRecord(parsed, Record("1", xy, p)) = With(parsed, OrdinaryEntry(Record("1", xy, p)))
  BY <1>3, RecordIs
<1>7. ParseRecord(parsed, Record("u", xy, p)) = With(parsed, ConflictEntry(Record("u", xy, p)))
  BY <1>3, RecordIs
<1>8. /\ UntrackedEntry(Record("?", xy, p)) = Entry("Untracked", <<".", "?">>, p, Nil)
      /\ OrdinaryEntry(Record("1", xy, p)) = Entry("Ordinary", xy, p, Nil)
      /\ ConflictEntry(Record("u", xy, p)) = Entry("Conflict", <<"U", "U">>, p, Nil)
  BY RecordIs DEF UntrackedEntry, OrdinaryEntry, ConflictEntry
<1>9. QED
  BY <1>4, <1>5, <1>6, <1>7, <1>8 DEF parsed

\* The old name is taken for what it is, even if it reads like a record.
LEMMA ReadRename ==
  ASSUME NEW entries, NEW letter \in Letters, NEW p \in Paths, NEW q \in Paths
  PROVE  LET r == Record("2", <<"R", letter>>, p)
         IN ParseRecord(ParseRecord(Clear(entries), r), Bare[q])
              = Clear(entries \cup {Entry("Renamed", <<"R", letter>>, p, q)})
<1> DEFINE r == Record("2", <<"R", letter>>, p)
           parsed == Clear(entries)
           renaming == ParseRecord(parsed, r)
<1>1. parsed.entries = entries /\ parsed.renamed = Nil /\ parsed.failed = FALSE
  BY DEF Clear
<1>2. r.tag = "2" /\ r.xy = <<"R", letter>> /\ r.path = p
  BY RecordIs
<1>3. r # Nil
  <2>1. r \in [tag : {"2"}, xy : {"R"} \X {".", "A", "D", "M"}, path : Paths]
    BY DEF Record, Letters
  <2>2. QED
    BY <2>1, PanelAssumption
<1>4. parsed = [entries |-> entries, renamed |-> Nil, failed |-> FALSE]
  BY DEF Clear
<1> HIDE DEF r, parsed
<1>5. renaming = [parsed EXCEPT !.renamed = r]
  BY <1>1, <1>2 DEF ParseRecord
<1>6. renaming = [entries |-> entries, renamed |-> r, failed |-> FALSE]
  BY <1>4, <1>5
<1>7. /\ renaming.entries = entries /\ renaming.renamed = r /\ renaming.failed = FALSE
      /\ \A e : With(renaming, e) = Clear(entries \cup {e})
  <2> HIDE DEF renaming
  <2>1. QED
    BY <1>6, WithIs
<1>8. NameOf(Bare[q]) = q
  BY PanelAssumption DEF NameOf, IsInjective
<1> HIDE DEF renaming
<1>9. ParseRecord(renaming, Bare[q]) = With(renaming, RenamedEntry(r, q))
  BY <1>3, <1>7, <1>8 DEF ParseRecord
<1>10. RenamedEntry(r, q) = Entry("Renamed", <<"R", letter>>, p, q)
  <2>1. r.xy[1] = "R" /\ r.xy[2] = letter /\ letter # "C"
    BY <1>2 DEF Letters
  <2>2. QED
    BY <1>2, <2>1 DEF RenamedEntry
<1>11. QED
  BY <1>7, <1>9, <1>10 DEF renaming, r, parsed

LEMMA ReadNext ==
  ASSUME NEW list \in Seq(AllRecords), NEW r \in AllRecords
  PROVE  /\ list \o <<r>> \in Seq(AllRecords)
         /\ ParseStatus(list \o <<r>>) = ParseRecord(ParseStatus(list), r)
<1>1. list \o <<r>> = Append(list, r) /\ Append(list, r) \in Seq(AllRecords)
  OBVIOUS
<1>2. ParseStatus(Append(list, r)) = ParseRecord(ParseStatus(list), r)
  BY ParseNext
<1>3. QED
  BY <1>1, <1>2

LEMMA ReadSingle ==
  ASSUME NEW list \in Seq(AllRecords), NEW r \in AllRecords, NEW entries, IsParsed(list, entries),
         NEW e, ParseRecord(Clear(entries), r) = With(Clear(entries), e)
  PROVE  IsParsed(list \o <<r>>, entries \cup {e})
<1>1. ParseStatus(list \o <<r>>) = ParseRecord(ParseStatus(list), r)
  BY ReadNext
<1>2. With(Clear(entries), e) = Clear(entries \cup {e})
  BY WithIs DEF Clear
<1>3. QED
  BY <1>1, <1>2 DEF IsParsed

LEMMA AreRecords ==
  ASSUME NEW p \in Paths, NEW letter \in Letters, NEW also \in Letters
  PROVE  /\ Record("u", <<"U", "U">>, p) \in AllRecords
         /\ Record("2", <<"R", letter>>, p) \in AllRecords
         /\ Record("1", <<also, letter>>, p) \in AllRecords
         /\ Record("?", <<>>, p) \in AllRecords
         /\ Bare[p] \in AllRecords
<1> DEFINE Pairs == {<<>>} \cup (Letters \cup {"R", "U"}) \X (Letters \cup {"U"})
<1>1. /\ <<"U", "U">> \in Pairs /\ <<"R", letter>> \in Pairs /\ <<also, letter>> \in Pairs
      /\ <<>> \in Pairs
  OBVIOUS
<1> HIDE DEF Pairs
<1>2. \A tag \in {"#", "1", "2", "u", "?"}, xy \in Pairs : Record(tag, xy, p) \in AllRecords
  BY DEF AllRecords, Pairs
<1>3. QED
  BY <1>1, <1>2 DEF AllRecords

LEMMA ReadTracked ==
  ASSUME NEW t, NEW p \in Paths, NEW list \in Seq(AllRecords), NEW entries, IsParsed(list, entries)
  PROVE  IsParsed(list \o TrackedRecords(t, p), entries \cup TrackedEntries(t, p))
<1> DEFINE work == WorkLetter(t, p)
           letters == <<IndexLetter(t, p), work>>
<1>1. work \in Letters /\ IndexLetter(t, p) \in Letters
  BY LettersAre
<1>2. CASE /\ TrackedRecords(t, p) = <<Record("u", <<"U", "U">>, p)>>
           /\ TrackedEntries(t, p) = {Entry("Conflict", <<"U", "U">>, p, Nil)}
  <2>1. Record("u", <<"U", "U">>, p) \in AllRecords
    BY <1>1, AreRecords
  <2> DEFINE e == Entry("Conflict", <<"U", "U">>, p, Nil)
             r == Record("u", <<"U", "U">>, p)
  <2>2. ParseRecord(Clear(entries), r) = With(Clear(entries), e)
    BY ReadRecord
  <2> HIDE DEF e, r
  <2>3. IsParsed(list \o <<r>>, entries \cup {e})
    BY <2>1, <2>2, ReadSingle DEF r
  <2>5. QED
    BY <1>2, <2>3 DEF e, r
<1>3. CASE \E q \in Paths :
              /\ TrackedRecords(t, p) = <<Record("2", <<"R", work>>, p), Bare[q]>>
              /\ TrackedEntries(t, p) = {Entry("Renamed", <<"R", work>>, p, q)}
  <2>1. PICK q \in Paths :
              /\ TrackedRecords(t, p) = <<Record("2", <<"R", work>>, p), Bare[q]>>
              /\ TrackedEntries(t, p) = {Entry("Renamed", <<"R", work>>, p, q)}
    BY <1>3
  <2> DEFINE r == Record("2", <<"R", work>>, p)
             one == list \o <<r>>
             both == one \o <<Bare[q]>>
  <2>2. r \in AllRecords /\ Bare[q] \in AllRecords
    BY <1>1, AreRecords
  <2> HIDE DEF r
  <2>3. one \in Seq(AllRecords) /\ ParseStatus(one) = ParseRecord(Clear(entries), r)
    BY <2>2, ReadNext DEF IsParsed
  <2>4. ParseStatus(both) = ParseRecord(ParseRecord(Clear(entries), r), Bare[q])
    BY <2>2, <2>3, ReadNext
  <2>5. ParseStatus(both) = Clear(entries \cup TrackedEntries(t, p))
    BY <1>1, <2>1, <2>4, ReadRename DEF r
  <2>6. both = list \o <<r, Bare[q]>>
    <3>1. <<r, Bare[q]>> = <<r>> \o <<Bare[q]>>
      OBVIOUS
    <3>2. <<r>> \in Seq(AllRecords) /\ <<Bare[q]>> \in Seq(AllRecords)
      BY <2>2
    <3>3. QED
      BY <3>1, <3>2, ConcatAssociative
  <2>7. QED
    BY <2>1, <2>5, <2>6 DEF IsParsed, r
<1>4. CASE TrackedRecords(t, p) = <<>> /\ TrackedEntries(t, p) = {}
  <2>1. list \o <<>> = list /\ entries \cup {} = entries
    OBVIOUS
  <2>2. QED
    BY <1>4, <2>1
<1>5. CASE /\ TrackedRecords(t, p) = <<Record("1", letters, p)>>
           /\ TrackedEntries(t, p) = {Entry("Ordinary", letters, p, Nil)}
  <2>1. Record("1", letters, p) \in AllRecords
    BY <1>1, AreRecords
  <2> HIDE DEF letters
  <2> DEFINE e == Entry("Ordinary", letters, p, Nil)
             r == Record("1", letters, p)
  <2>2. ParseRecord(Clear(entries), r) = With(Clear(entries), e)
    BY ReadRecord
  <2> HIDE DEF e, r
  <2>3. IsParsed(list \o <<r>>, entries \cup {e})
    BY <2>1, <2>2, ReadSingle DEF r
  <2>5. QED
    BY <1>5, <2>3 DEF e, r
<1>6. QED
  BY <1>2, <1>3, <1>4, <1>5, TrackedForms

LEMMA ReadUntracked ==
  ASSUME NEW t, NEW p \in Paths, NEW list \in Seq(AllRecords), NEW entries, IsParsed(list, entries)
  PROVE  IsParsed(list \o UntrackedRecords(t, p), entries \cup UntrackedEntries(t, p))
<1>1. CASE t.index[p] = Nil /\ t.work[p] # Nil
  <2>1. Record("?", <<>>, p) \in AllRecords
    <3>1. "." \in Letters
      BY DEF Letters
    <3>2. QED
      BY <3>1, AreRecords
  <2>2. /\ UntrackedRecords(t, p) = <<Record("?", <<>>, p)>>
        /\ UntrackedEntries(t, p) = {Entry("Untracked", <<".", "?">>, p, Nil)}
    BY <1>1 DEF UntrackedRecords, UntrackedEntries
  <2> DEFINE e == Entry("Untracked", <<".", "?">>, p, Nil)
             r == Record("?", <<>>, p)
  <2>3. ParseRecord(Clear(entries), r) = With(Clear(entries), e)
    BY ReadRecord
  <2> HIDE DEF e, r
  <2>4. IsParsed(list \o <<r>>, entries \cup {e})
    BY <2>1, <2>3, ReadSingle DEF r
  <2>5. QED
    BY <2>2, <2>4 DEF e, r
<1>2. CASE ~ (t.index[p] = Nil /\ t.work[p] # Nil)
  <2>1. UntrackedRecords(t, p) = <<>> /\ UntrackedEntries(t, p) = {}
    BY <1>2 DEF UntrackedRecords, UntrackedEntries
  <2>2. list \o <<>> = list /\ entries \cup {} = entries
    OBVIOUS
  <2>3. QED
    BY <2>1, <2>2
<1>3. QED
  BY <1>1, <1>2

LEMMA RecordsTyped ==
  ASSUME NEW t, NEW p \in Paths
  PROVE  TrackedRecords(t, p) \in Seq(AllRecords) /\ UntrackedRecords(t, p) \in Seq(AllRecords)
<1>1. WorkLetter(t, p) \in Letters /\ IndexLetter(t, p) \in Letters
  BY LettersAre
<1> DEFINE work == WorkLetter(t, p)
           letters == <<IndexLetter(t, p), work>>
<1>2. /\ Record("u", <<"U", "U">>, p) \in AllRecords
      /\ Record("2", <<"R", work>>, p) \in AllRecords
      /\ Record("1", letters, p) \in AllRecords
      /\ Record("?", <<>>, p) \in AllRecords
      /\ \A q \in Paths : Bare[q] \in AllRecords
  BY <1>1, AreRecords
<1>3. TrackedRecords(t, p) \in Seq(AllRecords)
  <2>1. \A r, s \in AllRecords : <<r>> \in Seq(AllRecords) /\ <<r, s>> \in Seq(AllRecords)
    OBVIOUS
  <2>2. <<>> \in Seq(AllRecords)
    OBVIOUS
  <2> HIDE DEF letters, work
  <2>3. QED
    BY <1>2, <2>1, <2>2, TrackedForms DEF letters, work
<1>4. UntrackedRecords(t, p) \in Seq(AllRecords)
  BY <1>2 DEF UntrackedRecords
<1>5. QED
  BY <1>3, <1>4

\* What a list of records adds to the entries read before it.
Adds(records, entries) ==
  \A list \in Seq(AllRecords) : \A before :
    IsParsed(list, before) => IsParsed(list \o records, before \cup entries)

LEMMA ReadFlat ==
  ASSUME NEW seqs \in Seq(Seq(AllRecords)), NEW added,
         \A i \in 1..Len(seqs) : Adds(seqs[i], added[i])
  PROVE  /\ FlattenSeq(seqs) \in Seq(AllRecords)
         /\ Adds(FlattenSeq(seqs), UNION {added[i] : i \in 1..Len(seqs)})
<1> DEFINE n == Len(seqs)
           Sum(k) == UNION {added[i] : i \in 1..k}
<1>1. PICK flat \in [0..n -> Seq(AllRecords)] : IsFlat(flat, seqs) /\ FlattenSeq(seqs) = flat[n]
  BY FlattenParts
<1>2. n \in Nat /\ \A i \in 1..n : seqs[i] \in Seq(AllRecords)
  OBVIOUS
<1>3. flat[0] = <<>> /\ \A i \in 1..n : flat[i] = flat[i - 1] \o seqs[i]
  BY <1>1 DEF IsFlat
<1>4. Sum(0) = {}
  OBVIOUS
<1>5. \A k \in Nat : Sum(k + 1) = Sum(k) \cup added[k + 1]
  <2> SUFFICES ASSUME NEW k \in Nat PROVE Sum(k + 1) = Sum(k) \cup added[k + 1]
    OBVIOUS
  <2>1. \A i : i \in 1..(k + 1) <=> i \in 1..k \/ i = k + 1
    OBVIOUS
  <2>2. QED
    BY <2>1
<1> HIDE DEF n, Sum
<1> DEFINE T == {k \in Nat : k <= n => Adds(flat[k], Sum(k))}
<1>6. 0 \in T
  <2>1. Adds(<<>>, {})
    BY DEF Adds
  <2>2. QED
    BY <1>3, <1>4, <2>1
<1>7. ASSUME NEW k \in Nat, k \in T PROVE k + 1 \in T
  <2> SUFFICES ASSUME k + 1 <= n PROVE Adds(flat[k + 1], Sum(k + 1))
    OBVIOUS
  <2>1. k + 1 \in 1..n /\ (k + 1) - 1 = k /\ k \in 0..n
    BY <1>2
  <2>2. flat[k + 1] = flat[k] \o seqs[k + 1]
    BY <1>3, <2>1
  <2>3. flat[k] \in Seq(AllRecords) /\ seqs[k + 1] \in Seq(AllRecords)
    BY <1>2, <2>1
  <2>4. Adds(flat[k], Sum(k))
    BY <1>7, <2>1, <1>2
  <2>5. Adds(seqs[k + 1], added[k + 1])
    BY <2>1 DEF n
  <2>6. ASSUME NEW list \in Seq(AllRecords), NEW before, IsParsed(list, before)
        PROVE  IsParsed(list \o flat[k + 1], before \cup Sum(k + 1))
    <3>1. list \o flat[k] \in Seq(AllRecords)
      BY <2>3
    <3>2. IsParsed(list \o flat[k], before \cup Sum(k))
      BY <2>4, <2>6 DEF Adds
    <3>3. IsParsed((list \o flat[k]) \o seqs[k + 1], (before \cup Sum(k)) \cup added[k + 1])
      BY <2>5, <3>1, <3>2 DEF Adds
    <3>4. (list \o flat[k]) \o seqs[k + 1] = list \o flat[k + 1]
      <4>1. (list \o flat[k]) \o seqs[k + 1] = list \o (flat[k] \o seqs[k + 1])
        <5> DEFINE a == flat[k]
                   b == seqs[k + 1]
        <5>1. a \in Seq(AllRecords) /\ b \in Seq(AllRecords)
          BY <2>3
        <5> HIDE DEF a, b
        <5>2. (list \o a) \o b = list \o (a \o b)
          BY <5>1, ConcatAssociative
        <5>3. QED
          BY <5>2 DEF a, b
      <4>2. QED
        BY <2>2, <4>1
    <3>5. (before \cup Sum(k)) \cup added[k + 1] = before \cup Sum(k + 1)
      BY <1>5
    <3>6. QED
      BY <3>3, <3>4, <3>5
  <2>7. QED
    BY <2>6 DEF Adds
<1> HIDE DEF T
<1>8. Nat \subseteq T
  BY <1>6, <1>7, SetInduction
<1>9. Adds(flat[n], Sum(n))
  BY <1>2, <1>8 DEF T
<1>10. QED
  BY <1>1, <1>2, <1>9 DEF n, Sum

LEMMA PathsAre ==
  /\ Len(PathOrder) \in Nat /\ DOMAIN PathOrder = 1..Len(PathOrder)
  /\ \A i \in 1..Len(PathOrder) : PathOrder[i] \in Paths
  /\ \A p \in Paths : \E i \in 1..Len(PathOrder) : p = PathOrder[i]
<1>1. PathOrder \in Seq(Paths)
  BY PanelAssumption
<1>2. Len(PathOrder) \in Nat /\ DOMAIN PathOrder = 1..Len(PathOrder)
  BY <1>1
<1>3. QED
  BY <1>1, <1>2 DEF Paths, Range

\* Git's report is read to its end, whatever the names of the paths.
LEMMA ReadPorcelain ==
  ASSUME NEW t
  PROVE  ParseStatus(Porcelain(t)) = Clear(Reported(t))
<1> DEFINE n == Len(PathOrder)
           tracked == [i \in 1..n |-> TrackedRecords(t, PathOrder[i])]
           untracked == [i \in 1..n |-> UntrackedRecords(t, PathOrder[i])]
           oneside == [i \in 1..n |-> TrackedEntries(t, PathOrder[i])]
           otherside == [i \in 1..n |-> UntrackedEntries(t, PathOrder[i])]
           header == Record("#", <<>>, Nil)
<1>1. n \in Nat /\ DOMAIN PathOrder = 1..n /\ \A i \in 1..n : PathOrder[i] \in Paths
  BY PathsAre
<1>2. Porcelain(t) = <<header>> \o FlattenSeq(tracked) \o FlattenSeq(untracked)
  BY <1>1 DEF Porcelain, OfEachPath
<1>3. /\ \A i \in 1..n : tracked[i] = TrackedRecords(t, PathOrder[i])
      /\ \A i \in 1..n : untracked[i] = UntrackedRecords(t, PathOrder[i])
      /\ \A i \in 1..n : oneside[i] = TrackedEntries(t, PathOrder[i])
      /\ \A i \in 1..n : otherside[i] = UntrackedEntries(t, PathOrder[i])
  OBVIOUS
<1>4. /\ tracked \in Seq(Seq(AllRecords)) /\ Len(tracked) = n
      /\ untracked \in Seq(Seq(AllRecords)) /\ Len(untracked) = n
  <2>1. \A i \in 1..n : /\ TrackedRecords(t, PathOrder[i]) \in Seq(AllRecords)
                        /\ UntrackedRecords(t, PathOrder[i]) \in Seq(AllRecords)
    BY <1>1, RecordsTyped
  <2> DEFINE V == Seq(AllRecords)
  <2>2. tracked \in [1..n -> V] /\ untracked \in [1..n -> V]
    BY <2>1
  <2> HIDE DEF V, tracked, untracked, n
  <2>3. QED
    BY <1>1, <2>2 DEF V
<1> HIDE DEF tracked, untracked, oneside, otherside
<1>5. \A i \in 1..n : Adds(tracked[i], oneside[i]) /\ Adds(untracked[i], otherside[i])
  BY <1>1, <1>3, ReadTracked, ReadUntracked DEF Adds
<1>6. /\ FlattenSeq(tracked) \in Seq(AllRecords)
      /\ Adds(FlattenSeq(tracked), UNION {oneside[i] : i \in 1..n})
  BY <1>4, <1>5, ReadFlat
<1>7. /\ FlattenSeq(untracked) \in Seq(AllRecords)
      /\ Adds(FlattenSeq(untracked), UNION {otherside[i] : i \in 1..n})
  BY <1>4, <1>5, ReadFlat
<1>8. header \in AllRecords /\ <<>> \in Seq(AllRecords)
  <2>1. <<>> \in {<<>>} \cup (Letters \cup {"R", "U"}) \X (Letters \cup {"U"})
    OBVIOUS
  <2>2. header \in AllRecords
    BY <2>1 DEF AllRecords
  <2>3. QED
    BY <2>2
<1>9. IsParsed(<<header>>, {})
  <2> DEFINE none == <<>>
  <2>1. none \in Seq(AllRecords) /\ none \o <<header>> = <<header>>
    BY <1>8
  <2> HIDE DEF header
  <2>2. ParseStatus(none \o <<header>>) = ParseRecord(ParseStatus(none), header)
    BY <1>8, <2>1, ReadNext
  <2>3. ParseStatus(none) = Clear({})
    BY ParseNone DEF Nothing, Clear
  <2>4. ParseRecord(Clear({}), header) = Clear({})
    BY ReadRecord DEF header
  <2>5. QED
    BY <2>1, <2>2, <2>3, <2>4 DEF IsParsed
<1>10. <<header>> \in Seq(AllRecords)
  BY <1>8
<1> HIDE DEF header
<1>11. IsParsed(<<header>> \o FlattenSeq(tracked), {} \cup UNION {oneside[i] : i \in 1..n})
  BY <1>6, <1>9, <1>10 DEF Adds
<1>12. <<header>> \o FlattenSeq(tracked) \in Seq(AllRecords)
  BY <1>6, <1>10
<1>13. IsParsed(Porcelain(t), ({} \cup UNION {oneside[i] : i \in 1..n}) \cup UNION {otherside[i] : i \in 1..n})
  BY <1>2, <1>7, <1>11, <1>12 DEF Adds
<1>14. ({} \cup UNION {oneside[i] : i \in 1..n}) \cup UNION {otherside[i] : i \in 1..n} = Reported(t)
  BY <1>1, <1>3, PathsAre DEF Reported, EntriesOf
<1>15. QED
  BY <1>13, <1>14 DEF IsParsed

-----------------------------------------------------------------------------
(***************************************************************************)
(* The rows of the list.                                                   *)
(***************************************************************************)
Alone(section, p) == Row(section, p, Nil, {p})
Renaming(q, p) == Row("Staged", p, q, {q, p})
Renamed(q, p) == Row("Unstaged", p, q, {p})

\* The rows that stand for the path p in a worktree.
HasRow(t, p, r) ==
  \/ t.index[p] = Unmerged /\ r = Alone("Conflict", p)
  \/ t.index[p] # Unmerged /\ \E q \in Origins(t, p) : r = Renaming(q, p)
  \/ /\ t.index[p] # Unmerged /\ Origins(t, p) = {} /\ ~IsOrigin(t, p)
     /\ IndexLetter(t, p) # "." /\ r = Alone("Staged", p)
  \/ /\ t.index[p] # Unmerged /\ WorkLetter(t, p) # "."
     /\ \/ \E q \in Origins(t, p) : r = Renamed(q, p)
        \/ Origins(t, p) = {} /\ ~IsOrigin(t, p) /\ r = Alone("Unstaged", p)
  \/ t.index[p] = Nil /\ t.work[p] # Nil /\ r = Alone("Untracked", p)

ReportedRows(t) == UNION {RowsOf(e) : e \in Reported(t)}

LEMMA EntryIs ==
  ASSUME NEW type, NEW a, NEW b, NEW p, NEW q
  PROVE  LET e == Entry(type, <<a, b>>, p, q)
         IN e.type = type /\ e.index = a /\ e.worktree = b /\ e.path = p /\ e.original = q
BY DEF Entry

LEMMA RowIs ==
  /\ \A section, p : Alone(section, p).section = section /\ Alone(section, p).path = p
  /\ \A q, p : Renaming(q, p).section = "Staged" /\ Renaming(q, p).path = p
  /\ \A q, p : Renamed(q, p).section = "Unstaged" /\ Renamed(q, p).path = p
BY DEF Row, Alone, Renaming, Renamed

LEMMA SpecsAre ==
  /\ \A section, p, n : n \in Alone(section, p).specs <=> n = p
  /\ \A q, p, n : n \in Renaming(q, p).specs <=> n = q \/ n = p
  /\ \A q, p, n : n \in Renamed(q, p).specs <=> n = p
BY DEF Row, Alone, Renaming, Renamed

LEMMA SidesAre ==
  ASSUME NEW e, e.type \notin {"Conflict", "Untracked"}, NEW s
  PROVE  s \in SectionsOf(e) <=> \/ s = "Staged" /\ e.index # "."
                                 \/ s = "Unstaged" /\ e.worktree # "."
BY DEF SectionsOf

LEMMA EntryRows ==
  ASSUME NEW a, NEW b, NEW p, NEW q, NEW r
  PROVE  /\ r \in RowsOf(Entry("Conflict", <<a, b>>, p, Nil)) <=> r = Alone("Conflict", p)
         /\ r \in RowsOf(Entry("Untracked", <<a, b>>, p, Nil)) <=> r = Alone("Untracked", p)
         /\ r \in RowsOf(Entry("Ordinary", <<a, b>>, p, Nil)) <=>
              \/ a # "." /\ r = Alone("Staged", p)
              \/ b # "." /\ r = Alone("Unstaged", p)
         /\ r \in RowsOf(Entry("Renamed", <<a, b>>, p, q)) <=>
              \/ a # "." /\ r = Renaming(q, p)
              \/ b # "." /\ r = Renamed(q, p)
<1>1. ASSUME NEW e
      PROVE  r \in RowsOf(e) <=> \E s \in SectionsOf(e) : r = Row(s, e.path, e.original, Pathspecs(e, s))
  BY DEF RowsOf
<1>2. r \in RowsOf(Entry("Conflict", <<a, b>>, p, Nil)) <=> r = Alone("Conflict", p)
  <2> DEFINE e == Entry("Conflict", <<a, b>>, p, Nil)
  <2>1. e.type = "Conflict" /\ e.path = p /\ e.original = Nil
    BY EntryIs
  <2> HIDE DEF e
  <2>2. SectionsOf(e) = {"Conflict"} /\ Pathspecs(e, "Conflict") = {p}
    BY <2>1 DEF SectionsOf, Pathspecs
  <2>3. QED
    BY <1>1, <2>1, <2>2 DEF e, Alone, Renaming, Renamed
<1>3. r \in RowsOf(Entry("Untracked", <<a, b>>, p, Nil)) <=> r = Alone("Untracked", p)
  <2> DEFINE e == Entry("Untracked", <<a, b>>, p, Nil)
  <2>1. e.type = "Untracked" /\ e.path = p /\ e.original = Nil
    BY EntryIs
  <2> HIDE DEF e
  <2>2. SectionsOf(e) = {"Untracked"} /\ Pathspecs(e, "Untracked") = {p}
    BY <2>1 DEF SectionsOf, Pathspecs
  <2>3. QED
    BY <1>1, <2>1, <2>2 DEF e, Alone, Renaming, Renamed
<1>4. r \in RowsOf(Entry("Ordinary", <<a, b>>, p, Nil)) <=>
        \/ a # "." /\ r = Alone("Staged", p)
        \/ b # "." /\ r = Alone("Unstaged", p)
  <2> DEFINE e == Entry("Ordinary", <<a, b>>, p, Nil)
  <2>1. e.type = "Ordinary" /\ e.path = p /\ e.original = Nil /\ e.index = a /\ e.worktree = b
    BY EntryIs
  <2> HIDE DEF e
  <2>2. \A s : Pathspecs(e, s) = {p}
    BY <2>1 DEF Pathspecs
  <2>3. \A s : s \in SectionsOf(e) <=> (s = "Staged" /\ a # ".") \/ (s = "Unstaged" /\ b # ".")
    BY <2>1, SidesAre
  <2>4. QED
    BY <1>1, <2>1, <2>2, <2>3 DEF e, Alone, Renaming, Renamed
<1>5. r \in RowsOf(Entry("Renamed", <<a, b>>, p, q)) <=>
        \/ a # "." /\ r = Renaming(q, p)
        \/ b # "." /\ r = Renamed(q, p)
  <2> DEFINE e == Entry("Renamed", <<a, b>>, p, q)
  <2>1. e.type = "Renamed" /\ e.path = p /\ e.index = a /\ e.worktree = b /\ e.original = q
    BY EntryIs
  <2> HIDE DEF e
  <2>2. Pathspecs(e, "Staged") = {q, p} /\ Pathspecs(e, "Unstaged") = {p}
    BY <2>1 DEF Pathspecs
  <2>3. \A s : s \in SectionsOf(e) <=> (s = "Staged" /\ a # ".") \/ (s = "Unstaged" /\ b # ".")
    BY <2>1, SidesAre
  <2>4. QED
    BY <1>1, <2>1, <2>2, <2>3 DEF e, Alone, Renaming, Renamed
<1>6. QED
  BY <1>2, <1>3, <1>4, <1>5

LEMMA PathRows ==
  ASSUME NEW t, NEW p \in Paths, NEW r
  PROVE  (\E e \in EntriesOf(t, p) : r \in RowsOf(e)) <=> HasRow(t, p, r)
<1> DEFINE work == WorkLetter(t, p)
           index == IndexLetter(t, p)
<1>1. (\E e \in UntrackedEntries(t, p) : r \in RowsOf(e))
        <=> t.index[p] = Nil /\ t.work[p] # Nil /\ r = Alone("Untracked", p)
  BY EntryRows DEF UntrackedEntries
<1>2. CASE t.index[p] = Unmerged
  <2>1. TrackedEntries(t, p) = {Entry("Conflict", <<"U", "U">>, p, Nil)}
    BY <1>2 DEF TrackedEntries
  <2>2. (\E e \in TrackedEntries(t, p) : r \in RowsOf(e)) <=> r = Alone("Conflict", p)
    BY <2>1, EntryRows
  <2>3. QED
    BY <1>1, <1>2, <2>2 DEF EntriesOf, HasRow
<1>3. CASE t.index[p] # Unmerged /\ Origins(t, p) # {}
  <2>1. TrackedEntries(t, p) = {Entry("Renamed", <<"R", work>>, p, q) : q \in Origins(t, p)}
    BY <1>3 DEF TrackedEntries
  <2>2. (\E e \in TrackedEntries(t, p) : r \in RowsOf(e)) <=>
          \E q \in Origins(t, p) : r \in RowsOf(Entry("Renamed", <<"R", work>>, p, q))
    BY <2>1
  <2>3. \A q : r \in RowsOf(Entry("Renamed", <<"R", work>>, p, q)) <=>
                 \/ r = Renaming(q, p)
                 \/ work # "." /\ r = Renamed(q, p)
    BY EntryRows
  <2>4. QED
    BY <1>1, <1>3, <2>2, <2>3 DEF EntriesOf, HasRow
<1>4. CASE t.index[p] # Unmerged /\ Origins(t, p) = {} /\ (IsOrigin(t, p) \/ IsSame(t, p))
  <2>1. TrackedEntries(t, p) = {}
    BY <1>4 DEF TrackedEntries
  <2>2. IsSame(t, p) => work = "." /\ index = "."
    BY DEF IsSame
  <2>3. QED
    BY <1>1, <1>4, <2>1, <2>2 DEF EntriesOf, HasRow
<1>5. CASE t.index[p] # Unmerged /\ Origins(t, p) = {} /\ ~IsOrigin(t, p) /\ ~IsSame(t, p)
  <2>1. TrackedEntries(t, p) = {Entry("Ordinary", <<index, work>>, p, Nil)}
    BY <1>5 DEF TrackedEntries
  <2>2. (\E e \in TrackedEntries(t, p) : r \in RowsOf(e)) <=>
                 \/ index # "." /\ r = Alone("Staged", p)
                 \/ work # "." /\ r = Alone("Unstaged", p)
    BY <2>1, EntryRows
  <2>3. QED
    BY <1>1, <1>5, <2>2 DEF EntriesOf, HasRow
<1>6. QED
  BY <1>2, <1>3, <1>4, <1>5

LEMMA RowsReported ==
  ASSUME NEW t, NEW r
  PROVE  r \in ReportedRows(t) <=> \E p \in Paths : HasRow(t, p, r)
<1>1. r \in ReportedRows(t) <=> \E p \in Paths : \E e \in EntriesOf(t, p) : r \in RowsOf(e)
  BY DEF ReportedRows, Reported
<1>2. QED
  BY <1>1, PathRows

LEMMA RowForms ==
  ASSUME NEW t, NEW p, NEW r, HasRow(t, p, r)
  PROVE  /\ r.path = p
         /\ \/ r.section = "Conflict" /\ r = Alone("Conflict", p)
            \/ r.section = "Staged" /\ Origins(t, p) = {} /\ r = Alone("Staged", p)
            \/ r.section = "Staged" /\ \E q \in Origins(t, p) : r = Renaming(q, p)
            \/ r.section = "Unstaged" /\ Origins(t, p) = {} /\ r = Alone("Unstaged", p)
            \/ r.section = "Unstaged" /\ \E q \in Origins(t, p) : r = Renamed(q, p)
            \/ r.section = "Untracked" /\ r = Alone("Untracked", p)
<1>1. \A s : Alone(s, p).section = s /\ Alone(s, p).path = p
  BY RowIs
<1>2. \A q : /\ Renaming(q, p).section = "Staged" /\ Renaming(q, p).path = p
             /\ Renamed(q, p).section = "Unstaged" /\ Renamed(q, p).path = p
  BY RowIs
<1>3. QED
  BY <1>1, <1>2 DEF HasRow

\* At most one row for a path on a side.
LEMMA RowUnique ==
  ASSUME NEW t, NEW p \in Paths, NEW q \in Paths, NEW r, NEW s, HasRow(t, p, r), HasRow(t, q, s),
         r.section = s.section, r.path = s.path
  PROVE  r = s
<1>1. p = q
  BY RowForms
<1>2. \A m, n \in Origins(t, p) : m = n
  BY MoveUnique DEF Origins
<1>3. QED
  <2>1. HasRow(t, p, s)
    BY <1>1
  <2>2. /\ \/ r.section = "Conflict" /\ r = Alone("Conflict", p)
           \/ r.section = "Staged" /\ Origins(t, p) = {} /\ r = Alone("Staged", p)
           \/ r.section = "Staged" /\ \E n \in Origins(t, p) : r = Renaming(n, p)
           \/ r.section = "Unstaged" /\ Origins(t, p) = {} /\ r = Alone("Unstaged", p)
           \/ r.section = "Unstaged" /\ \E n \in Origins(t, p) : r = Renamed(n, p)
           \/ r.section = "Untracked" /\ r = Alone("Untracked", p)
    BY RowForms
  <2>3. /\ \/ s.section = "Conflict" /\ s = Alone("Conflict", p)
           \/ s.section = "Staged" /\ Origins(t, p) = {} /\ s = Alone("Staged", p)
           \/ s.section = "Staged" /\ \E n \in Origins(t, p) : s = Renaming(n, p)
           \/ s.section = "Unstaged" /\ Origins(t, p) = {} /\ s = Alone("Unstaged", p)
           \/ s.section = "Unstaged" /\ \E n \in Origins(t, p) : s = Renamed(n, p)
           \/ s.section = "Untracked" /\ s = Alone("Untracked", p)
    BY <2>1, RowForms
  <2>4. QED
    BY <1>2, <2>2, <2>3

LEMMA SmallSet ==
  ASSUME NEW T, \A x, y \in T : x = y
  PROVE  SetToSeq(T) \in Seq(T) /\ Members(SetToSeq(T)) = T
<1> DEFINE list == SetToSeq(T)
<1>1. CASE T = {}
  <2>1. Cardinality(T) = 0
    BY <1>1, FS_EmptySet
  <2>2. [i \in 1..0 |-> i] \in [1..0 -> T] /\ IsInjective([i \in 1..0 |-> i])
    BY DEF IsInjective
  <2>3. list \in [1..0 -> T]
    BY <2>1, <2>2 DEF SetToSeq
  <2> HIDE DEF list
  <2>4. list \in Seq(T) /\ Len(list) = 0
    BY <2>3
  <2>5. QED
    BY <1>1, <2>4 DEF Members, list
<1>2. CASE \E x : T = {x}
  <2>1. PICK x : T = {x}
    BY <1>2
  <2>2. Cardinality(T) = 1
    BY <2>1, FS_Singleton
  <2>3. [i \in 1..1 |-> x] \in [1..1 -> T] /\ IsInjective([i \in 1..1 |-> x])
    BY <2>1 DEF IsInjective
  <2>4. list \in [1..1 -> T]
    BY <2>2, <2>3 DEF SetToSeq
  <2> HIDE DEF list
  <2>5. list \in Seq(T) /\ Len(list) = 1 /\ list[1] = x
    BY <2>1, <2>4
  <2>6. Members(list) = {x}
    BY <2>5 DEF Members
  <2>7. QED
    BY <2>1, <2>5, <2>6 DEF list
<1>3. QED
  BY <1>1, <1>2

\* A list that is sorted holds what it was made of.
LEMMA RowsListed ==
  ASSUME NEW entries, NEW rows, rows = UNION {RowsOf(e) : e \in entries},
         \A r \in rows : r.section \in {"Conflict", "Staged", "Unstaged", "Untracked"} /\ r.path \in Paths,
         \A r, s \in rows : r.section = s.section /\ r.path = s.path => r = s
  PROVE  FileRows(entries) \in Seq(rows) /\ Members(FileRows(entries)) = rows
<1> DEFINE n == Len(PathOrder)
           At(section, p) == SetToSeq({r \in rows : r.section = section /\ r.path = p})
           One(section) == FlattenSeq([i \in 1..n |-> At(section, PathOrder[i])])
           all == [i \in 1..4 |-> One(Sections[i])]
<1>1. n \in Nat /\ DOMAIN PathOrder = 1..n /\ \A i \in 1..n : PathOrder[i] \in Paths
  BY PathsAre
<1>2. /\ DOMAIN Sections = 1..4
      /\ Sections[1] = "Conflict" /\ Sections[2] = "Staged" /\ Sections[3] = "Unstaged"
      /\ Sections[4] = "Untracked"
  BY DEF Sections
<1>3. FileRows(entries) = FlattenSeq(all)
  BY <1>1, <1>2 DEF FileRows, OfEachPath
<1>4. ASSUME NEW section, NEW p
      PROVE  /\ At(section, p) \in Seq(rows)
             /\ Members(At(section, p)) = {r \in rows : r.section = section /\ r.path = p}
  <2> DEFINE T == {r \in rows : r.section = section /\ r.path = p}
  <2>1. SetToSeq(T) \in Seq(T) /\ Members(SetToSeq(T)) = T
    BY SmallSet
  <2>2. Seq(T) \subseteq Seq(rows)
    OBVIOUS
  <2>3. QED
    BY <2>1, <2>2
<1> HIDE DEF At
<1>5. ASSUME NEW section
      PROVE  /\ One(section) \in Seq(rows)
             /\ \A x : x \in Members(One(section)) <=> x \in rows /\ x.section = section
  <2> DEFINE seqs == [i \in 1..n |-> At(section, PathOrder[i])]
             V == Seq(rows)
  <2>1. seqs \in [1..n -> V] /\ \A i \in 1..n : seqs[i] = At(section, PathOrder[i])
    BY <1>4
  <2> HIDE DEF seqs, V, n
  <2>2. seqs \in Seq(Seq(rows)) /\ Len(seqs) = n
    BY <1>1, <2>1 DEF V
  <2>3. /\ FlattenSeq(seqs) \in Seq(rows)
        /\ \A x : x \in Members(FlattenSeq(seqs)) <=> \E i \in 1..n : x \in Members(seqs[i])
    BY <2>2, FlattenMembers
  <2>4. \A x : (\E i \in 1..n : x \in Members(seqs[i])) <=> x \in rows /\ x.section = section
    <3>1. ASSUME NEW i \in 1..n, NEW x
          PROVE  x \in Members(seqs[i])
                   <=> x \in rows /\ x.section = section /\ x.path = PathOrder[i]
      <4> DEFINE p == PathOrder[i]
      <4>1. seqs[i] = At(section, p)
        BY <2>1
      <4> HIDE DEF p
      <4>2. Members(At(section, p)) = {r \in rows : r.section = section /\ r.path = p}
        BY <1>4
      <4>3. QED
        BY <4>1, <4>2 DEF p
    <3>2. \A x \in rows : \E i \in 1..n : x.path = PathOrder[i]
      BY PathsAre DEF n
    <3>3. QED
      BY <3>1, <3>2
  <2>5. QED
    BY <2>3, <2>4 DEF seqs, n
<1> HIDE DEF One
<1>6. all \in Seq(Seq(rows)) /\ Len(all) = 4
  <2> DEFINE V == Seq(rows)
  <2>1. all \in [1..4 -> V]
    BY <1>5
  <2> HIDE DEF all, V
  <2>2. all \in Seq(V) /\ Len(all) = 4
    BY <2>1
  <2>3. QED
    BY <2>2 DEF V
<1>7. \A i \in 1..4 : all[i] = One(Sections[i])
  OBVIOUS
<1> HIDE DEF all
<1>8. /\ FlattenSeq(all) \in Seq(rows)
      /\ \A x : x \in Members(FlattenSeq(all)) <=> \E i \in 1..4 : x \in Members(all[i])
  BY <1>6, FlattenMembers
<1>9. \A x : (\E i \in 1..4 : x \in Members(all[i])) <=> x \in rows
  <2>1. \A x, i : i \in 1..4 => (x \in Members(all[i]) <=> x \in rows /\ x.section = Sections[i])
    BY <1>5, <1>7
  <2>2. QED
    BY <1>2, <2>1
<1>10. QED
  BY <1>3, <1>8, <1>9

ListOf(t) == FileRows(ParseStatus(Porcelain(t)).entries)

LEMMA ListIsExact ==
  ASSUME NEW t
  PROVE  /\ IsStatus(ParseStatus(Porcelain(t)))
         /\ ListOf(t) \in Seq(ReportedRows(t))
         /\ Members(ListOf(t)) = ReportedRows(t)
<1> DEFINE rows == ReportedRows(t)
<1>1. ParseStatus(Porcelain(t)) = Clear(Reported(t))
  BY ReadPorcelain
<1>2. IsStatus(Clear(Reported(t))) /\ Clear(Reported(t)).entries = Reported(t)
  BY DEF Clear, IsStatus
<1>3. rows = UNION {RowsOf(e) : e \in Reported(t)}
  BY DEF ReportedRows
<1>4. \A r \in rows : r.section \in {"Conflict", "Staged", "Unstaged", "Untracked"} /\ r.path \in Paths
  <2> SUFFICES ASSUME NEW r \in rows
               PROVE  r.section \in {"Conflict", "Staged", "Unstaged", "Untracked"} /\ r.path \in Paths
    OBVIOUS
  <2>1. PICK p \in Paths : HasRow(t, p, r)
    BY RowsReported
  <2>2. QED
    BY <2>1, RowForms
<1>5. \A r, s \in rows : r.section = s.section /\ r.path = s.path => r = s
  <2> SUFFICES ASSUME NEW r \in rows, NEW s \in rows, r.section = s.section, r.path = s.path
               PROVE  r = s
    OBVIOUS
  <2>1. PICK p \in Paths : HasRow(t, p, r)
    BY RowsReported
  <2>2. PICK q \in Paths : HasRow(t, q, s)
    BY RowsReported
  <2>3. QED
    BY <2>1, <2>2, RowUnique
<1> HIDE DEF rows
<1>6. FileRows(Reported(t)) \in Seq(rows) /\ Members(FileRows(Reported(t))) = rows
  BY <1>3, <1>4, <1>5, RowsListed
<1>7. QED
  BY <1>1, <1>2, <1>6 DEF ListOf, rows

LEMMA RangeOfList ==
  ASSUME NEW t
  PROVE  /\ Len(ListOf(t)) \in Nat /\ DOMAIN ListOf(t) = 1..Len(ListOf(t))
         /\ Range(ListOf(t)) = ReportedRows(t)
<1>1. ListOf(t) \in Seq(ReportedRows(t)) /\ Members(ListOf(t)) = ReportedRows(t)
  BY ListIsExact
<1>2. Len(ListOf(t)) \in Nat /\ DOMAIN ListOf(t) = 1..Len(ListOf(t))
  BY <1>1
<1>3. QED
  BY <1>1, <1>2 DEF Range, Members

LEMMA UnmergedIs == Unmerged # Nil /\ Unmerged \notin Blobs
BY PanelAssumption

\* Which paths a list names, on which side.
LEMMA NamedInConflict ==
  ASSUME NEW t, NEW p \in Paths
  PROVE  (\E r \in ReportedRows(t) : r.section = "Conflict" /\ p \in r.specs)
           <=> t.index[p] = Unmerged
<1>1. ASSUME NEW r \in ReportedRows(t), r.section = "Conflict", p \in r.specs
      PROVE  t.index[p] = Unmerged
  <2>1. PICK q \in Paths : HasRow(t, q, r)
    BY RowsReported
  <2>2. r = Alone("Conflict", q)
    BY <1>1, <2>1, RowForms
  <2>3. p = q
    BY <1>1, <2>2, SpecsAre
  <2>4. QED
    BY <1>1, <2>1, <2>3, RowIs DEF HasRow
<1>2. ASSUME t.index[p] = Unmerged
      PROVE  \E r \in ReportedRows(t) : r.section = "Conflict" /\ p \in r.specs
  <2> DEFINE r == Alone("Conflict", p)
  <2>1. HasRow(t, p, r)
    BY <1>2 DEF HasRow
  <2>2. r \in ReportedRows(t)
    BY <2>1, RowsReported
  <2>3. r.section = "Conflict" /\ p \in r.specs
    BY RowIs, SpecsAre
  <2>4. QED
    BY <2>2, <2>3
<1>3. QED
  BY <1>1, <1>2

LEMMA NamedAsUntracked ==
  ASSUME NEW t, NEW p \in Paths
  PROVE  (\E r \in ReportedRows(t) : r.section = "Untracked" /\ p \in r.specs)
           <=> t.index[p] = Nil /\ t.work[p] # Nil
<1>1. ASSUME NEW r \in ReportedRows(t), r.section = "Untracked", p \in r.specs
      PROVE  t.index[p] = Nil /\ t.work[p] # Nil
  <2>1. PICK q \in Paths : HasRow(t, q, r)
    BY RowsReported
  <2>2. r = Alone("Untracked", q)
    BY <1>1, <2>1, RowForms
  <2>3. p = q
    BY <1>1, <2>2, SpecsAre
  <2>4. QED
    BY <1>1, <2>1, <2>3, RowIs DEF HasRow
<1>2. ASSUME t.index[p] = Nil /\ t.work[p] # Nil
      PROVE  \E r \in ReportedRows(t) : r.section = "Untracked" /\ p \in r.specs
  <2> DEFINE r == Alone("Untracked", p)
  <2>1. HasRow(t, p, r)
    BY <1>2 DEF HasRow
  <2>2. r \in ReportedRows(t)
    BY <2>1, RowsReported
  <2>3. r.section = "Untracked" /\ p \in r.specs
    BY RowIs, SpecsAre
  <2>4. QED
    BY <2>2, <2>3
<1>3. QED
  BY <1>1, <1>2

LEMMA NamedAsUnstaged ==
  ASSUME NEW t, NEW p \in Paths
  PROVE  (\E r \in ReportedRows(t) : r.section = "Unstaged" /\ p \in r.specs)
           <=> t.index[p] # Unmerged /\ t.index[p] # Nil /\ t.work[p] # t.index[p]
<1>1. ASSUME NEW r \in ReportedRows(t), r.section = "Unstaged", p \in r.specs
      PROVE  t.index[p] # Unmerged /\ t.index[p] # Nil /\ t.work[p] # t.index[p]
  <2>1. PICK q \in Paths : HasRow(t, q, r)
    BY RowsReported
  <2>2. r = Alone("Unstaged", q) \/ \E n : r = Renamed(n, q)
    BY <1>1, <2>1, RowForms
  <2>3. p = q
    BY <1>1, <2>2, SpecsAre
  <2>4. t.index[p] # Unmerged /\ WorkLetter(t, p) # "."
    BY <1>1, <2>1, <2>3, RowIs DEF HasRow
  <2>5. QED
    BY <2>4, LettersAre
<1>2. ASSUME t.index[p] # Unmerged, t.index[p] # Nil, t.work[p] # t.index[p]
      PROVE  \E r \in ReportedRows(t) : r.section = "Unstaged" /\ p \in r.specs
  <2>1. WorkLetter(t, p) # "."
    BY <1>2, LettersAre
  <2>2. ~IsOrigin(t, p)
    <3>1. \A n \in Paths : <<p, n>> \in Moves(t) => t.index[p] = Nil
      BY MoveIs DEF IsMove
    <3>2. QED
      BY <1>2, <3>1 DEF IsOrigin
  <2>3. PICK r : HasRow(t, p, r) /\ (r = Alone("Unstaged", p) \/ \E q : r = Renamed(q, p))
    BY <1>2, <2>1, <2>2 DEF HasRow
  <2>4. r \in ReportedRows(t)
    BY <2>3, RowsReported
  <2>5. r.section = "Unstaged" /\ p \in r.specs
    BY <2>3, RowIs, SpecsAre
  <2>6. QED
    BY <2>4, <2>5
<1>3. QED
  BY <1>1, <1>2

LEMMA NamedAsStaged ==
  ASSUME NEW t, NEW p \in Paths
  PROVE  (\E r \in ReportedRows(t) : r.section = "Staged" /\ p \in r.specs)
           <=> t.index[p] # Unmerged /\ t.index[p] # t.head[p]
<1>1. ASSUME NEW q \in Paths, NEW n \in Paths, <<q, n>> \in Moves(t)
      PROVE  /\ t.head[n] = Nil /\ t.index[n] # Nil /\ t.index[n] # Unmerged
             /\ t.head[q] # Nil /\ t.index[q] = Nil
  BY <1>1, MoveIs DEF IsMove, IsNew
<1>2. ASSUME NEW r \in ReportedRows(t), r.section = "Staged", p \in r.specs
      PROVE  t.index[p] # Unmerged /\ t.index[p] # t.head[p]
  <2>1. PICK n \in Paths : HasRow(t, n, r)
    BY RowsReported
  <2>2. CASE \E q \in Origins(t, n) : r = Renaming(q, n)
    <3>1. PICK q \in Paths : <<q, n>> \in Moves(t) /\ r = Renaming(q, n)
      BY <2>2 DEF Origins
    <3>2. p = q \/ p = n
      BY <1>2, <3>1, SpecsAre
    <3>3. QED
      BY <1>1, <3>1, <3>2, UnmergedIs
  <2>3. CASE r = Alone("Staged", n) /\ Origins(t, n) = {}
    <3>1. p = n
      BY <1>2, <2>3, SpecsAre
    <3>2. t.index[p] # Unmerged /\ IndexLetter(t, p) # "."
      BY <1>2, <2>1, <2>3, <3>1, RowIs DEF HasRow
    <3>3. QED
      BY <3>2, LettersAre
  <2>4. QED
    BY <1>2, <2>1, <2>2, <2>3, RowForms
<1>3. ASSUME t.index[p] # Unmerged, t.index[p] # t.head[p]
      PROVE  \E r \in ReportedRows(t) : r.section = "Staged" /\ p \in r.specs
  <2>1. CASE \E q \in Paths : <<q, p>> \in Moves(t)
    <3>1. PICK q \in Paths : <<q, p>> \in Moves(t)
      BY <2>1
    <3>2. HasRow(t, p, Renaming(q, p))
      BY <1>3, <3>1 DEF HasRow, Origins
    <3>3. Renaming(q, p) \in ReportedRows(t)
      BY <3>2, RowsReported
    <3>4. Renaming(q, p).section = "Staged" /\ p \in Renaming(q, p).specs
      BY RowIs, SpecsAre
    <3>5. QED
      BY <3>3, <3>4
  <2>2. CASE IsOrigin(t, p)
    <3>1. PICK n \in Paths : <<p, n>> \in Moves(t)
      BY <2>2 DEF IsOrigin
    <3>2. HasRow(t, n, Renaming(p, n))
      BY <1>1, <3>1 DEF HasRow, Origins
    <3>3. Renaming(p, n) \in ReportedRows(t)
      BY <3>2, RowsReported
    <3>4. Renaming(p, n).section = "Staged" /\ p \in Renaming(p, n).specs
      BY RowIs, SpecsAre
    <3>5. QED
      BY <3>3, <3>4
  <2>3. CASE ~IsOrigin(t, p) /\ ~ \E q \in Paths : <<q, p>> \in Moves(t)
    <3>1. IndexLetter(t, p) # "." /\ Origins(t, p) = {}
      BY <1>3, <2>3, LettersAre DEF Origins
    <3>2. HasRow(t, p, Alone("Staged", p))
      BY <1>3, <2>3, <3>1 DEF HasRow
    <3>3. Alone("Staged", p) \in ReportedRows(t)
      BY <3>2, RowsReported
    <3>4. QED
      BY <3>3, RowIs, SpecsAre
  <2>4. QED
    BY <2>1, <2>2, <2>3
<1>4. QED
  BY <1>2, <1>3

-----------------------------------------------------------------------------
(***************************************************************************)
(* A row does what it says: what it names is staged or unstaged as a       *)
(* whole, and leaves a worktree that is one.                               *)
(***************************************************************************)
\* What the keys s, u, a and A submit.
MayBe(how, row) ==
  /\ how \in {"stage", "unstage"}
  /\ \/ row = Everything
     \/ IF how = "stage" THEN CanStage(row) ELSE CanUnstage(row)

LEMMA NewIndex ==
  ASSUME NEW t \in WorkTrees, NEW f \in Entries(Blobs \cup {Nil, Unmerged})
  PROVE  LET u == [t EXCEPT !.index = f]
         IN /\ u \in WorkTrees
            /\ u.index = f /\ u.head = t.head /\ u.work = t.work /\ u.operation = t.operation
BY DEF WorkTrees

LEMMA TreeIs ==
  ASSUME NEW t \in WorkTrees
  PROVE  /\ t.head \in Entries(Blobs \cup {Nil}) /\ t.work \in Entries(Blobs \cup {Nil})
         /\ t.index \in Entries(Blobs \cup {Nil, Unmerged})
         /\ Entries(Blobs \cup {Nil}) \subseteq Entries(Blobs \cup {Nil, Unmerged})
         /\ \A f \in Entries(Blobs \cup {Nil}) : \A specs :
              [p \in Paths |-> IF p \in specs THEN f[p] ELSE t.index[p]]
                \in Entries(Blobs \cup {Nil, Unmerged})
BY DEF WorkTrees, Entries

\* The side a row is made equal to, and whether Git finds what it names.
Side(t, how) == IF how = "stage" THEN t.work ELSE t.head
Found(t, how, row) == \A m \in row.specs : t.index[m] # Nil \/ Side(t, how)[m] # Nil

LEMMA AfterIs ==
  ASSUME NEW t \in WorkTrees, NEW how, NEW row
  PROVE  LET after == After(t, how, row)
         IN /\ after \in WorkTrees /\ after.head = t.head /\ after.work = t.work
            /\ row = Everything => after.index = Side(t, how)
            /\ row # Everything /\ Found(t, how, row) =>
                 \A m \in Paths \cap row.specs : after.index[m] = Side(t, how)[m]
<1> DEFINE side == Side(t, how)
           f == [p \in Paths |-> IF p \in row.specs THEN side[p] ELSE t.index[p]]
           after == After(t, how, row)
<1>1. /\ side \in Entries(Blobs \cup {Nil})
      /\ side \in Entries(Blobs \cup {Nil, Unmerged}) /\ f \in Entries(Blobs \cup {Nil, Unmerged})
  BY TreeIs DEF Side
<1>2. CASE row = Everything
  <2>1. after = [t EXCEPT !.index = side]
    BY <1>2 DEF After, Side
  <2> HIDE DEF after, side
  <2>2. after \in WorkTrees /\ after.index = side /\ after.head = t.head /\ after.work = t.work
    BY <1>1, <2>1, NewIndex
  <2>3. QED
    BY <1>2, <2>2 DEF after, side
<1>3. CASE row # Everything /\ Found(t, how, row)
  <2>1. after = [t EXCEPT !.index = f]
    BY <1>3 DEF After, Staged, Unstaged, Known, Found, Side
  <2> HIDE DEF after
  <2>2. after \in WorkTrees /\ after.index = f /\ after.head = t.head /\ after.work = t.work
    <3> HIDE DEF f
    <3>1. QED
      BY <1>1, <2>1, NewIndex
  <2>3. QED
    BY <1>3, <2>2 DEF after
<1>4. CASE row # Everything /\ ~Found(t, how, row)
  <2>1. after = t
    BY <1>4 DEF After, Staged, Unstaged, Known, Found, Side
  <2>2. QED
    BY <1>4, <2>1
<1>5. QED
  BY <1>2, <1>3, <1>4

LEMMA RowActs ==
  ASSUME NEW t \in WorkTrees, NEW how, NEW row \in ReportedRows(t), MayBe(how, row),
         NEW p, p = row.path \/ (p \in Paths /\ <<p, row.path>> \in Moves(t) /\ row.section = "Staged")
  PROVE  LET after == After(t, how, row)
         IN after.index[p] = IF how = "stage" THEN after.work[p] ELSE after.head[p]
<1> DEFINE side == Side(t, how)
           after == After(t, how, row)
<1>1. PICK n \in Paths : HasRow(t, n, row)
  BY RowsReported
<1>2. /\ row.path = n
      /\ \/ row.section = "Conflict" /\ row = Alone("Conflict", n)
         \/ row.section = "Staged" /\ Origins(t, n) = {} /\ row = Alone("Staged", n)
         \/ row.section = "Staged" /\ \E q \in Origins(t, n) : row = Renaming(q, n)
         \/ row.section = "Unstaged" /\ row = Alone("Unstaged", n)
         \/ row.section = "Unstaged" /\ \E q : row = Renamed(q, n)
         \/ row.section = "Untracked" /\ row = Alone("Untracked", n)
  BY <1>1, RowForms
<1>3. p \in Paths /\ (p = n \/ (<<p, n>> \in Moves(t) /\ row.section = "Staged"))
  BY <1>2
<1>4. /\ after.head = t.head /\ after.work = t.work
      /\ row = Everything => after.index = side
      /\ row # Everything /\ Found(t, how, row) =>
           \A m \in Paths \cap row.specs : after.index[m] = side[m]
  BY AfterIs
<1>5. CASE row = Everything
  BY <1>4, <1>5 DEF Side
<1>6. CASE row # Everything
  <2>1. p \in row.specs
    <3>1. CASE row.section = "Staged" /\ \E q \in Origins(t, n) : row = Renaming(q, n)
      <4>1. PICK q \in Paths : <<q, n>> \in Moves(t) /\ row = Renaming(q, n)
        BY <3>1 DEF Origins
      <4>2. p = n \/ p = q
        BY <1>3, <4>1, MoveUnique
      <4>3. QED
        BY <4>1, <4>2, SpecsAre
    <3>2. CASE row = Alone(row.section, n) /\ (row.section = "Staged" => Origins(t, n) = {})
      <4>1. p = n
        BY <1>3, <3>2 DEF Origins
      <4>2. QED
        BY <3>2, <4>1, SpecsAre
    <3>3. CASE row.section = "Unstaged" /\ \E q : row = Renamed(q, n)
      BY <1>3, <3>3, SpecsAre
    <3>4. QED
      BY <1>2, <3>1, <3>2, <3>3
  <2>2. \A m \in row.specs : t.index[m] # Nil \/ side[m] # Nil
    <3> SUFFICES ASSUME NEW m \in row.specs PROVE t.index[m] # Nil \/ side[m] # Nil
      OBVIOUS
    <3>1. \/ how = "stage" /\ row.section # "Staged" /\ side = t.work
          \/ how = "unstage" /\ row.section = "Staged" /\ side = t.head
      BY <1>6 DEF MayBe, CanStage, CanUnstage, Side
    <3>2. CASE row.section = "Staged" /\ \E q \in Origins(t, n) : row = Renaming(q, n)
      <4>1. PICK q \in Paths : <<q, n>> \in Moves(t) /\ row = Renaming(q, n)
        BY <3>2 DEF Origins
      <4>2. m = n \/ m = q
        BY <4>1, SpecsAre
      <4>3. t.index[n] # Nil /\ t.head[q] # Nil
        BY <4>1, MoveIs DEF IsMove, IsNew
      <4>4. QED
        BY <3>1, <3>2, <4>2, <4>3
    <3>3. CASE row.section = "Staged" /\ row = Alone("Staged", n) /\ Origins(t, n) = {}
      <4>1. m = n
        BY <3>3, SpecsAre
      <4>2. IndexLetter(t, n) # "."
        BY <1>1, <3>3, RowIs DEF HasRow
      <4>3. t.head[n] # t.index[n]
        BY <4>2, LettersAre
      <4>4. QED
        BY <3>1, <3>3, <4>1, <4>3
    <3>4. CASE /\ row.section # "Staged"
               /\ row = Alone(row.section, n) \/ \E q : row = Renamed(q, n)
      <4>1. m = n
        BY <3>4, SpecsAre
      <4>2. \/ t.index[n] = Unmerged
            \/ WorkLetter(t, n) # "."
            \/ t.index[n] = Nil /\ t.work[n] # Nil
        BY <1>1, <3>4, RowIs DEF HasRow
      <4>3. t.index[n] # Nil \/ t.work[n] # Nil
        BY <4>2, LettersAre, UnmergedIs
      <4>4. QED
        BY <3>1, <3>4, <4>1, <4>3
    <3>5. QED
      BY <1>2, <3>2, <3>3, <3>4
  <2>3. Found(t, how, row)
    BY <2>2 DEF Found
  <2>4. after.index[p] = side[p]
    BY <1>3, <1>4, <1>6, <2>1, <2>3
  <2>5. QED
    BY <1>4, <2>4 DEF Side
<1>7. QED
  BY <1>5, <1>6

-----------------------------------------------------------------------------
(***************************************************************************)
(* The session.                                                            *)
(***************************************************************************)
PanelTyped ==
  /\ tree \in WorkTrees /\ area \in [width : Nat, height : Nat]
  /\ selected \in Nat /\ scroll \in Nat /\ viewport.status \in Nat

\* The rows are those of the worktree Git reported last.
Listing == seen # Nil => files = ListOf(seen)

\* What waits, and what was carried out, is something a key submits.
Queued == pending # Nil => MayBe(pending.how, pending.row)
Carried ==
  done # Nil => /\ done.before \in WorkTrees /\ MayBe(done.how, done.row)
                /\ done.after = After(done.before, done.how, done.row)

PanelInv == PanelTyped /\ Listing /\ Queued /\ Carried /\ SelectionIsVisible /\ DiffIsOfTheSelection

LEMMA ClampedIs ==
  ASSUME NEW at \in Nat, NEW row \in Nat, NEW height \in Nat, NEW active
  PROVE  LET visible == VisibleLen(height, active)
             to == Clamped(at, row, height, active)
         IN /\ to \in Nat
            /\ visible > 0 => to <= row /\ row < to + visible
<1> DEFINE visible == VisibleLen(height, active)
           to == Clamped(at, row, height, active)
<1>1. visible \in Nat
  BY DEF VisibleLen, Minus
<1>2. to = CASE visible = 0 -> row
             [] visible > 0 /\ row < at -> row
             [] visible > 0 /\ row >= at + visible -> Minus(row, visible - 1)
             [] OTHER -> at
  BY DEF Clamped
<1> HIDE DEF visible, to
<1>3. CASE visible = 0
  BY <1>2, <1>3 DEF visible, to
<1>4. CASE visible > 0 /\ row < at
  <2>1. to = row
    BY <1>1, <1>2, <1>4
  <2>2. QED
    BY <1>1, <1>4, <2>1 DEF visible, to
<1>5. CASE visible > 0 /\ row >= at + visible
  <2>1. to = Minus(row, visible - 1)
    BY <1>1, <1>2, <1>5
  <2>2. to = row - (visible - 1)
    BY <1>1, <1>5, <2>1 DEF Minus
  <2>3. QED
    BY <1>1, <1>5, <2>2 DEF visible, to
<1>6. CASE visible > 0 /\ ~ (row < at) /\ ~ (row >= at + visible)
  <2>1. to = at
    BY <1>1, <1>2, <1>6
  <2>2. QED
    BY <1>1, <1>6, <2>1 DEF visible, to
<1>7. QED
  BY <1>1, <1>3, <1>4, <1>5, <1>6

LEMMA SplitIs ==
  ASSUME NEW a \in [width : Nat, height : Nat], NEW v \in Split(a)
  PROVE  v.status \in Nat
<1>1. a.height \in Nat /\ a.width \in Nat
  OBVIOUS
<1>2. /\ (35 * a.height + 50) \div 100 \in Nat /\ (70 * a.height + 50) \div 100 \in Nat
      /\ (35 * a.height + 50) \div 100 <= (70 * a.height + 50) \div 100
  BY <1>1
<1>3. Share(35, a.height) \in Nat /\ Share(70, a.height) - Share(35, a.height) \in Nat
  BY <1>2 DEF Share
<1>4. \A status, columns, queue : Rectangles(status, columns, queue).status = status
  BY DEF Rectangles
<1>5. CASE a.width < 50 \/ a.height < 18
  <2>1. \E h \in Nat : v = Rectangles(h, a.width, 0)
    BY <1>3, <1>5 DEF Split
  <2>2. QED
    BY <1>4, <2>1
<1>6. CASE ~(a.width < 50 \/ a.height < 18)
  <2>1. v = Rectangles(a.height - 10, Share(58, a.width) - Share(24, a.width), 7)
    BY <1>6 DEF Split
  <2>2. QED
    BY <1>1, <1>4, <1>6, <2>1
<1>7. QED
  BY <1>5, <1>6

LEMMA LengthOfJoined ==
  ASSUME NEW S, NEW T, NEW a \in Seq(S), NEW b \in Seq(T)
  PROVE  Len(a \o b) = Len(a) + Len(b)
<1> DEFINE U == S \cup T
<1>1. /\ a \in [1..Len(a) -> S] /\ Len(a) \in Nat
      /\ b \in [1..Len(b) -> T] /\ Len(b) \in Nat
  OBVIOUS
<1>2. a \in [1..Len(a) -> U] /\ b \in [1..Len(b) -> U]
  BY <1>1
<1> HIDE DEF U
<1>3. a \in Seq(U) /\ b \in Seq(U)
  BY <1>1, <1>2
<1>4. QED
  BY <1>3

\* Where no line is wrapped, the lines above the selected row are one each, as
\* status_file_visible_len counts them.
LEMMA OnScreenIs ==
  ASSUME PanelTyped, VisibleLen(viewport.status, operation) > 0,
         scroll <= selected, selected < scroll + VisibleLen(viewport.status, operation),
         \A i \in DOMAIN LinesAbove : LinesAbove[i] <= viewport.width
  PROVE  OnScreen
<1> DEFINE rows == [i \in 1..(selected - scroll) |-> LabelColumns(files[scroll + i])]
           heading == <<BranchLine>> \o Banner
           Labels == {rows[i] : i \in 1..(selected - scroll)}
<1>1. \A i \in DOMAIN LinesAbove : Wrapped(LinesAbove[i]) = 1
  BY DEF Wrapped
<1>2. Continuations = {}
  BY <1>1 DEF Continuations
<1>3. Cardinality(Continuations) = 0
  BY <1>2, FS_EmptySet
<1>4. selected - scroll \in Nat
  BY DEF PanelTyped
<1>5. Len(rows) = selected - scroll /\ rows \in Seq(Labels)
  BY <1>4
<1>6. /\ heading \in Seq(Nat) /\ Len(heading) = IF operation = Nil THEN 1 ELSE 2
  BY PanelAssumption DEF Banner
<1>7. LinesAbove = heading \o rows
  BY DEF LinesAbove
<1> HIDE DEF rows, heading, Labels
<1>8. Len(LinesAbove) = Len(heading) + Len(rows)
  BY <1>5, <1>6, <1>7, LengthOfJoined
<1>9. /\ viewport.status \in Nat
      /\ VisibleLen(viewport.status, operation)
           = Minus(IF viewport.status > 2 THEN viewport.status - 2 ELSE 1,
                   IF operation = Nil THEN 1 ELSE 2)
  BY DEF PanelTyped, VisibleLen
<1>10. Len(LinesAbove) < Minus(viewport.status, 2)
  BY <1>4, <1>5, <1>6, <1>8, <1>9 DEF PanelTyped, Minus
<1>11. QED
  BY <1>3, <1>8, <1>10, <1>5, <1>6 DEF OnScreen

LEMMA Refreshed ==
  ASSUME PanelTyped, Listing, NEW p, NEW t, RefreshStatus(p, t)
  PROVE  selected' \in Nat /\ scroll' \in Nat /\ Listing'
<1>1. CASE ~p.refresh /\ UNCHANGED <<panel, seen>>
  BY <1>1 DEF PanelTyped, Listing, panel
<1>2. CASE p.refresh /\ ShowNoStatus /\ seen' = Nil
  BY <1>2 DEF PanelTyped, Listing, ShowNoStatus
<1>3. CASE /\ p.refresh
           /\ LET parsed == ParseStatus(Porcelain(t))
              IN IF IsStatus(parsed) THEN ShowStatus(t, parsed) ELSE ShowNoStatus
           /\ seen' = t
  <2> DEFINE parsed == ParseStatus(Porcelain(t))
             rows == ListOf(t)
             row == IF selected >= Len(rows) THEN Minus(Len(rows), 1) ELSE selected
  <2>1. IsStatus(parsed) /\ Len(rows) \in Nat
    BY ListIsExact, RangeOfList
  <2>2. ShowStatus(t, parsed)
    BY <1>3, <2>1
  <2>3. /\ files' = rows /\ selected' = row
        /\ scroll' = Clamped(scroll, row, viewport.status, t.operation)
    BY <2>2 DEF ShowStatus, ListOf
  <2>4. row \in Nat
    BY <2>1 DEF PanelTyped, Minus
  <2> HIDE DEF row, rows
  <2>5. scroll' \in Nat
    BY <2>3, <2>4, ClampedIs DEF PanelTyped
  <2>6. QED
    BY <1>3, <2>3, <2>4, <2>5 DEF Listing, rows
<1>4. QED
  BY <1>1, <1>2, <1>3 DEF RefreshStatus

LEMMA PanelStarts == Init => PanelInv
<1> SUFFICES ASSUME Init PROVE PanelInv
  OBVIOUS
<1>1. PanelTyped
  BY PanelAssumption DEF Init, PanelTyped, Rectangles
<1>2. Listing
  BY DEF Init, Listing, ListOf
<1>3. Queued /\ Carried
  BY DEF Init, Queued, Carried
<1>4. SelectionIsVisible
  BY DEF Init, SelectionIsVisible, RowsAreDrawn
<1>5. DiffIsOfTheSelection
  BY DEF Init, DiffIsOfTheSelection, Diff
<1>6. QED
  BY <1>1, <1>2, <1>3, <1>4, <1>5 DEF PanelInv

LEMMA ScreenStands ==
  ASSUME SelectionIsVisible, UNCHANGED <<pc, viewport, panel>>
  PROVE  SelectionIsVisible'
<1>1. /\ pc' = pc /\ viewport' = viewport /\ files' = files /\ operation' = operation
      /\ selected' = selected /\ scroll' = scroll
  BY DEF panel
<1>2. LinesAbove' = LinesAbove
  BY <1>1 DEF LinesAbove, Banner, LabelColumns
<1>3. Continuations' = Continuations
  BY <1>1, <1>2 DEF Continuations, Wrapped
<1>4. OnScreen' = OnScreen /\ RowsAreDrawn' = RowsAreDrawn
  BY <1>1, <1>2, <1>3 DEF OnScreen, RowsAreDrawn
<1>5. QED
  BY <1>1, <1>2, <1>4 DEF SelectionIsVisible

LEMMA ScreenSafe ==
  ASSUME PanelInv, Draw \/ Reload \/ MoveFocus \/ MoveSelection
  PROVE  PanelInv'
<1> USE DEF PanelInv
<1>1. CASE Draw
  <2>1. /\ viewport' \in Split(area) /\ viewport'.status \in Nat
        /\ scroll' = Clamped(scroll, selected, viewport'.status, operation)
        /\ UNCHANGED <<tree, area, selected, files, operation, details, seen, pending>>
        /\ done' = Nil
    BY <1>1, SplitIs DEF Draw, PanelTyped, surroundings
  <2>2. LET visible == VisibleLen(viewport'.status, operation)
        IN /\ scroll' \in Nat
           /\ visible > 0 => scroll' <= selected /\ selected < scroll' + visible
    BY <2>1, ClampedIs DEF PanelTyped
  <2>3. PanelTyped'
    BY <2>1, <2>2 DEF PanelTyped
  <2>4. SelectionIsVisible'
    <3>1. (VisibleLen(viewport.status, operation))' = VisibleLen(viewport'.status, operation)
      BY <2>1 DEF VisibleLen
    <3>2. (VisibleLen(viewport.status, operation) > 0 =>
             /\ scroll <= selected
             /\ selected < scroll + VisibleLen(viewport.status, operation))'
      BY <2>1, <2>2, <3>1
    <3>3. QED
      BY <2>3, <3>2, OnScreenIs, PTL DEF SelectionIsVisible, RowsAreDrawn
  <2>5. QED
    BY <2>1, <2>3, <2>4 DEF Listing, Queued, Carried, DiffIsOfTheSelection
<1>2. CASE Reload
  <2>1. /\ pc' # "reload"
        /\ UNCHANGED <<tree, area, viewport, pending, done>>
    BY <1>2 DEF Reload, surroundings
  <2>2. CASE UNCHANGED <<panel, details, seen>>
    BY <2>1, <2>2 DEF PanelTyped, Listing, Queued, Carried, SelectionIsVisible, RowsAreDrawn,
                      DiffIsOfTheSelection, panel
  <2>3. CASE RefreshStatus(Reloaded, tree) /\ RefreshDiff(Reloaded)
    <3>1. selected' \in Nat /\ scroll' \in Nat /\ Listing'
      BY <2>3, Refreshed
    <3>2. DiffIsOfTheSelection'
      BY <2>3 DEF RefreshDiff, Diff, DiffIsOfTheSelection
    <3>3. QED
      BY <2>1, <3>1, <3>2 DEF PanelTyped, Queued, Carried, SelectionIsVisible,
                  RowsAreDrawn
  <2>4. QED
    BY <1>2, <2>2, <2>3 DEF Reload
<1>3. CASE MoveFocus
  BY <1>3 DEF MoveFocus, NoOperation, Key, surroundings, panel, PanelTyped, Listing, Queued, Carried,
              SelectionIsVisible, RowsAreDrawn, DiffIsOfTheSelection
<1>4. CASE MoveSelection
  <2>1. PICK row \in Nat : Select(row)
    <3>1. CASE selected > 0 /\ Select(selected - 1)
      <4>1. selected - 1 \in Nat
        BY <3>1 DEF PanelTyped
      <4>2. QED
        BY <3>1, <4>1
    <3>2. CASE selected + 1 < Len(files) /\ Select(selected + 1)
      <4>1. selected + 1 \in Nat
        BY DEF PanelTyped
      <4>2. QED
        BY <3>2, <4>1
    <3>3. QED
      BY <1>4, <3>1, <3>2 DEF MoveSelection
  <2>2. /\ pc' = "draw"
        /\ UNCHANGED <<tree, area, viewport, files, seen, pending, done>>
    BY <1>4 DEF MoveSelection, NoOperation, Key, surroundings
  <2>3. scroll' \in Nat /\ selected' = row
    BY <2>1, ClampedIs DEF Select, PanelTyped
  <2>4. DiffIsOfTheSelection'
    BY <2>1, <2>2 DEF Select, Diff, DiffIsOfTheSelection
  <2>5. QED
    BY <2>2, <2>3, <2>4 DEF PanelTyped, Listing, Queued, Carried, SelectionIsVisible,
                  RowsAreDrawn
<1>5. QED
  BY <1>1, <1>2, <1>3, <1>4

LEMMA ExecuteSafe ==
  ASSUME PanelInv, NEW how, NEW row, MayBe(how, row), Execute(how, row), OperationKey
  PROVE  PanelInv'
<1> USE DEF PanelInv
<1>1. /\ pc' = "draw" /\ details' = Nil /\ pending' = Nil
      /\ UNCHANGED <<area, viewport>>
      /\ RefreshStatus(Reloaded, tree')
  BY DEF Execute, OperationKey
<1>2. selected' \in Nat /\ scroll' \in Nat /\ Listing'
  BY <1>1, Refreshed
<1>3. tree' \in WorkTrees /\ Carried'
  <2>1. CASE done' = Nil /\ UNCHANGED <<tree, changes>>
    BY <2>1 DEF PanelTyped, Carried
  <2>2. CASE LET after == After(tree, how, row)
             IN /\ tree' = after
                /\ done' = [how |-> how, row |-> row, before |-> tree, after |-> after]
    <3>1. After(tree, how, row) \in WorkTrees
      BY AfterIs DEF PanelTyped
    <3>2. QED
      BY <2>2, <3>1 DEF PanelTyped, Carried
  <2>3. QED
    BY <2>1, <2>2 DEF Execute, CarryOut
<1>4. QED
  BY <1>1, <1>2, <1>3 DEF PanelTyped, Queued, SelectionIsVisible, RowsAreDrawn, DiffIsOfTheSelection

LEMMA AnswerSafe ==
  ASSUME PanelInv, Answer, OperationKey, Queued'
  PROVE  PanelInv'
BY DEF PanelInv, Answer, Quietly, NoOperation, OperationKey, surroundings, panel, PanelTyped, Listing,
       Carried, SelectionIsVisible, RowsAreDrawn, DiffIsOfTheSelection

LEMMA OperationSafe ==
  ASSUME PanelInv, StageOrUnstage \/ Confirm \/ Cancel
  PROVE  PanelInv'
<1>1. Queued
  BY DEF PanelInv
<1>2. ASSUME NEW how, NEW row, MayBe(how, row), Submit(how, row), OperationKey PROVE PanelInv'
  <2>1. CASE Execute(how, row)
    BY <1>2, <2>1, ExecuteSafe
  <2>2. CASE pending' = [how |-> how, row |-> row] /\ Answer
    <3>1. Queued'
      BY <1>2, <2>2 DEF Queued
    <3>2. QED
      BY <1>2, <2>2, <3>1, AnswerSafe
  <2>3. CASE UNCHANGED pending /\ Answer
    <3>1. Queued'
      BY <1>1, <2>3 DEF Queued
    <3>2. QED
      BY <1>2, <2>3, <3>1, AnswerSafe
  <2>4. QED
    BY <1>2, <2>1, <2>2, <2>3 DEF Submit
<1>3. CASE StageOrUnstage
  <2>1. OperationKey
    BY <1>3 DEF StageOrUnstage
  <2>2. PICK how \in {"stage", "unstage"} :
          \/ Submit(how, Everything)
          \/ LET row == files[selected + 1]
             IN IF IF how = "stage" THEN CanStage(row) ELSE CanUnstage(row)
                THEN Submit(how, row)
                ELSE UNCHANGED pending /\ Answer
    BY <1>3 DEF StageOrUnstage
  <2> DEFINE row == files[selected + 1]
  <2>3. CASE Submit(how, Everything)
    BY <1>2, <2>1, <2>3 DEF MayBe
  <2>4. CASE Submit(how, row) /\ IF how = "stage" THEN CanStage(row) ELSE CanUnstage(row)
    BY <1>2, <2>1, <2>4 DEF MayBe
  <2>5. CASE UNCHANGED pending /\ Answer
    <3>1. Queued'
      BY <1>1, <2>5 DEF Queued
    <3>2. QED
      BY <2>1, <2>5, <3>1, AnswerSafe
  <2>6. QED
    BY <2>2, <2>3, <2>4, <2>5
<1>4. CASE Confirm
  BY <1>1, <1>4, ExecuteSafe DEF Confirm, Queued
<1>5. CASE Cancel
  <2>1. Queued'
    BY <1>5 DEF Cancel, Queued
  <2>2. QED
    BY <1>5, <2>1, AnswerSafe DEF Cancel
<1>6. QED
  BY <1>3, <1>4, <1>5

LEMMA SurroundingsSafe ==
  ASSUME PanelInv, OtherClient \/ Resize \/ EditConfig
  PROVE  PanelInv'
<1>1. tree' \in WorkTrees /\ area' \in [width : Nat, height : Nat]
  BY PanelAssumption DEF PanelInv, PanelTyped, OtherClient, Resize, EditConfig
<1>2. UNCHANGED <<pc, viewport, panel, details, pending, done, seen>>
  BY DEF OtherClient, Resize, EditConfig, Surroundings
<1>3. QED
  BY <1>1, <1>2, ScreenStands DEF PanelInv, PanelTyped, Listing, Queued, Carried,
                                  DiffIsOfTheSelection, panel

LEMMA PanelStep == PanelInv /\ [Next]_vars => PanelInv'
<1> SUFFICES ASSUME PanelInv, [Next]_vars PROVE PanelInv'
  OBVIOUS
<1>1. CASE UNCHANGED vars
  BY <1>1, ScreenStands DEF vars, surroundings, panel, PanelInv, PanelTyped, Listing, Queued,
                            Carried, DiffIsOfTheSelection
<1>2. QED
  BY <1>1, ScreenSafe, OperationSafe, SurroundingsSafe DEF Next

LEMMA PanelInvariant == Spec => []PanelInv
<1>1. QED
  BY PanelStarts, PanelStep, PTL DEF Spec

LEMMA ListingImplies == PanelInv => ListsWhatGitReported
<1> SUFFICES ASSUME PanelInv, seen # Nil, NEW p \in Paths
             PROVE  LET conflict == seen.index[p] = Unmerged
                    IN /\ Listed("Conflict", p) <=> conflict
                       /\ Listed("Staged", p) <=> ~conflict /\ seen.index[p] # seen.head[p]
                       /\ Listed("Unstaged", p) <=>
                            ~conflict /\ seen.index[p] # Nil /\ seen.work[p] # seen.index[p]
                       /\ Listed("Untracked", p) <=> seen.index[p] = Nil /\ seen.work[p] # Nil
  BY DEF ListsWhatGitReported
<1>1. files = ListOf(seen)
  BY DEF PanelInv, Listing
<1>2. Range(files) = ReportedRows(seen)
  BY <1>1, RangeOfList
<1>3. \A s : Listed(s, p) <=> \E r \in ReportedRows(seen) : r.section = s /\ p \in r.specs
  BY <1>2 DEF Listed, Range
<1>4. QED
  BY <1>3, NamedInConflict, NamedAsStaged, NamedAsUnstaged, NamedAsUntracked

LEMMA CarriedImplies == PanelInv => ActsOnTheWholeRow
<1> SUFFICES ASSUME PanelInv, done # Nil, done.row \in Range(ListOf(done.before)),
                    NEW p \in {done.row.path} \cup {m[1] : m \in {m \in Moves(done.before) :
                                m[2] = done.row.path /\ done.row.section = "Staged"}}
             PROVE  done.after.index[p] = IF done.how = "stage" THEN done.after.work[p]
                                          ELSE done.after.head[p]
  BY DEF ActsOnTheWholeRow, ListOf
<1>1. /\ done.before \in WorkTrees /\ MayBe(done.how, done.row)
      /\ done.after = After(done.before, done.how, done.row)
  BY DEF PanelInv, Carried
<1>2. done.row \in ReportedRows(done.before)
  BY RangeOfList
<1>3. \/ p = done.row.path
      \/ p \in Paths /\ <<p, done.row.path>> \in Moves(done.before) /\ done.row.section = "Staged"
  BY DEF Moves
<1>4. QED
  BY <1>1, <1>2, <1>3, RowActs

\* Whatever is resized, refreshed or begun between two draws, the selected row is
\* on the screen once it is drawn, provided no line above it is wrapped
\* (clamp_file_scroll, status_panel).
THEOREM SelectionStaysVisible == Spec => []SelectionIsVisible
<1>1. PanelInv => SelectionIsVisible
  BY DEF PanelInv
<1>2. QED
  BY <1>1, PanelInvariant, PTL

\* The diff beside the list is that of the selected row, after any sequence of
\* keys, reloads and refreshes (refresh_diff).
THEOREM DiffFollowsSelection == Spec => []DiffIsOfTheSelection
<1>1. PanelInv => DiffIsOfTheSelection
  BY DEF PanelInv
<1>2. QED
  BY <1>1, PanelInvariant, PTL

\* For every worktree, the list names exactly what Git reported, on the side on
\* which it did: parse_status_bytes and FileRow lose nothing and invent nothing,
\* whatever the names of the paths.
THEOREM ListIsWhatGitReported == Spec => []ListsWhatGitReported
<1>1. QED
  BY ListingImplies, PanelInvariant, PTL

\* Staging or unstaging a row that is up to date leaves none of it behind, on
\* either side of a rename (pathspecs_for_entry).
THEOREM RowsAreCarriedOutWhole == Spec => []ActsOnTheWholeRow
<1>1. QED
  BY CarriedImplies, PanelInvariant, PTL

-----------------------------------------------------------------------------
(***************************************************************************)
(* The confirmation of a plan, for prompt sequences of any length.  First  *)
(* what the policy demands.                                                *)
(***************************************************************************)
USE DEF NormalSelection, VisiblePlan, ExplicitConfirmation, Blocked, Requirements,
        Low, Medium, High, BlockedByDefault, RiskLevels

LEMMA RiskType ==
  ASSUME NEW kind
  PROVE  /\ RiskOf(kind) \in {Low, Medium, High}
         /\ SequenceRisk(RiskOf(kind)) \in {Medium, High}
         /\ RiskOf(kind) <= SequenceRisk(RiskOf(kind))
  BY DEF RiskOf, SequenceRisk, MaxOf

LEMMA RequirementType ==
  ASSUME NEW p \in PolicyRecords, NEW risk \in RiskLevels
  PROVE  /\ ConfirmationRequirement(p, risk) \in Requirements
         /\ risk <= ConfirmationRequirement(p, risk)
  <1>1. p.low \in Requirements /\ p.medium \in Requirements /\ p.high \in Requirements
    BY DEF PolicyRecords
  <1>2. QED
    BY <1>1 DEF ConfirmationRequirement, MaxOf

\* The minimum of a protected branch is never above the risk its kind is planned
\* with.
LEMMA MinimumIsLow ==
  ASSUME NEW kind
  PROVE  ProtectedMinimum(kind) <= RiskOf(kind) /\ ProtectedMinimum(kind) \in Requirements
  BY DEF ProtectedMinimum, RiskOf, ProtectedVisibleKinds, ProtectedExplicitKinds,
         PushKinds, HighKinds, LowKinds, ReadKinds, RecoveryKinds, MergeRecovery,
         RebaseRecovery

Subjects == {<<risk>> : risk \in RiskLevels} \cup (Branches \X (Kinds \cup {"Push"}))
ReasonRecords == [rule : {"risk", "protected"}, subject : Subjects, demands : Requirements]

\* An evaluation whose first reason demands what the evaluation requires.
IsExplained(e) ==
  /\ e.requirement \in Requirements
  /\ e.reasons \in Seq(ReasonRecords) /\ e.reasons # <<>>
  /\ e.reasons[1].demands = e.requirement

\* The risk is the reason for the requirement of an operation that is not
\* disabled, on a protected branch as on any other.
LEMMA RiskExplains ==
  ASSUME NEW p \in PolicyRecords, NEW kind \in Kinds, ~IsDisabled(p, kind), NEW branch,
         NEW risk \in {RiskOf(kind), SequenceRisk(RiskOf(kind))}
  PROVE  LET e == Explained(p, risk, kind, branch)
         IN IsExplained(e) /\ risk <= e.requirement
<1> DEFINE base == ConfirmationRequirement(p, risk)
           first == Reason("risk", <<risk>>, base)
           second == Reason("protected", <<branch, ActionLabel(kind)>>, ProtectedMinimum(kind))
           e == Explained(p, risk, kind, branch)
<1>1. risk \in RiskLevels /\ RiskOf(kind) <= risk /\ RiskOf(kind) \in RiskLevels
  BY RiskType
<1>2. base \in Requirements /\ risk <= base
  BY <1>1, RequirementType
<1>3. MaxOf(base, ProtectedMinimum(kind)) = base
  <2>1. ProtectedMinimum(kind) <= base
    BY <1>1, <1>2, MinimumIsLow
  <2>2. QED
    BY <1>2, <2>1, MinimumIsLow DEF MaxOf
<1>4. e.requirement = base
  BY <1>3 DEF Explained, Evaluate
<1>5. first \in ReasonRecords
  BY <1>1, <1>2 DEF Reason, ReasonRecords, Subjects
<1>6. ProtectionApplies(p, kind, branch) => second \in ReasonRecords
  <2>1. ActionLabel(kind) \in Kinds \cup {"Push"}
    BY DEF ActionLabel
  <2>2. ProtectionApplies(p, kind, branch) => branch \in Branches
    BY DEF ProtectionApplies
  <2>3. QED
    BY <2>1, <2>2, MinimumIsLow DEF Reason, ReasonRecords, Subjects
<1>7. e.reasons = IF ProtectionApplies(p, kind, branch) THEN <<first>> \o <<second>>
                  ELSE <<first>> \o <<>>
  BY DEF Explained, ReasonList
<1>8. first.demands = base
  BY DEF Reason
<1> HIDE DEF first, second, base, e
<1>9. e.reasons \in Seq(ReasonRecords) /\ e.reasons # <<>> /\ e.reasons[1] = first
  BY <1>5, <1>6, <1>7
<1>10. QED
  BY <1>1, <1>2, <1>4, <1>8, <1>9 DEF IsExplained, e

-----------------------------------------------------------------------------
(***************************************************************************)
(* Evaluations that are combined.                                          *)
(***************************************************************************)
\* What they require together is what the most demanding of them requires.
LEMMA HighestIs ==
  ASSUME NEW evaluations, NEW n \in DOMAIN evaluations,
         \A i \in DOMAIN evaluations : evaluations[i].requirement \in Requirements
  PROVE  /\ \E i \in DOMAIN evaluations : evaluations[i].requirement = Highest(evaluations)
         /\ \A i \in DOMAIN evaluations : evaluations[i].requirement <= Highest(evaluations)
<1>1. CASE Demanded(evaluations, Blocked)
  <2>1. Highest(evaluations) = Blocked
    BY <1>1 DEF Highest
  <2>2. QED
    BY <1>1, <2>1 DEF Demanded
<1>2. CASE ~Demanded(evaluations, Blocked) /\ Demanded(evaluations, ExplicitConfirmation)
  <2>1. Highest(evaluations) = ExplicitConfirmation
    BY <1>2 DEF Highest
  <2>2. QED
    BY <1>2, <2>1 DEF Demanded
<1>3. CASE /\ ~Demanded(evaluations, Blocked) /\ ~Demanded(evaluations, ExplicitConfirmation)
           /\ Demanded(evaluations, VisiblePlan)
  <2>1. Highest(evaluations) = VisiblePlan
    BY <1>3 DEF Highest
  <2>2. QED
    BY <1>3, <2>1 DEF Demanded
<1>4. CASE /\ ~Demanded(evaluations, Blocked) /\ ~Demanded(evaluations, ExplicitConfirmation)
           /\ ~Demanded(evaluations, VisiblePlan)
  <2>1. Highest(evaluations) = NormalSelection
    BY <1>4 DEF Highest
  <2>2. QED
    BY <1>4, <2>1 DEF Demanded
<1>5. QED
  BY <1>1, <1>2, <1>3, <1>4

\* The function by which AllReasons is defined, on the first evaluations.
IsGathered(all, evaluations, n) ==
  all = [i \in 0..n |-> IF i = 0 THEN <<>>
                        ELSE all[i - 1] \o Further(evaluations[i].reasons, all[i - 1])]

LEMMA GatheredExists ==
  ASSUME NEW evaluations, NEW n \in Nat
  PROVE  \E all : IsGathered(all, evaluations, n)
<1> DEFINE T == {k \in Nat : \E all : IsGathered(all, evaluations, k)}
<1>1. 0 \in T
  <2>1. IsGathered([i \in 0..0 |-> <<>>], evaluations, 0)
    BY DEF IsGathered
  <2>2. QED
    BY <2>1
<1>2. ASSUME NEW k \in Nat, k \in T PROVE k + 1 \in T
  <2>1. PICK all : IsGathered(all, evaluations, k)
    BY <1>2
  <2> DEFINE last == all[k] \o Further(evaluations[k + 1].reasons, all[k])
             next == [i \in 0..(k + 1) |-> IF i = k + 1 THEN last ELSE all[i]]
             step(s, i) == IF i = 0 THEN <<>>
                           ELSE s[i - 1] \o Further(evaluations[i].reasons, s[i - 1])
  <2>2. ASSUME NEW i \in 0..(k + 1)
        PROVE  next[i] = step(next, i)
    <3>1. CASE i = k + 1
      <4>1. next[i] = last /\ next[i - 1] = all[k] /\ i # 0
        BY <3>1
      <4> HIDE DEF next
      <4>2. QED
        BY <3>1, <4>1
    <3>2. CASE i \in 0..k
      <4>1. next[i] = all[i] /\ (i # 0 => next[i - 1] = all[i - 1])
        BY <3>2
      <4>2. all[i] = step(all, i)
        BY <2>1, <3>2 DEF IsGathered
      <4> HIDE DEF next
      <4>3. QED
        BY <4>1, <4>2
    <3>3. QED
      BY <3>1, <3>2
  <2>3. next = [i \in 0..(k + 1) |-> next[i]]
    OBVIOUS
  <2> HIDE DEF next
  <2>4. IsGathered(next, evaluations, k + 1)
    BY <2>2, <2>3 DEF IsGathered
  <2>5. QED
    BY <2>4
<1> HIDE DEF T
<1>3. Nat \subseteq T
  BY <1>1, <1>2, SetInduction
<1>4. QED
  BY <1>3 DEF T

LEMMA HasJoined ==
  ASSUME NEW S, NEW list \in Seq(S), NEW more \in Seq(S), NEW e,
         Has(list, e) \/ Has(more, e)
  PROVE  Has(list \o more, e)
<1>1. /\ Len(list \o more) = Len(list) + Len(more) /\ Len(list) \in Nat /\ Len(more) \in Nat
      /\ \A i \in 1..Len(list) : (list \o more)[i] = list[i]
      /\ \A i \in 1..Len(more) : (list \o more)[Len(list) + i] = more[i]
  OBVIOUS
<1>2. CASE Has(list, e)
  <2>1. PICK i \in 1..Len(list) : list[i] = e
    BY <1>2 DEF Has
  <2>2. i \in 1..(Len(list) + Len(more))
    BY <1>1
  <2>3. QED
    BY <1>1, <2>1, <2>2 DEF Has
<1>3. CASE Has(more, e)
  <2>1. PICK i \in 1..Len(more) : more[i] = e
    BY <1>3 DEF Has
  <2>2. Len(list) + i \in 1..(Len(list) + Len(more))
    BY <1>1
  <2>3. QED
    BY <1>1, <2>1, <2>2 DEF Has
<1>4. QED
  BY <1>2, <1>3

\* What follows repeats nothing, but leaves nothing out.
LEMMA FurtherParts ==
  ASSUME NEW S, NEW reasons \in Seq(S), NEW given \in Seq(S), NEW e, Has(reasons, e)
  PROVE  Has(given, e) \/ Has(Further(reasons, given), e)
<1> SUFFICES ASSUME ~Has(given, e) PROVE Has(Further(reasons, given), e)
  OBVIOUS
<1>1. PICK j \in 1..Len(reasons) : reasons[j] = e
  BY DEF Has
<1>2. reasons[j] \in Range(reasons) \ Range(given)
  <2>1. DOMAIN reasons = 1..Len(reasons) /\ DOMAIN given = 1..Len(given)
    OBVIOUS
  <2>2. QED
    BY <1>1, <2>1 DEF Range, Has
<1> DEFINE further == Range(reasons) \ Range(given)
<1>3. reasons[j] \in further
  BY <1>2
<1> HIDE DEF further
<1>4. Has(Sublist(reasons, further), reasons[j])
  BY <1>3, SublistKeeps
<1>5. QED
  BY <1>1, <1>4 DEF Further, further

LEMMA FurtherType ==
  ASSUME NEW S, NEW reasons \in Seq(S), NEW given
  PROVE  Further(reasons, given) \in Seq(S)
<1> DEFINE kept == {reasons[i] : i \in 1..Len(reasons)} \cap (Range(reasons) \ Range(given))
<1>1. Further(reasons, given) \in Seq(kept)
  BY SublistParts DEF Further
<1>2. kept \subseteq S
  OBVIOUS
<1> HIDE DEF kept
<1>3. QED
  BY <1>1, <1>2, SeqMonotonic

\* All reasons of all evaluations are given together.
LEMMA GatheredParts ==
  ASSUME NEW n \in Nat, NEW evaluations, NEW S, \A i \in 1..n : evaluations[i].reasons \in Seq(S),
         NEW all, IsGathered(all, evaluations, n)
  PROVE  /\ all[n] \in Seq(S)
         /\ \A i \in 1..n : \A e : Has(evaluations[i].reasons, e) => Has(all[n], e)
<1> DEFINE Part(k) == /\ all[k] \in Seq(S)
                      /\ \A i \in 1..k : \A e : Has(evaluations[i].reasons, e) => Has(all[k], e)
           T == {k \in Nat : k <= n => Part(k)}
<1>1. 0 \in T
  <2>1. all[0] = <<>>
    BY DEF IsGathered
  <2>2. all[0] \in Seq(S)
    BY <2>1
  <2>3. QED
    BY <2>2
<1>2. ASSUME NEW k \in Nat, k \in T PROVE k + 1 \in T
  <2> SUFFICES ASSUME k + 1 <= n PROVE Part(k + 1)
    OBVIOUS
  <2> DEFINE s == all[k]
             reasons == evaluations[k + 1].reasons
             more == Further(reasons, s)
  <2>1. k + 1 \in 1..n /\ k + 1 \in 0..n /\ k + 1 # 0 /\ (k + 1) - 1 = k
    OBVIOUS
  <2>2. all[k + 1] = s \o more
    BY <2>1 DEF IsGathered
  <2>3. Part(k)
    BY <1>2
  <2>4. reasons \in Seq(S) /\ s \in Seq(S)
    BY <2>1, <2>3
  <2>5. more \in Seq(S)
    BY <2>4, FurtherType
  <2>6. s \o more \in Seq(S)
    BY <2>4, <2>5
  <2>7. ASSUME NEW e, Has(s, e) \/ Has(more, e)
        PROVE  Has(s \o more, e)
    <3> HIDE DEF s, more
    <3>1. QED
      BY <2>4, <2>5, <2>7, HasJoined
  <2>8. ASSUME NEW i \in 1..(k + 1), NEW e, Has(evaluations[i].reasons, e)
        PROVE  Has(s \o more, e)
    <3>1. CASE i = k + 1
      <4>1. Has(reasons, e)
        BY <2>8, <3>1
      <4> HIDE DEF s, reasons
      <4>2. Has(s, e) \/ Has(more, e)
        BY <2>4, <4>1, FurtherParts
      <4>3. QED
        BY <2>7, <4>2
    <3>2. CASE i \in 1..k
      <4>1. Has(s, e)
        BY <2>3, <2>8, <3>2
      <4>2. QED
        BY <2>7, <4>1
    <3>3. QED
      BY <3>1, <3>2
  <2>9. QED
    BY <2>2, <2>6, <2>8
<1> HIDE DEF T
<1>3. Nat \subseteq T
  BY <1>1, <1>2, SetInduction
<1>4. n \in T
  BY <1>3
<1>5. n <= n => Part(n)
  BY <1>4 DEF T
<1>6. QED
  BY <1>5

LEMMA AllReasonsParts ==
  ASSUME NEW evaluations, Len(evaluations) \in Nat, NEW S,
         \A i \in 1..Len(evaluations) : evaluations[i].reasons \in Seq(S)
  PROVE  /\ AllReasons(evaluations) \in Seq(S)
         /\ \A i \in 1..Len(evaluations) : \A e :
              Has(evaluations[i].reasons, e) => Has(AllReasons(evaluations), e)
<1> DEFINE n == Len(evaluations)
           all == CHOOSE f : IsGathered(f, evaluations, n)
<1>1. IsGathered(all, evaluations, n)
  BY GatheredExists
<1>2. AllReasons(evaluations) = all[n]
  BY DEF AllReasons, IsGathered
<1> HIDE DEF all
<1>3. QED
  BY <1>1, <1>2, GatheredParts

\* So the reasons of a sequence explain what is required of it.
LEMMA CombinedExplains ==
  ASSUME NEW evaluations, Len(evaluations) \in Nat \ {0},
         DOMAIN evaluations = 1..Len(evaluations),
         \A i \in 1..Len(evaluations) : IsExplained(evaluations[i])
  PROVE  LET e == Combined(evaluations)
         IN /\ e.requirement \in Requirements
            /\ \A i \in 1..Len(evaluations) : evaluations[i].requirement <= e.requirement
            /\ e.reasons \in Seq(ReasonRecords)
            /\ \E i \in 1..Len(e.reasons) : e.reasons[i].demands = e.requirement
<1> DEFINE n == Len(evaluations)
           reasons == AllReasons(evaluations)
<1>1. \A i \in 1..n : /\ evaluations[i].requirement \in Requirements
                      /\ evaluations[i].reasons \in Seq(ReasonRecords)
                      /\ evaluations[i].reasons # <<>>
                      /\ evaluations[i].reasons[1].demands = evaluations[i].requirement
  BY DEF IsExplained
<1>2. 1 \in DOMAIN evaluations
  OBVIOUS
<1>3. /\ \E i \in 1..n : evaluations[i].requirement = Highest(evaluations)
      /\ \A i \in 1..n : evaluations[i].requirement <= Highest(evaluations)
  BY <1>1, <1>2, HighestIs
<1>4. PICK i \in 1..n : evaluations[i].requirement = Highest(evaluations)
  BY <1>3
<1>5. /\ reasons \in Seq(ReasonRecords)
      /\ \A e : Has(evaluations[i].reasons, e) => Has(reasons, e)
  BY <1>1, AllReasonsParts
<1>6. Has(evaluations[i].reasons, evaluations[i].reasons[1])
  <2>1. 1 \in 1..Len(evaluations[i].reasons)
    BY <1>1
  <2>2. QED
    BY <2>1 DEF Has
<1>7. PICK j \in 1..Len(reasons) : reasons[j] = evaluations[i].reasons[1]
  BY <1>5, <1>6 DEF Has
<1>8. reasons[j].demands = Highest(evaluations)
  BY <1>1, <1>4, <1>7
<1>9. Highest(evaluations) \in Requirements
  BY <1>1, <1>4
<1>10. Combined(evaluations).requirement = Highest(evaluations)
       /\ Combined(evaluations).reasons = reasons
  BY DEF Combined
<1> HIDE DEF reasons
<1>11. QED
  BY <1>3, <1>5, <1>7, <1>8, <1>9, <1>10

-----------------------------------------------------------------------------
(***************************************************************************)
(* Plans that wait for a key.                                              *)
(***************************************************************************)
\* A plan demands a key, and the sentence of its prompt names the one of its
\* requirement.
WaitsForItsKey(plan) ==
  /\ plan.requirement \in Requirements \ {NormalSelection}
  /\ plan.sentence.key = KeyFor(plan.requirement)

\* The sentence speaks of what will be run, and some reason demands the
\* requirement.
SaysWhatAndWhy(plan) ==
  /\ plan.sentence.steps = plan.steps
  /\ plan.reasons \in Seq(ReasonRecords)
  /\ \E i \in 1..Len(plan.reasons) : plan.reasons[i].demands = plan.requirement

PlanInv ==
  /\ rules \in Rules
  /\ queued = NoPlan \/ (WaitsForItsKey(queued) /\ SaysWhatAndWhy(queued))

\* Keys and their names.
LEMMA KeyCarriesOut ==
  ASSUME NEW requirement \in Requirements \ {NormalSelection}, NEW key \in {"y", "Y", "n"}
  PROVE  CarriesOut(key, requirement) <=> KeyFor(requirement) = key
  BY DEF CarriesOut, KeyFor

\* A plan as it is built: its sentence names the key of its risk, and what it does
\* if the risk demands a key at all.
IsBuilt(plan, steps, risk) ==
  \E sentence :
    /\ plan = NewPlan(steps, risk, sentence)
    /\ sentence.key = KeyFor(risk)
    /\ risk # Low => sentence.steps = steps

\* Rewriting the sentence of a plan keeps it true, and never lowers the
\* requirement, when the evaluation is not below the risk.
LEMMA RewritingKeepsItTrue ==
  ASSUME NEW built, NEW steps, NEW risk \in RiskLevels, IsBuilt(built, steps, risk),
         NEW evaluation,
         evaluation.requirement \in Requirements, risk <= evaluation.requirement,
         evaluation.requirement # NormalSelection,
         evaluation.reasons \in Seq(ReasonRecords),
         \E i \in 1..Len(evaluation.reasons) :
           evaluation.reasons[i].demands = evaluation.requirement
  PROVE  LET plan == ApplyEvaluation(built, evaluation)
         IN WaitsForItsKey(plan) /\ SaysWhatAndWhy(plan)
<1> DEFINE plan == ApplyEvaluation(built, evaluation)
           demanded == evaluation.requirement
<1>1. PICK sentence : /\ built = NewPlan(steps, risk, sentence)
                      /\ sentence.key = KeyFor(risk)
                      /\ risk # Low => sentence.steps = steps
  BY DEF IsBuilt
<1>2. built.steps = steps /\ built.requirement = risk /\ built.sentence = sentence
  BY <1>1 DEF NewPlan, RiskFloor
<1>3. MaxOf(risk, demanded) = demanded
  BY DEF MaxOf
<1>4. /\ plan.steps = steps
      /\ plan.requirement = demanded
      /\ plan.reasons = evaluation.reasons
      /\ plan.sentence = IF demanded = risk THEN sentence
                         ELSE ConfirmationPrompt(built, demanded)
  BY <1>2, <1>3 DEF ApplyEvaluation
<1> HIDE DEF plan
<1>5. plan.sentence.key = KeyFor(demanded) /\ plan.sentence.steps = steps
  <2>1. CASE demanded = risk
    BY <1>1, <1>4, <2>1
  <2>2. CASE demanded # risk
    <3>1. ConfirmationAction(built) = steps
      BY <1>1, <1>2 DEF ConfirmationAction, KeyFor
    <3>2. ConfirmationPrompt(built, demanded) = Sentence(KeyFor(demanded), steps)
      BY <3>1 DEF ConfirmationPrompt
    <3>3. QED
      BY <1>4, <2>2, <3>2 DEF Sentence
  <2>3. QED
    BY <2>1, <2>2
<1>6. QED
  BY <1>4, <1>5 DEF WaitsForItsKey, SaysWhatAndWhy, plan

\* The plan builders, and that of a sequence.
LEMMA RequestIsBuilt ==
  ASSUME NEW kind
  PROVE  IsBuilt(PlanFor(kind), <<kind>>, RiskOf(kind))
<1> DEFINE sentence == IF RiskOf(kind) = Low THEN Sentence("none", <<>>)
                       ELSE Sentence(IF RiskOf(kind) = High THEN "Y" ELSE "y", <<kind>>)
<1>1. sentence.key = KeyFor(RiskOf(kind)) /\ (RiskOf(kind) # Low => sentence.steps = <<kind>>)
  BY RiskType DEF Sentence, KeyFor
<1>2. PlanFor(kind) = NewPlan(<<kind>>, RiskOf(kind), sentence)
  BY DEF PlanFor
<1>3. QED
  BY <1>1, <1>2 DEF IsBuilt

LEMMA SequenceIsBuilt ==
  ASSUME NEW kinds
  PROVE  IsBuilt(SequencePlan(kinds), kinds, IF HasHighRisk(kinds) THEN High ELSE Medium)
<1> DEFINE risk == IF HasHighRisk(kinds) THEN High ELSE Medium
           sentence == Sentence(IF HasHighRisk(kinds) THEN "Y" ELSE "y", kinds)
<1>1. sentence.key = KeyFor(risk) /\ sentence.steps = kinds
  BY DEF Sentence, KeyFor
<1>2. SequencePlan(kinds) = NewPlan(kinds, risk, sentence)
  BY DEF SequencePlan
<1> HIDE DEF risk, sentence
<1>3. QED
  BY <1>1, <1>2 DEF IsBuilt, risk

\* A request that is queued waits for its key, and says so.
LEMMA QueueRequestSafe == PlanInv /\ QueueRequest => PlanInv'
<1> SUFFICES ASSUME PlanInv, QueueRequest PROVE PlanInv'
  OBVIOUS
<1> PICK kind \in Kinds \ ReadKinds :
      LET branch == IF kind \in BoundKinds THEN checkedOut ELSE NoBranch
          plan   == ApplyEvaluation(PlanFor(kind), Explained(rules, RiskOf(kind), kind, branch))
      IN ~IsDisabled(rules, kind) /\ plan.requirement # NormalSelection /\ queued' = plan
  BY DEF QueueRequest
<1> DEFINE branch == IF kind \in BoundKinds THEN checkedOut ELSE NoBranch
           e == Explained(rules, RiskOf(kind), kind, branch)
<1>1. /\ queued' = ApplyEvaluation(PlanFor(kind), e)
      /\ queued'.requirement # NormalSelection
  OBVIOUS
<1>2. IsExplained(e) /\ RiskOf(kind) <= e.requirement
  <2>1. rules \in PolicyRecords
    BY ConfirmationAssumption DEF PlanInv
  <2>2. QED
    BY <2>1, RiskExplains
<1> HIDE DEF e
<1>3. RiskOf(kind) \in RiskLevels /\ e.requirement \in Requirements
  BY <1>2, RiskType DEF IsExplained
<1>4. e.requirement # NormalSelection
  <2>1. PlanFor(kind).requirement = RiskOf(kind)
    BY DEF PlanFor, NewPlan, RiskFloor
  <2>2. queued'.requirement = MaxOf(RiskOf(kind), e.requirement)
    BY <1>1, <2>1 DEF ApplyEvaluation
  <2>3. QED
    BY <1>1, <1>2, <1>3, <2>2 DEF MaxOf
<1>5. \E i \in 1..Len(e.reasons) : e.reasons[i].demands = e.requirement
  <2>1. 1 \in 1..Len(e.reasons) /\ e.reasons[1].demands = e.requirement
    BY <1>2 DEF IsExplained
  <2>2. QED
    BY <2>1
<1>6. WaitsForItsKey(queued') /\ SaysWhatAndWhy(queued')
  <2>1. e.reasons \in Seq(ReasonRecords)
    BY <1>2 DEF IsExplained
  <2>2. QED
    BY <1>1, <1>2, <1>3, <1>4, <1>5, <2>1, RequestIsBuilt, RewritingKeepsItTrue
<1>7. rules' \in Rules
  BY DEF QueueRequest, PlanInv
<1>8. QED
  BY <1>6, <1>7 DEF PlanInv

\* Every step of a sequence is evaluated twice, and explained both times.
LEMMA StepsAreExplained ==
  ASSUME rules \in PolicyRecords, NEW steps \in PromptSequences,
         \A i \in 1..Len(steps) : ~IsDisabled(rules, steps[i].kind)
  PROVE  LET n == Len(steps)
             evaluations == SequenceEvaluations(steps)
         IN /\ n \in Nat \ {0}
            /\ Len(evaluations) = n + n /\ DOMAIN evaluations = 1..(n + n)
            /\ \A i \in 1..(n + n) : IsExplained(evaluations[i])
            /\ \A i \in 1..n : /\ RiskOf(steps[i].kind) <= evaluations[i].requirement
                               /\ Medium <= evaluations[n + i].requirement
<1> DEFINE n == Len(steps)
           own == [i \in 1..n |-> StepEvaluation(steps, i, RiskOf(steps[i].kind))]
           raised == [i \in 1..n |-> StepEvaluation(steps, i, SequenceRisk(RiskOf(steps[i].kind)))]
           evaluations == own \o raised
<1>1. n \in Nat \ {0} /\ \A i \in 1..n : steps[i].kind \in Kinds
  <2> DEFINE Steps == [kind : Kinds, target : Branches \cup {NoBranch}]
  <2>1. steps \in Seq(Steps) /\ steps # <<>>
    BY ConfirmationAssumption
  <2>2. \A step \in Steps : step.kind \in Kinds
    OBVIOUS
  <2> HIDE DEF Steps
  <2>3. n \in Nat \ {0} /\ \A i \in 1..n : steps[i] \in Steps
    BY <2>1
  <2>4. QED
    BY <2>2, <2>3
<1>2. ASSUME NEW i \in 1..n
      PROVE  /\ IsExplained(own[i]) /\ RiskOf(steps[i].kind) <= own[i].requirement
             /\ IsExplained(raised[i]) /\ Medium <= raised[i].requirement
  <2> DEFINE kind == steps[i].kind
             branch == BranchBefore(steps, i)
  <2>1. kind \in Kinds /\ ~IsDisabled(rules, kind)
    BY <1>1
  <2>2. /\ own[i] = Explained(rules, RiskOf(kind), kind, branch)
        /\ raised[i] = Explained(rules, SequenceRisk(RiskOf(kind)), kind, branch)
    BY DEF StepEvaluation
  <2>3. SequenceRisk(RiskOf(kind)) \in {Medium, High}
    BY RiskType
  <2> HIDE DEF own, raised, kind, branch
  <2>4. IsExplained(own[i]) /\ RiskOf(kind) <= own[i].requirement
    BY <2>1, <2>2, RiskExplains
  <2>5. IsExplained(raised[i]) /\ SequenceRisk(RiskOf(kind)) <= raised[i].requirement
    BY <2>1, <2>2, RiskExplains
  <2>6. Medium <= raised[i].requirement
    BY <2>3, <2>5 DEF IsExplained
  <2>7. QED
    BY <2>4, <2>5, <2>6 DEF kind
<1>3. /\ Len(evaluations) = n + n /\ DOMAIN evaluations = 1..(n + n)
      /\ \A i \in 1..n : evaluations[i] = own[i] /\ evaluations[n + i] = raised[i]
  <2> DEFINE S == {own[i] : i \in 1..n} \cup {raised[i] : i \in 1..n}
  <2>1. own \in Seq(S) /\ raised \in Seq(S)
    BY <1>1
  <2>2. Len(own) = n /\ Len(raised) = n /\ n \in Nat
    BY <1>1
  <2> HIDE DEF own, raised, n, S
  <2>3. evaluations \in Seq(S) /\ Len(evaluations) = n + n
    BY <2>1, <2>2
  <2>4. \A i \in 1..n : evaluations[i] = own[i]
    BY <2>1, <2>2
  <2>5. \A i \in 1..n : evaluations[n + i] = raised[i]
    BY <2>1, <2>2
  <2>6. DOMAIN evaluations = 1..(n + n)
    <3> HIDE DEF evaluations
    <3>1. QED
      BY <2>3
  <2>7. QED
    BY <2>3, <2>4, <2>5, <2>6
<1>4. \A i \in 1..(n + n) : i \in 1..n \/ (i - n \in 1..n /\ n + (i - n) = i)
  BY <1>1
<1>5. SequenceEvaluations(steps) = evaluations
  BY DEF SequenceEvaluations
<1> HIDE DEF evaluations, own, raised
<1>6. ASSUME NEW i \in 1..(n + n) PROVE IsExplained(evaluations[i])
  <2>1. CASE i \in 1..n
    BY <1>2, <1>3, <2>1
  <2>2. CASE i - n \in 1..n /\ n + (i - n) = i
    <3>1. evaluations[i] = raised[i - n]
      BY <1>3, <2>2
    <3>2. QED
      BY <1>2, <2>2, <3>1
  <2>3. QED
    BY <1>4, <2>1, <2>2
<1>7. \A i \in 1..n : /\ RiskOf(steps[i].kind) <= evaluations[i].requirement
                      /\ Medium <= evaluations[n + i].requirement
  BY <1>2, <1>3
<1>8. QED
  BY <1>1, <1>3, <1>5, <1>6, <1>7

\* So does a sequence, whatever its steps are and the branches they switch to.
LEMMA QueueSequenceSafe == PlanInv /\ QueueSequence => PlanInv'
<1> SUFFICES ASSUME PlanInv, QueueSequence PROVE PlanInv'
  OBVIOUS
<1> PICK steps \in PromptSequences :
      LET kinds == [i \in 1..Len(steps) |-> steps[i].kind]
      IN /\ \A i \in 1..Len(steps) : ~IsDisabled(rules, kinds[i])
         /\ queued' = ApplyEvaluation(SequencePlan(kinds), Combined(SequenceEvaluations(steps)))
  BY DEF QueueSequence
<1> DEFINE n == Len(steps)
           kinds == [i \in 1..n |-> steps[i].kind]
           evaluations == SequenceEvaluations(steps)
           e == Combined(evaluations)
           risk == IF HasHighRisk(kinds) THEN High ELSE Medium
<1>1. queued' = ApplyEvaluation(SequencePlan(kinds), e)
  OBVIOUS
<1>2. rules \in PolicyRecords /\ rules' \in Rules
  BY ConfirmationAssumption DEF PlanInv, QueueSequence
<1>3. \A i \in 1..n : kinds[i] = steps[i].kind /\ ~IsDisabled(rules, steps[i].kind)
  OBVIOUS
<1>4. /\ n \in Nat \ {0}
      /\ Len(evaluations) = n + n /\ DOMAIN evaluations = 1..(n + n)
      /\ \A i \in 1..(n + n) : IsExplained(evaluations[i])
      /\ \A i \in 1..n : /\ RiskOf(steps[i].kind) <= evaluations[i].requirement
                         /\ Medium <= evaluations[n + i].requirement
  BY <1>2, <1>3, StepsAreExplained
<1>5. DOMAIN kinds = 1..n
  OBVIOUS
<1>6. IsBuilt(SequencePlan(kinds), kinds, risk)
  BY SequenceIsBuilt
<1> HIDE DEF kinds, evaluations, n
<1>7. /\ e.requirement \in Requirements
      /\ \A i \in 1..(n + n) : evaluations[i].requirement <= e.requirement
      /\ e.reasons \in Seq(ReasonRecords)
      /\ \E i \in 1..Len(e.reasons) : e.reasons[i].demands = e.requirement
  <2>1. n + n \in Nat \ {0}
    BY <1>4
  <2>2. QED
    BY <1>4, <2>1, CombinedExplains
<1> HIDE DEF e
<1>8. \A i \in 1..(n + n) : evaluations[i].requirement \in Requirements
  BY <1>4 DEF IsExplained
<1>9. Medium <= e.requirement
  <2>1. 1 \in 1..n /\ n + 1 \in 1..(n + n)
    BY <1>4
  <2>2. Medium <= evaluations[n + 1].requirement /\ evaluations[n + 1].requirement <= e.requirement
    BY <1>4, <1>7, <2>1
  <2>3. evaluations[n + 1].requirement \in Requirements
    BY <1>8, <2>1
  <2>4. QED
    BY <1>7, <2>2, <2>3
<1>10. HasHighRisk(kinds) => High <= e.requirement
  <2> SUFFICES ASSUME HasHighRisk(kinds) PROVE High <= e.requirement
    OBVIOUS
  <2>1. PICK i \in 1..n : RiskOf(steps[i].kind) >= High
    BY <1>3, <1>5 DEF HasHighRisk
  <2>2. i \in 1..(n + n) /\ RiskOf(steps[i].kind) \in RiskLevels
    BY <1>4, RiskType
  <2>3. /\ RiskOf(steps[i].kind) <= evaluations[i].requirement
        /\ evaluations[i].requirement <= e.requirement
        /\ evaluations[i].requirement \in Requirements
    BY <1>4, <1>7, <1>8, <2>2
  <2>4. QED
    BY <1>7, <2>1, <2>2, <2>3
<1>11. risk \in RiskLevels /\ risk <= e.requirement /\ e.requirement # NormalSelection
  BY <1>7, <1>9, <1>10
<1> HIDE DEF risk
<1>12. WaitsForItsKey(queued') /\ SaysWhatAndWhy(queued')
  BY <1>1, <1>6, <1>7, <1>11, RewritingKeepsItTrue
<1>13. QED
  BY <1>2, <1>12 DEF PlanInv

LEMMA PlanStep == PlanInv /\ [ConfirmationNext]_confirmationVars => PlanInv'
<1> SUFFICES ASSUME PlanInv, [ConfirmationNext]_confirmationVars PROVE PlanInv'
  OBVIOUS
<1>1. CASE QueueRequest
  BY <1>1, QueueRequestSafe
<1>2. CASE QueueSequence
  BY <1>2, QueueSequenceSafe
<1>3. CASE PressKey
  BY <1>3 DEF PlanInv, PressKey
<1>4. CASE RulesChange \/ BranchChange
  BY <1>4 DEF PlanInv, RulesChange, BranchChange
<1>5. CASE UNCHANGED confirmationVars
  BY <1>5 DEF PlanInv, confirmationVars
<1>6. QED
  BY <1>1, <1>2, <1>3, <1>4, <1>5 DEF ConfirmationNext

LEMMA PlanInvariant == ConfirmationSpec => []PlanInv
<1>1. ConfirmationInit => PlanInv
  BY DEF ConfirmationInit, PlanInv
<1>2. QED
  BY <1>1, PlanStep, PTL DEF ConfirmationSpec

-----------------------------------------------------------------------------
(***************************************************************************)
(* What a small terminal shows: the first of the reasons in their order.   *)
(***************************************************************************)
LEMMA SublistFirst ==
  ASSUME NEW S, NEW list \in Seq(S), NEW elements
  PROVE  LET sub == Sublist(list, elements)
         IN /\ sub \in Seq(S)
            /\ (\E j \in 1..Len(list) : list[j] \in elements) => sub # <<>>
            /\ sub # <<>> => sub[1] \in elements
<1> DEFINE sub == Sublist(list, elements)
           kept == {list[i] : i \in 1..Len(list)} \cap elements
<1>1. sub \in Seq(kept)
  BY SublistParts
<1>2. kept \subseteq S /\ kept \subseteq elements
  OBVIOUS
<1>3. ASSUME NEW j \in 1..Len(list), list[j] \in elements PROVE sub # <<>>
  <2>1. Has(sub, list[j])
    BY <1>3, SublistKeeps
  <2>2. QED
    BY <2>1 DEF Has
<1> HIDE DEF sub, kept
<1>4. sub \in Seq(S) /\ sub \in Seq(elements)
  BY <1>1, <1>2, SeqMonotonic
<1>5. sub # <<>> => sub[1] \in elements
  BY <1>4
<1>6. QED
  BY <1>3, <1>4, <1>5 DEF sub

LEMMA FirstOfTwo ==
  ASSUME NEW S, NEW a \in Seq(S), NEW b \in Seq(S)
  PROVE  /\ a \o b \in Seq(S)
         /\ a # <<>> => a \o b # <<>> /\ (a \o b)[1] = a[1]
         /\ a = <<>> => a \o b = b
  OBVIOUS

\* It demands the requirement, and is that of a protected branch if one does.
LEMMA FirstReason ==
  ASSUME NEW plan, SaysWhatAndWhy(plan)
  PROVE  LET first == OrderedReasons(plan)[1]
         IN /\ first.demands = plan.requirement
            /\ \A i \in DOMAIN plan.reasons :
                 /\ plan.reasons[i].demands = plan.requirement
                 /\ plan.reasons[i].rule = "protected"
                 => first.rule = "protected"
<1> DEFINE R == plan.reasons
           controlling == {r \in Range(R) : r.demands = plan.requirement}
           protecting == {r \in Range(R) : r.rule = "protected"}
           others == Range(R) \ controlling
           a == Sublist(R, controlling \cap protecting)
           b == Sublist(R, controlling \ protecting)
           c == Sublist(R, others \cap protecting)
           d == Sublist(R, others \ protecting)
<1>1. R \in Seq(ReasonRecords) /\ DOMAIN R = 1..Len(R) /\ \A i \in 1..Len(R) : R[i] \in Range(R)
  BY DEF SaysWhatAndWhy, Range
<1>2. PICK k \in 1..Len(R) : R[k] \in controlling
  BY <1>1 DEF SaysWhatAndWhy
<1>3. OrderedReasons(plan) = a \o b \o c \o d
  BY DEF OrderedReasons
<1>4. \A r \in controlling : r.demands = plan.requirement
  OBVIOUS
<1>5. \A r \in protecting : r.rule = "protected"
  OBVIOUS
<1>6. \A i \in 1..Len(R) : /\ R[i].demands = plan.requirement
                           /\ R[i].rule = "protected"
                           => R[i] \in controlling \cap protecting
  BY <1>1
<1> HIDE DEF R, controlling, protecting, others
<1>7. /\ a \in Seq(ReasonRecords) /\ b \in Seq(ReasonRecords)
      /\ c \in Seq(ReasonRecords) /\ d \in Seq(ReasonRecords)
  BY <1>1, SublistFirst
<1>8. /\ (\E j \in 1..Len(R) : R[j] \in controlling \cap protecting) => a # <<>>
      /\ a # <<>> => a[1] \in controlling \cap protecting
  BY <1>1, SublistFirst
<1>9. /\ (\E j \in 1..Len(R) : R[j] \in controlling \ protecting) => b # <<>>
      /\ b # <<>> => b[1] \in controlling \ protecting
  BY <1>1, SublistFirst
<1> HIDE DEF a, b, c, d
<1>10. /\ a # <<>> => (a \o b \o c \o d)[1] = a[1]
       /\ a = <<>> /\ b # <<>> => (a \o b \o c \o d)[1] = b[1]
  <2>1. /\ a \o b \in Seq(ReasonRecords)
        /\ a # <<>> => a \o b # <<>> /\ (a \o b)[1] = a[1]
        /\ a = <<>> => a \o b = b
    BY <1>7, FirstOfTwo
  <2>2. /\ a \o b \o c \in Seq(ReasonRecords)
        /\ a \o b # <<>> => a \o b \o c # <<>> /\ (a \o b \o c)[1] = (a \o b)[1]
    BY <1>7, <2>1, FirstOfTwo
  <2>3. a \o b \o c # <<>> => (a \o b \o c \o d)[1] = (a \o b \o c)[1]
    BY <1>7, <2>2, FirstOfTwo
  <2>4. QED
    BY <2>1, <2>2, <2>3, Zenon
<1> DEFINE first == OrderedReasons(plan)[1]
<1>11. CASE a # <<>>
  <2>1. first \in controlling /\ first \in protecting
    BY <1>3, <1>8, <1>10, <1>11
  <2>2. QED
    BY <1>4, <1>5, <2>1
<1>12. CASE a = <<>>
  <2>1. \A j \in 1..Len(R) : ~(R[j] \in controlling \cap protecting)
    BY <1>8, <1>12
  <2>2. b # <<>>
    BY <1>2, <1>9, <2>1
  <2>3. first \in controlling
    BY <1>3, <1>9, <1>10, <1>12, <2>2
  <2>4. first.demands = plan.requirement
    BY <1>4, <2>3
  <2>5. \A i \in 1..Len(R) : ~(R[i].demands = plan.requirement /\ R[i].rule = "protected")
    BY <1>6, <2>1
  <2>6. QED
    BY <1>1, <2>4, <2>5 DEF R
<1>13. QED
  BY <1>11, <1>12

-----------------------------------------------------------------------------
LEMMA KeyImplied == PlanInv => KeyIsTheOneNamed
<1> SUFFICES ASSUME PlanInv, queued # NoPlan, NEW key \in {"y", "Y", "n"}
             PROVE  /\ CarriesOut(key, queued.requirement) <=> queued.sentence.key = key
                    /\ CarriesOut(key, queued.requirement) <=> QueuePanel(queued).key = key
                    /\ CarriesOut(key, queued.requirement) <=> CompactPanel(queued).key = key
  BY DEF KeyIsTheOneNamed
<1>1. WaitsForItsKey(queued)
  BY DEF PlanInv
<1>2. CarriesOut(key, queued.requirement) <=> KeyFor(queued.requirement) = key
  BY <1>1, KeyCarriesOut DEF WaitsForItsKey
<1>3. /\ QueuePanel(queued).key = KeyFor(queued.requirement)
      /\ CompactPanel(queued).key = KeyFor(queued.requirement)
  BY DEF QueuePanel, CompactPanel
<1>4. QED
  BY <1>1, <1>2, <1>3 DEF WaitsForItsKey

LEMMA PanelsImplied == PlanInv => ShowsWhatWillRunAndWhy
<1> SUFFICES ASSUME PlanInv, queued # NoPlan PROVE ShowsWhatWillRunAndWhy
  BY DEF ShowsWhatWillRunAndWhy
<1>1. WaitsForItsKey(queued) /\ SaysWhatAndWhy(queued)
  BY DEF PlanInv
<1>2. queued.sentence.steps = queued.steps
  BY <1>1 DEF SaysWhatAndWhy
<1>3. ConfirmationAction(queued) = queued.steps
  BY <1>2 DEF ConfirmationAction
<1>4. /\ QueuePanel(queued).action = queued.steps
      /\ CompactPanel(queued).action = queued.steps
      /\ CompactPanel(queued).reason = OrderedReasons(queued)[1]
  BY <1>3 DEF QueuePanel, CompactPanel
<1>5. QED
  BY <1>1, <1>2, <1>4, FirstReason DEF ShowsWhatWillRunAndWhy

\* The prompt, the queue panel and the panel of a small terminal name the key
\* that carries the plan out (apply_policy_evaluation, handle_key).
THEOREM NamedKeyWorks == ConfirmationSpec => []KeyIsTheOneNamed
<1>1. QED
  BY KeyImplied, PlanInvariant, PTL

\* For all policies and sequences the prompt and the panels speak of the steps
\* that will be run, and the reason shown first demands the requirement: a
\* protected branch is named when it does (policy_reason, confirmation_action).
THEOREM PlanIsExplained == ConfirmationSpec => []ShowsWhatWillRunAndWhy
<1>1. QED
  BY PanelsImplied, PlanInvariant, PTL
=============================================================================
