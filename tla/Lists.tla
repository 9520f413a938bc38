-------------------------------- MODULE Lists --------------------------------
(***************************************************************************)
(* Vec::retain and Iterator::filter, as the store and the confirmation of  *)
(* a plan use them, written as a recursive function: what it returns for   *)
(* every list is proved in Local_proofs.                                   *)
(***************************************************************************)
EXTENDS Naturals, Sequences

\* The elements of a list that are among the given ones, in their order.
Sublist(list, elements) ==
  LET sub[i \in 0..Len(list)] ==
        IF i = 0 THEN <<>>
        ELSE IF list[i] \in elements THEN Append(sub[i - 1], list[i])
        ELSE sub[i - 1]
  IN sub[Len(list)]

=============================================================================
