-------------------------------- MODULE Lists --------------------------------
(***************************************************************************)
(* The one helper on sequences that the models share: the elements of a    *)
(* list that belong to a set.  It is SelectSeq with a set in place of the  *)
(* test, so that facts about it can be stated, and cited, for every set.   *)
(***************************************************************************)
EXTENDS Integers, Sequences

Only(s, A) ==
  LET F[i \in 0 .. Len(s)] ==
        IF i = 0 THEN <<>>
        ELSE IF s[i] \in A THEN Append(F[i - 1], s[i]) ELSE F[i - 1]
  IN  F[Len(s)]
=============================================================================
