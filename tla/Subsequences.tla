---------------------------- MODULE Subsequences ----------------------------
(* The elements of a sequence that are in a set, in their order: SelectSeq with the  *)
(* set for the test, so that it can be reasoned about.                                *)
EXTENDS Integers, Sequences

Picked(s, keep) ==
    LET kept[i \in 0 .. Len(s)] ==
            IF i = 0 THEN <<>>
            ELSE IF s[i] \in keep THEN Append(kept[i - 1], s[i])
            ELSE kept[i - 1]
    IN kept[Len(s)]
=============================================================================
