------------------------------ MODULE MCPassages -------------------------------
(***************************************************************************)
(* All short texts of the characters normalisation is about, and texts of  *)
(* up to five sentences around the limits of a chunk.                      *)
(***************************************************************************)
EXTENDS Passages

Short == {"base", "accent", "invisible", "space", "composed"}

\* A sentence of n characters, its terminator and blank included.
Sentence(n) == [i \in 1 .. n |-> IF i = n THEN "space" ELSE IF i = n - 1 THEN "stop" ELSE "other"]

MCBodies ==
    BoundedSeq({"base", "accent", "invisible", "space", "nbsp"}, 4)
        \cup {FlattenSeq([i \in DOMAIN s |-> Sentence(s[i])]) : s \in BoundedSeq({2, 3, 4, 7}, 5)}

MCQuotes == BoundedSeq(Short, 3)
=============================================================================
