------------------------------ MODULE MCIngestion ------------------------------
(***************************************************************************)
(* Small instances of Ingestion.                                           *)
(***************************************************************************)
EXTENDS Ingestion, TLC

\* One item of the first edition cannot be stored; the third one breaks
\* whatever parses it.
MCPublishes == ("e1" :> {"i1", "broken"} @@ "e2" :> {"i2"} @@ "bad" :> {})

\* The first publisher edits its feed, the second one has broken its own for good.
MCServes == (1 :> {"e1", "e2"} @@ 2 :> {"bad"})

\* The second publisher breaks its feed and repairs it; the first one does neither.
MendedServes == (1 :> {"e1"} @@ 2 :> {"e2", "bad"})

\* A review that allows everything, and an attempt to enable without one.
Permission == [records |-> TRUE, verifies |-> TRUE, permits |-> TRUE, enables |-> TRUE]
Shortcut == [records |-> FALSE, verifies |-> TRUE, permits |-> FALSE, enables |-> TRUE]
MCForms == {Permission, Shortcut}
OneForm == {Permission}

AnyWorkerFirst == Permutations(Workers)
=============================================================================
