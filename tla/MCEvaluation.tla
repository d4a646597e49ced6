------------------------------ MODULE MCEvaluation ------------------------------
(***************************************************************************)
(* A small labelled set: a lone report, an update and a duplicate of a     *)
(* set-up report and, from v2, a background notice. The second revision of *)
(* v2 has a regression.                                                    *)
(***************************************************************************)
EXTENDS Evaluation, TLC

Alone == [same_cluster |-> FALSE, documents |-> <<"closure">>]
Update == [same_cluster |-> TRUE, documents |-> <<"setup", "update">>]
Duplicate == [same_cluster |-> TRUE, documents |-> <<"setup", "repeat">>]
Background == [same_cluster |-> FALSE, documents |-> <<"notice">>]

MCScenarios == "v1" :> <<Alone, Update, Duplicate>>
            @@ "v2" :> <<Update, Duplicate, Background>>
MCVersion == "first" :> "v1" @@ "second" :> "v2" @@ "third" :> "v2"
MCBroken == "first" :> {} @@ "second" :> {} @@ "third" :> {"setup"}
MCScript == "closure" :> "closed" @@ "setup" :> "closed" @@ "update" :> "reopened"
         @@ "repeat" :> "closed" @@ "notice" :> "background"
MCExpected == "closure" :> "new_event" @@ "setup" :> "new_event" @@ "update" :> "update"
           @@ "repeat" :> "duplicate" @@ "notice" :> "none"

AnyJobFirst == Permutations(Jobs)
=============================================================================
