------------------------------ MODULE ReviewPolicy ------------------------------
(***************************************************************************)
(* What human review promises, with no row, column or session in sight:    *)
(* where each record is shown, whether a human stands behind what it says, *)
(* and whether it is of the kind that needs one (CONSTRAINTS.md Section 6, *)
(* ADR-0003 D4, ADR-0004 D4).  EventReview implements it.                  *)
(***************************************************************************)
CONSTANT Events

VARIABLES
    place,     \* "nowhere", "feed", "queue" or "rejected"
    vouched,   \* a human cleared what the record now says
    serious    \* high impact or weakly evidenced

vars == <<place, vouched, serious>>

Whereabouts == {"nowhere", "feed", "queue", "rejected"}

TypeOK == /\ place \in [Events -> Whereabouts]
          /\ vouched \in [Events -> BOOLEAN]
          /\ serious \in [Events -> BOOLEAN]

Init == /\ place = [e \in Events |-> "nowhere"]
        /\ vouched = [e \in Events |-> FALSE]
        /\ serious = [e \in Events |-> FALSE]

\* The machine may show a record by itself only while nobody needs to see it.
Show(e, s, where) ==
    /\ where = "queue" \/ (where = "feed" /\ ~s)
    /\ place' = [place EXCEPT ![e] = where]
    /\ vouched' = [vouched EXCEPT ![e] = FALSE]
    /\ serious' = [serious EXCEPT ![e] = s]

\* A first report.
Publish(e) ==
    /\ place[e] = "nowhere"
    /\ \E s \in BOOLEAN, where \in {"feed", "queue"} : Show(e, s, where)

\* A later report that is news: a record the machine alone put in the feed may
\* stay there, anything a human has judged or must judge goes to the queue.
Revise(e) ==
    /\ place[e] # "nowhere"
    /\ \E s \in BOOLEAN :
          \/ Show(e, s, "queue")
          \/ place[e] = "feed" /\ ~vouched[e] /\ Show(e, s, "feed")

\* A human clears the record as it stands, corrected or not.
Clear(e) ==
    /\ place[e] # "nowhere"
    /\ place' = [place EXCEPT ![e] = "feed"]
    /\ vouched' = [vouched EXCEPT ![e] = TRUE]
    /\ \E s \in BOOLEAN : serious' = [serious EXCEPT ![e] = s]

Reject(e) ==
    /\ place[e] # "nowhere"
    /\ place' = [place EXCEPT ![e] = "rejected"]
    /\ vouched' = [vouched EXCEPT ![e] = FALSE]
    /\ UNCHANGED serious

Next == \E e \in Events : Publish(e) \/ Revise(e) \/ Clear(e) \/ Reject(e)

Spec == Init /\ [][Next]_vars

-----------------------------------------------------------------------------
\* A serious record in the feed has a human behind it.
SeriousIsVouched ==
    \A e \in Events : place[e] = "feed" /\ serious[e] => vouched[e]

\* Only a human takes a record out of the queue.
OnlyHumansClear ==
    [][ \A e \in Events :
          place[e] = "queue" /\ place'[e] # "queue" => Clear(e) \/ Reject(e) ]_vars
=============================================================================
