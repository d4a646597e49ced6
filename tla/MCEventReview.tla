----------------------------- MODULE MCEventReview -----------------------------
(***************************************************************************)
(* A small instance of EventReview.                                        *)
(***************************************************************************)
EXTENDS EventReview

MCLevels == {"low", "high"}
MCAlwaysReview == {"high"}

Routine == [ severity |-> "low", core |-> "c1", title |-> "t1", confidence |-> 9000,
             places |-> {"p"}, actors |-> {}, sectors |-> {}, mentioned |-> {"p"},
             quoted |-> {}, fullText |-> TRUE ]

\* One report per way a document can relate to a record; the sectors, which are
\* added as the organisations are, are MCReviewRace's.
MCReports ==
    { Routine,
      [Routine EXCEPT !.confidence = 7004],                  \* weak once fields are missing
      [Routine EXCEPT !.confidence = 6996],                  \* 0.5996 flags, 0.600 is stored
      [Routine EXCEPT !.core = "c2"],
      [Routine EXCEPT !.severity = "high"],
      [Routine EXCEPT !.severity = "high", !.quoted = {"severity"}],
      [Routine EXCEPT !.actors = {"a"}, !.mentioned = {"a"}],
      [Routine EXCEPT !.actors = {"a"}, !.mentioned = {}],
      [Routine EXCEPT !.severity = "high", !.quoted = {"severity"},
                      !.actors = {"a"}, !.mentioned = {"a"}] }
=============================================================================
