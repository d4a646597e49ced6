------------------------------ MODULE MCReviewRace ------------------------------
EXTENDS ReviewRace, TLC

\* Who reviews and which worker merges makes no difference; no liveness is checked.
MCSymmetry == Permutations(Reviewers) \cup Permutations(Workers)

MCLevels == {"low", "high"}
MCAlwaysReview == {"high"}

Routine == [ severity |-> "low", core |-> "c1", title |-> "t1", confidence |-> 9000,
             places |-> {"p"}, actors |-> {}, sectors |-> {}, mentioned |-> {"p"},
             quoted |-> {"severity"}, fullText |-> TRUE ]

\* A routine report, and a serious and less sure one that names somebody new, is
\* flushed early and affects a sector.
MCReports ==
    { Routine,
      [Routine EXCEPT !.severity = "high", !.confidence = 7500,
                      !.actors = {"a"}, !.mentioned = {"a"}, !.sectors = {"s"},
                      !.quoted = {"severity", "affected_sectors"}] }
=============================================================================
