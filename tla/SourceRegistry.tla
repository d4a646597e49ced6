---------------------------- MODULE SourceRegistry ----------------------------
(***************************************************************************)
(* A row of the sources table (models/source.py) and what the operator's   *)
(* script review_source_terms.py does to it.                               *)
(*                                                                         *)
(* The two adapter flags, endpoint_verified and format_confirmed, are set  *)
(* and asked for alike and are one field here, as are the two validators,  *)
(* last_etag and last_modified_header. Columns no decision reads (the URL, *)
(* failure counter, reasons, licence, notes) are left out, and with them   *)
(* the refresh of seed_sources.py, which writes no others.                 *)
(***************************************************************************)
EXTENDS Naturals

CONSTANTS
    Editions,      \* states of a publisher's feed; also their validators
    NoEtag

ASSUME EtagAssumption == NoEtag \notin Editions

Source == [enabled : BOOLEAN, reviewed : BOOLEAN, verified : BOOLEAN,
           fullText : BOOLEAN, etag : Editions \cup {NoEtag}]

\* The row seed_sources.py creates: disabled, unverified, unreviewed.
Seeded == [enabled |-> FALSE, reviewed |-> FALSE, verified |-> FALSE,
           fullText |-> FALSE, etag |-> NoEtag]

\* The CHECK constraints of the table.
GateAccepts(row) ==
    /\ row.enabled => row.reviewed /\ row.verified
    /\ row.fullText => row.reviewed

\* What an operator may pass to review_source_terms.py. A review without
\* reviewer, terms URL or note changes nothing and is left out.
Form == [records : BOOLEAN, verifies : BOOLEAN, permits : BOOLEAN, enables : BOOLEAN]

EnableAllowed(row) == row.reviewed /\ row.verified

\* A refused --enable ends the script inside its transaction, which commits
\* what the other flags did.
AfterReview(row, form) ==
    LET noted == [row EXCEPT !.reviewed = @ \/ form.records,
                             !.verified = @ \/ form.verifies,
                             !.fullText = @ \/ form.permits]
    IN  [noted EXCEPT !.enabled = @ \/ (form.enables /\ EnableAllowed(noted))]

=============================================================================
