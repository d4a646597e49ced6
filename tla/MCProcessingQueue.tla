--------------------------- MODULE MCProcessingQueue ---------------------------
(***************************************************************************)
(* Small instances of ProcessingQueue.                                     *)
(***************************************************************************)
EXTENDS ProcessingQueue

\* An answer that ends at the first call, one that is kept although a second call is
\* made and may fail, one that is neither result nor error, and one that counts as a
\* failed attempt.
MCHeard == {"verified", "weak", "nothing", "unreachable"}
=============================================================================
