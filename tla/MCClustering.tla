----------------------------- MODULE MCClustering ------------------------------
(***************************************************************************)
(* Four reports on one topic: two of one event, a straggler whose day is   *)
(* near the first's only, and one of another season; two name the same     *)
(* organisations in opposite order. Three clusters on the topic are one    *)
(* more than are looked at.                                                *)
(***************************************************************************)
EXTENDS Clustering, TLC

CONSTANTS d1, d2, d3, d4, port, n1, n2

MCTopicOf == d1 :> port @@ d2 :> port @@ d3 :> port @@ d4 :> port
MCPublishedAt == d1 :> 3 @@ d2 :> 5 @@ d3 :> 1 @@ d4 :> 8
MCNamesOf == d1 :> <<n1, n2>> @@ d2 :> <<n1>> @@ d3 :> <<>> @@ d4 :> <<n2, n1>>
=============================================================================
