------------------------------ MODULE MCFetcher ------------------------------
(* The small instance of Fetcher: two versions, the other one with fewer    *)
(* files in its archive; bodies of four units read two at a time.          *)
EXTENDS Fetcher

MCEntries == [v \in Versions |-> IF v = Good THEN 2 ELSE 1]
=============================================================================
