------------------------------- MODULE Selection -------------------------------
(***************************************************************************)
(* Loops that go through a list in its order and keep some of its elements:*)
(* the operations that a filter exposes (discovery/openapi_fetcher.py), the*)
(* ids that a reload leaves (discovery/manual_loader.py).                  *)
(***************************************************************************)
EXTENDS Naturals, Sequences

(* The elements of a sequence that are in a set, in their order.           *)
Among(seq, S) ==
    LET kept[n \in 0 .. Len(seq)] ==
            IF n = 0 THEN <<>>
            ELSE IF seq[n] \in S THEN Append(kept[n - 1], seq[n]) ELSE kept[n - 1]
    IN  kept[Len(seq)]
================================================================================
