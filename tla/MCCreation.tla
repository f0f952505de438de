----------------------------- MODULE MCCreation -----------------------------
(* Requests for TLC: a single and batches that share a key, batches whose items take keys in
   opposite orders, a batch whose item has no key, a batch without a key, an invalid batch. *)
EXTENDS Creation

CONSTANTS k1, k2, h1, h2, h3

Single(k) == [kind |-> "single", key |-> k, items |-> <<k>>, valid |-> TRUE]
Batch(k, keys) == [kind |-> "batch", key |-> k, items |-> keys, valid |-> TRUE]

AllRequests ==
  {Single(k1), Batch(k1, <<k1, k2>>), Batch(NoKey, <<k2, k1>>), Batch(k1, <<NoKey>>),
   [Batch(k1, <<NoKey>>) EXCEPT !.valid = FALSE]}
PlainBatches == {Batch(k1, <<NoKey, NoKey>>)}
PlainSingles == {Single(k1)}

AllFaults == {"lookup", "statement", "lost_commit", "mapping", "crash"}
NoFaults == {}
=============================================================================
