---------------------------- MODULE MCStoredWrite ----------------------------
EXTENDS StoredWrite, TLC

CONSTANTS a, b, w1, w2, w3

Ask(k, fs, ns, t) == [kind |-> k, fields |-> fs, nulls |-> ns, stamp |-> t]

\* Early and late, of one field and of both; two of the same are a tie.
MCRequest == {
  Ask("insert", {a, b}, {}, 3), Ask("update", {a}, {}, 2), Ask("update", {a, b}, {b}, 4)}
Symmetry == Permutations(Datum)
=============================================================================
