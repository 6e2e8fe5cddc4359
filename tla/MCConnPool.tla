------------------------------ MODULE MCConnPool ------------------------------
EXTENDS ConnPool

Opts(c, k, e) == [Capacity |-> c, KeyCapacity |-> k, Expires |-> e]

\* A limit that binds overall and none per key, with expiration; the reverse, without;
\* and a negative limit that holds nothing.
MCOptionSet == {Opts(2, 0, TRUE), Opts(0, 1, FALSE), Opts(0, -1, FALSE)}

\* Room for three connections of one key.
MCOptionSetOrphan == {Opts(3, 3, TRUE)}

\* Goroutines are interchangeable, and so are connections and keys.
MCSymmetry == Permutations(Tasks) \cup Permutations(Conns) \cup Permutations(Keys)
==============================================================================
