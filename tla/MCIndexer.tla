----------------------------- MODULE MCIndexer -----------------------------
EXTENDS Indexer, TLC
CONSTANTS u, v, x, y, z
MCPages == {(x :> 1) @@ (y :> 0) @@ (z :> 1), (x :> 2) @@ (y :> 1) @@ (z :> 0), NoPage}
=============================================================================
