----------------------------- MODULE MCTarfsLayers ------------------------------
EXTENDS TarfsLayers
CONSTANTS l1, l2, b1, b2

\* An image of two layers.
MCBlobOf == [l \in Layer |-> IF l = l1 THEN b1 ELSE b2]
MCStack == [l \in Layer |-> IF l = l1 THEN <<l1>> ELSE <<l2, l1>>]
=================================================================================
