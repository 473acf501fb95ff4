--------------------------- MODULE MCGraphVersions ---------------------------
EXTENDS GraphVersions, TLC
CONSTANTS a, b, x
MCVerdict == [s \in SUBSET {x} |-> IF x \in s THEN "warn" ELSE "ok"]
=============================================================================
