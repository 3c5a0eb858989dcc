------------------------------- MODULE MCServer -------------------------------
EXTENDS Server
MCNetGroup(a) == IF a \in {"a", "p"} THEN "g" ELSE a
===============================================================================
