----------------------------- MODULE MCDataGen -----------------------------
EXTENDS DataGen

CONSTANTS j1, j2

MCJob == {j1, j2}
MCAscii == {j1}
MCNamings == {[j \in MCJob |-> "a"],
              [j \in MCJob |-> IF j = j1 THEN "a" ELSE "b"]}
=============================================================================
