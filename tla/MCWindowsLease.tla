--------------------------- MODULE MCWindowsLease ---------------------------
EXTENDS WindowsClaims

CONSTANTS small, large, custom

\* Windows recommends and offers less in the small mode, in which the display
\* starts, than in the others: 100% of at most 175%, and 150% of at most 250%.
OtherThanStart == [m \in Modes |-> IF m = small THEN 0 ELSE 2]
UpTo           == [m \in Modes |-> IF m = small THEN 3 ELSE 6]
=============================================================================
