--------------------------- MODULE MCDomainContext ---------------------------
EXTENDS DomainContext

CONSTANTS h1, h2, h3

EntryByAll == [d \in Domain |-> IF d = Root THEN {} ELSE Domain \ {Root, d}]
BridgeOneTwo == {<<1, 2>>}

\* Three harts: h3 is the root domain's, which may stop and start the others; h1
\* and h2 are domain 1's, and h1 visits domain 2.
ThreeHarts == {h1, h2, h3}
HomeOfThree == [h \in ThreeHarts |-> IF h = h3 THEN Root ELSE 1]
OneVisits == [d \in Domain |-> IF d = 2 THEN {h1} ELSE ThreeHarts]
BootOfThree == [d \in Domain |-> IF d = Root THEN h3 ELSE h1]

\* Two harts, both domain 1's, both visiting; each domain boots on h1.  No hart
\* is left in the root domain.
Harts == {h1, h2}
HomeInOne == [h \in Harts |-> 1]
AllPossible == [d \in Domain |-> Harts]
BootOnFirst == [d \in Domain |-> h1]

\* Two harts: h1 is domain 1's, h2 the root domain's, which may stop the others.
HomeApart == [h \in Harts |-> IF h = h1 THEN 1 ELSE Root]
BootApart == [d \in Domain |-> IF d = Root THEN h2 ELSE h1]
===============================================================================
