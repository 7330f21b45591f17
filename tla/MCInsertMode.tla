------------------------------ MODULE MCInsertMode ------------------------------
EXTENDS InsertMode
CONSTANTS r, c, e, f

Regularly == [call |-> "component", component |-> r]
Element(i, q) == [call |-> "element", component |-> c, index |-> i, process |-> q]

AllComponents == {r, c}
OneCollection == {c}
TwoElements == {e, f}

RegularFirst == <<Regularly, Element(e, 1), Element(f, 1)>>
RegularLast == <<Element(f, 1), Element(e, 1), Regularly>>
AnyOrder == {RegularFirst, RegularLast}
=============================================================================
