\* Two lists and four links that move between them.
SPECIFICATION Spec
CONSTANTS
    Header = {h1, h2}
    Node = {n1, n2, n3, n4}
INVARIANTS
    SameBackwards
    WellLinked
PROPERTY
    ImplementsLists
