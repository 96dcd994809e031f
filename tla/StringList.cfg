SPECIFICATION Spec
CONSTANTS
    List = {l1, l2}
    Text = {1, 2}
    Address = {a1, a2, a3}
    Null = Null
    DefaultCapacity = 2
    Sizes = {0, 1}
    MaxCapacity = 4
SYMMETRY Interchangeable
INVARIANTS
    TypeOK
    ItemsOwned
PROPERTY ImplementsList
