CONSTANTS
    Item <- MCItem
    NoItem = NoItem
    SIZE = 4
SPECIFICATION Spec
INVARIANTS TypeOK IndicesAgree EndsAgree
PROPERTY ImplementsDeque
