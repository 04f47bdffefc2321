\* Two lists that share three items.
SPECIFICATION Spec
CONSTANTS
    Lists = {todo, doing}
    Items = {a, b, c}
    NULL = NULL
    First = First
INVARIANTS
    HeadsAgree
    ListsApart
PROPERTY ImplementsDeque
