CONSTANTS
    Sessions = {1, 2}
    None = None
    Empty = Empty
SPECIFICATION Spec
INVARIANTS
    TypeOK
    PinIsForTheSessionShown
    OneApprovalAtATime
PROPERTIES
    SelectionIsShown
    EndedSessionLeaves
