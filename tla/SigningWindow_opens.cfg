CONSTANTS
    Sessions = {1, 2}
    None = None
    Empty = Empty
SPECIFICATION Spec
PROPERTIES
    RequestOpensWindow
