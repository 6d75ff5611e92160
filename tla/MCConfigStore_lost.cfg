CONSTANTS
    Writers = {w1, w2}
    Fields = {"https", "port", "pin_env"}
    Values = {"default", "old"}
    BadValues = {"bad"}
    Default <- MCDefault
    LegacyPort = "old"
    LegacyPinEnv = "old"
    Requests <- MCRequests
    Originals <- MCSettled
SPECIFICATION Spec
PROPERTIES
    OnlySentFieldsChange
