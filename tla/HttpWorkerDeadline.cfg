SPECIFICATION Spec
CONSTANTS
    Clients = {c1, c2}
    NoClient = NoClient
    Never = Never
    Timeout = 2
PROPERTIES
    AnsweredInTime
