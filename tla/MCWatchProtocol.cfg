SPECIFICATION Spec
CONSTANTS
    Clients = {c1, c2}
    Sound = {c1}
    NoClient = NoClient
    Capacity = 1
INVARIANTS
    NobodyForgotten
PROPERTIES
    ImplementsReadCommand
    HandlerEnds
