SPECIFICATION Spec
CONSTANTS
    Clients = {c1, c2}
    c1 = c1
    c2 = c2
    Half = 8
INVARIANT TypeOK
INVARIANT AnswerBounded
INVARIANT AnswerAdvances
INVARIANT EveryoneGetsAnObject
 
SYMMETRY Symmetry
CHECK_DEADLOCK FALSE
