SPECIFICATION Spec
CONSTANTS
    Request = {r1}
    Kind = {"token", "register", "delete"}
CHECK_DEADLOCK FALSE
INVARIANTS
    AnsweredIsCounted
