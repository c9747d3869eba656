SPECIFICATION FairSpec
CONSTANTS
    Request = {r1}
    Kind = {"metrics"}
CHECK_DEADLOCK FALSE
PROPERTIES
    EveryRequestAnswered
