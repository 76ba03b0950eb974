SPECIFICATION Spec
CONSTANTS
    c1 = c1
    c2 = c2
    Calls <- TwoCalls
    Predicted = Predicted
    Other = Other
    index = 0
    Outcomes = {"success", "failure with reason"}
    None = None
    MaxBlock = 3
PROPERTIES
    WaitsForEvents
CHECK_DEADLOCK FALSE
