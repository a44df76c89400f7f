SPECIFICATION Spec
CONSTANT MaxRetries = 6
INVARIANT TypeOK
PROPERTIES SendsOnce ReportsInTheEnd
CHECK_DEADLOCK FALSE
