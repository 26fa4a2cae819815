CONSTANTS
    Sayings <- MCIntegers
    MaxRows = 1
SPECIFICATION Spec
PROPERTY IntegersKept
