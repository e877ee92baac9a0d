SPECIFICATION Spec
CONSTANTS
    Units = 2
    Codes <- MCCodes
    Last = 100
INVARIANTS
    ToldWhatWasSaid
