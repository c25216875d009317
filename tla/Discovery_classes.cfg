CONSTANTS
    Classes = {A, B}
    Methods = {"run", "m"}
    Names = {"n"}
    Options = {o}
    NULL = NULL
    MaxHandlers = 2
    MaxOptions = 1
SPECIFICATION AppSpec
CHECK_DEADLOCK FALSE
SYMMETRY Symmetry
CONSTRAINT OptionsApart
INVARIANTS
    ProvidersInv
    HashDeterminesInterface
    ClientsReachWhatIsServed
    RefusesTheUnworkable
PROPERTIES
    ParentHandlersKept
