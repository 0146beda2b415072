SPECIFICATION Spec
CONSTANTS
    UNSET = UNSET
    NULL = NULL
    Names = {"a", "b"}
    Sizes = {1, 8}
    MinSize = 8
    Scalars <- MCScalars
    SkipArgs <- MCSkipArgs
    BanNumbers = {0, 3}
    Cidrs = {"proxy"}
    MaxDirectives = 3
INVARIANTS
    PolicyIsOneDirective
    NearestWins
    PolicyIsSound
PROPERTIES
    DirectivesStick
CHECK_DEADLOCK FALSE
