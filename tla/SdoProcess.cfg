SPECIFICATION Spec
CONSTANTS
    Values = {"probe", "alternate", "other"}
    Probe = "probe"
    Alternate = "alternate"
INVARIANTS
    TypeOK
    PassMeansRestored
    NoCallOnUnknownChannel
    NeverSilentlyModified
