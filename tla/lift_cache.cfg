CONSTANTS
    Contexts = {c1, c2}
    Addresses = {0, 1}
    Codes = {1, 2}
    Modes = {1, 2}
    Fresh <- FreshModes
    Stores = {0}
    Marked = {1}
    Length <- LengthOf
SPECIFICATION Spec
INVARIANT
    TypeOK
    StepsFaithful
PROPERTY
    RaceHarmless
    LiftsEnd
