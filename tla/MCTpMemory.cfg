\* Two addresses and units of two bytes; sizes around one and two units.
SPECIFICATION Spec
CONSTANTS
    Ptr = {p, q}
    UNIT = 2
    MaxSize = 4
    Value = {"u", "v"}
INVARIANT
    GuardsAgree
    WellGuarded
PROPERTY
    DataKept
