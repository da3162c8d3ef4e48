CONSTANTS
    d1 = d1
    d2 = d2
    y1 = y1
    y2 = y2
    i1 = i1
    i2 = i2
    a1 = a1
    a2 = a2
    l1 = l1
    l2 = l2
    p1 = p1
    Device = {d1, d2}
    Day = {y1, y2}
    Address = {i1, i2}
    addressOf <- MCAddressOf
    Attempt = {a1, a2}
    Probe = {p1}
    Load = {l1, l2}
    None = None
    MaxActs = 6
    MaxPolls = 2
SPECIFICATION Spec
INVARIANTS ShownIsOfDevice RecordingsOfDevice WarningIsCurrent
PROPERTIES RequestsOfOneDevice
CHECK_DEADLOCK FALSE
SYMMETRY Symmetry
