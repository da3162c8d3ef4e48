CONSTANTS
    d1 = d1
    d2 = d2
    g1 = g1
    g2 = g2
    i1 = i1
    i2 = i2
    q1 = q1
    q2 = q2
    k1 = k1
    v1 = v1
    v2 = v2
    e1 = e1
    e2 = e2
    Device = {d1, d2}
    Gateway = {g1, g2}
    Ip = {i1, i2}
    Pub = {q1, q2}
    Psk = {k1}
    Field <- MCField
    Value = {v1, v2}
    Info <- MCInfo
    Op = {e1, e2}
    None = None
    device0 <- MCDevice0
    gateway0 <- MCGateway0
    MaxEdits = 2
    MaxFaults = 1
SPECIFICATION Spec
INVARIANTS TypeOK DeviceKeys GatewayKeys NoMixedHash
PROPERTIES SaveRepairs
CHECK_DEADLOCK FALSE
SYMMETRY Symmetry
