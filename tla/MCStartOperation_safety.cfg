SPECIFICATION Spec
CHECK_DEADLOCK FALSE
CONSTANTS
    r1 = r1
    r2 = r2
    r3 = r3
    r4 = r4
    k1 = k1
    k2 = k2
    m1 = m1
    m2 = m2
    m3 = m3
    m4 = m4
    c1 = c1
    c2 = c2
    c3 = c3
    p1 = p1
    jpeg = jpeg
    png = png
    None = None
    Requests = {r1, r2, r3, r4}
    Keys = {k1, k2}
    Messages = {m1, m2, m3, m4}
    Channels = {c1, c2, c3}
    Photos = {p1}
    Media = {jpeg, png}
    KeyOf <- Keyed
    BodyOf <- Bodies
    ChannelOf <- Spoken
    PhotoOf <- Photographed
    MediaOf <- Declared
    MaxLost = 2
INVARIANTS
    TypeOK
    KeyMeansOneRequest
    FirstWordStands
