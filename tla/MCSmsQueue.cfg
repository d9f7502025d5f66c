SPECIFICATION MixedSpec
CONSTANTS
    m1 = m1  m2 = m2
    d1 = d1  d2 = d2
    a1 = a1  a2 = a2
    Msg = {m1, m2}
    Device = {d1, d2}
    App = {a1, a2}
    Fleet = Fleet
    NoDevice = NoDevice
    RequeueSec = 1
    BatchLimit = 1
PROPERTIES
    SecondPhoneWaits
    ImplementsLifecycle
    
