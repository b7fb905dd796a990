SPECIFICATION Spec
CONSTANTS
    home = home
    other = other
    house = house
    elsewhere = elsewhere
    bridge = bridge
    d1 = d1
    Keys = {home, other}
    BrokerOf <- MCOwnBroker
    Callers = {bridge, d1}
    Deliveries = {d1}
    Bridge = bridge
    ChannelKey = home
    Ids = {1, 2}
    NoConn = NoConn
    asHome = asHome
    newPassword = newPassword
    asOther = asOther
    Configs = {asHome, newPassword, asOther}
    KeyOf <- MCKeyOf
    Disabled = Disabled
    MaxEdits = 2
    MaxMessages = 2
    MaxLosses = 1
INVARIANTS RefcountExact StatusHonestAlone OnWillClear
CHECK_DEADLOCK FALSE
