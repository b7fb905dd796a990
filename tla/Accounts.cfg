SPECIFICATION Spec
CONSTANTS
    ann = ann
    bob = bob
    bot = bot
    old = old
    new = new
    c1 = c1
    c2 = c2
    s1 = s1
    k1 = k1
    Ids = {ann, bob, bot}
    SessionTokens = {s1}
    ApiTokens = {k1}
    Callers = {c1, c2}
    Passwords = {old, new}
    Nonce = Nonce
    Tables <- MCTables
    None = None
    Deleted = Deleted
    NoSession = NoSession
    Idle = Idle
    Bodies <- MCBodies
    MaxRequests = 4
    MaxRestarts = 1
    MaxFailures = 1
SYMMETRY Symm
CHECK_DEADLOCK FALSE
INVARIANTS OutdatedExplained AdminRemains
