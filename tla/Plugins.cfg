SPECIFICATION FairSpec
CONSTANTS
    None = None  Torn = Torn
    override = override  user = user  system = system
    b1 = b1  b2 = b2
    mine = mine  other = other
    agent = agent  files = files
    Places = {override, user, system}
    Order <- MCOrder
    Builds = {b1, b2}
    Keys = {mine, other}
    Keyrings = {agent, files}
    Holds <- MCHolds
    Registered = {other}
    SigningKey = mine
    Outages = TRUE
    Initially <- MCInitially
    MaxChanges = 3
INVARIANTS TypeOK NoneHidden FoundVerified
PROPERTIES SearchEnds
CHECK_DEADLOCK FALSE
