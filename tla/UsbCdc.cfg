SPECIFICATION Spec
CONSTANTS
    web = web
    Users = {web}
    UserOps <- MCUserOps
    NoOne = NoOne
    Connect = Connect
    MaxPlugs = 2
INVARIANTS NoUseAfterClose GoneTokenIsFresh ReleasedMeansUnused ConnectedMeansOpen
PROPERTIES GoneIsReleased Reconnects
