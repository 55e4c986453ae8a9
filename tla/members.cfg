SPECIFICATION FairMembersSpec
CONSTANTS
    Users = {ann, bob}
    Creator = ann
    LoggedIn = {ann}
    NoUser = NoUser
    Maker = Maker
    Adders = {a1}
    Removers = {r1}
    Passes = {s1}
    MaxChanges = 1
    MaxStops = 1
CHECK_DEADLOCK FALSE
PROPERTIES MembersStay CreatorStays PassesSetTeam SyncConverges
