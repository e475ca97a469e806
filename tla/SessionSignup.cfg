CONSTANTS
    alice = alice
    bob = bob
    Users <- MCUsers
    Registered <- AliceOnly
    MaxLogins = 1
    MaxAnswers = 1
    MaxDeaths = 0
    NoUser = NoUser
    Unloaded = Unloaded
SPECIFICATION Spec
INVARIANT
    TabsConfiguredForNewAccount
