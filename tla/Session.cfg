CONSTANTS
    alice = alice
    bob = bob
    Users <- MCUsers
    Registered <- AliceOnly
    MaxLogins = 1
    MaxAnswers = 2
    MaxDeaths = 1
    NoUser = NoUser
    Unloaded = Unloaded
SPECIFICATION FairSpec
INVARIANTS
    TypeOK
    LoginCovers
    TabsOwned
    AccountsRecorded
PROPERTY
    SignupSettles
