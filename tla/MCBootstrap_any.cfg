\* Two starts and a script run with any options, on either database.
CONSTANTS
    Starters = {s1, s2}
    Scripts = {x}
    Accounts <- DemoAccounts
    Seed <- Seeds
    Client = Client
SPECIFICATION FairSpec
INVARIANTS
    AllOrNothing
    NoOrphans
    SeededOnce
    UpMeansReady
    LoserFindsItDone
    NoDeadlock
PROPERTIES
    StartupRepairsOnPostgreSQL
    EveryActorEnds
