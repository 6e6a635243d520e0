SPECIFICATION FairSpec
CONSTANTS
    Upgraders = {u1, u2}
    Apps = {a}
    MaxDeaths = 2
    FirstDelay = 5
    MaxDelay = 6
    Timeout = 27
    n1 = n1
    n2 = n2
    n3 = n3
    Numbers = {n1, n2, n3}
    Name <- Names
    Balance <- Balances
    Flag = "620"
INVARIANTS VersionMeansObjects AppFindsEverything AccountIsItsOwn
PROPERTIES VersionMonotone WaitIsPatient DeploymentComesUp
