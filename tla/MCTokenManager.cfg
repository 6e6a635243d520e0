SPECIFICATION FairSpec
CONSTANTS
    m1 = m1
    job = job
    c1 = c1
    c2 = c2
    c3 = c3
    Managers = {m1, job}
    Callers = {c1, c2, c3}
    Jobs = {job}
    Home <- OneHome
    Deployments <- TwoDeployments
    Forcing = {c2}
    MaxFailures = 0
    Logins = TRUE
    Tokens = {t1, t2, t3}
    NoToken = NoToken
    Notices = {}
    NoNotice = NoNotice
    NoticeTTL = 2
INVARIANTS SleeperHasAPump
PROPERTIES Recovers CallersServed RotatedTokenKept JobEnds
