SPECIFICATION FairFlow
CONSTANTS
    Managers = {m1}
    Server = m1
    StatusPage = c1
    Callers = {c1}
    Home <- ServersOwn
    Deployments = {{c1}}
    Forcing = {}
    Jobs = {}
    Logins = FALSE
    MaxFailures = 0
    Handlers = {h1, h2}
    Cooling = 0
    NoticeTTL = 1
    Tokens = {t1, t2, t3}
    NoToken = NoToken
    Notices = {n1, n2}
    NoNotice = NoNotice
INVARIANTS StoredNoticeWasSent LinkIsOneShot
PROPERTIES FlowRecovers
