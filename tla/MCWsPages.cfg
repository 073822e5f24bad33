CONSTANTS
    c1 = c1
    c2 = c2
    u1 = u1
    list = list
    topic = topic
    slugA = slugA
    slugB = slugB
    panelPage = panelPage
    None = None
    NoPage = NoPage
    Conns = {c1, c2}
    Users = {u1}
    UserOf <- OneUser
    Fragile = {c1, c2}
    Pinging = FALSE
    ListPage = list
    TopicPages = {slugA, slugB}
    Topics = {topic}
    TopicOf <- OneTopic
    PanelPage = panelPage
    Visits <- SomePages
    MaxTickers = 2
SPECIFICATION PagesFairSpec
INVARIANTS PagesTypeOK OpenPageIsWatched PanelIsServed
PROPERTIES ClosingEnds GoneLeavesPanel ListForgets
CHECK_DEADLOCK FALSE
