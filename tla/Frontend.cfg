\* Two pairings with phones that answer late, twice or never over a bridge that
\* may fail; three calls to popup wallets over one window; three visitors of
\* the overview; two nodes that answer or do not; a vault and its positions.
SPECIFICATION FrontendSpec
CONSTANTS
    Pairings = {p1, p2}
    Requests = {r1, r2}
    Nobody = Nobody
    Passport = Passport
    Wallets = {Passport}
    Subfrost = Subfrost
    Pizza = Pizza
    Sign1 = Sign1
    Sign2 = Sign2
    Sign3 = Sign3
    PopupIds = {Sign1, Sign2, Sign3}
    Origins = {Subfrost, Pizza}
    Serves <- Connectors
    NoPage = NoPage
    MaxWindows = 2
    MaxMail = 1
    Visits = {v1, v2, v3}
    MaxHeight = 2
    Servers = {n1, n2}
    FirstServer = n1
    Join = Join
    Joins = {Join}
    Contexts <- SomeContexts
    Checks = {c1, c2}
    Alice = Alice
    Bob = Bob
    Team = Team
    Holders = {Alice, Bob, Team}
    Contract = Contract
    P1 = P1
    P2 = P2
    Positions = {P1, P2}
    Percents = {1, 3333, 5000, 10000}
    Scale = 4
    Deciders = {n1, n2}
    Stores = {n1, n2}
    MaxSigs = 3
    LastTip = 2
INVARIANT FrontendTypeOK
INVARIANT DeadSettles
INVARIANT StoredIsShown
INVARIANT OverviewForward
INVARIANT VerdictRight
INVARIANT PowerAgrees
INVARIANT LastClickWins
PROPERTY FrtunCalls
PROPERTY NoReplacement
PROPERTY PopupCalls
PROPERTY Pruned
PROPERTY ClaimNeutral
PROPERTY ShownInTheEnd
CHECK_DEADLOCK FALSE
