CONSTANTS
    p1 = p1
    Processes = {p1}
    opencode = opencode
    pi = pi
    aider = aider
    Harnesses = {opencode, pi, aider}
    Retired = {aider}
    ProjectHarness = opencode
    agents = agents
    moved = moved
    Roots = {agents, moved}
    skill = skill
    Skills = {skill}
    Marker = Marker
    old = old
    Files = {Marker, old}
    Releases <- TwoReleases
    Environments <- TwoEnvironments
    NoRoot = NoRoot
    NoRow = NoRow
    MaxCommands = 3
SPECIFICATION Spec
INVARIANT InstallHeals
INVARIANT InitTracksSource
PROPERTY ForgottenIsGone
CHECK_DEADLOCK FALSE
