CONSTANTS
    Parts = {"disk", "state", "child", "handoff", "relay", "arguments", "installer", "review", "git", "account", "operations", "events", "tabs"}
    Processes = {p, q}
    PullRequests = {"a", "b"}
    Targets = {"m", "n", "o"}
    Folders = {"x", "y"}
    Absent = Absent
    Torn = Torn
SPECIFICATION Spec
SYMMETRY Alike
INVARIANTS
    TypeOK
    FilesAreSound
    ChildrenAnswer
    EventsAreSound
    TabsAreKept
    SessionsAreHandedOn
    MutationsAreSound
CHECK_DEADLOCK FALSE
