\* Two messages under a drain and a sweep, with a hook call or a crash.
SPECIFICATION Spec
CONSTANTS
    agent = agent
    s1 = s1
    Msgs <- TwoMsgs
    Agent = agent
    Sweepers = {s1}
    NoMsg = NoMsg
    NoCopy = NoCopy
    Mortal = {1}
    Tied = {1}
    MaxEvents = 1
INVARIANTS
    TypeOK
    OneFate
    ReceiptsTrue
PROPERTIES
    InOrder
    NothingStranded
VIEW View
