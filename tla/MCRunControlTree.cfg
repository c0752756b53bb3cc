SPECIFICATION FairSpec
CONSTANTS
    Chats = {c1}
    ChatRuns = {r1, r2}
    Spawns = {s1}
    Workflows = {w1, w2}
    NoRun = NoRun
    NoChat = NoChat
CHECK_DEADLOCK FALSE
PROPERTIES
    CancelsTree
