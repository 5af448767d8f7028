\* One pane id over two tmux servers, two finishes, and a tab beside another.
CONSTANTS
    p1 = p1
    t1 = t1
    NoView = NoView
    PaneId <- MCPane
    Tab <- MCTab
    MaxStamp = 2
    MaxServer = 2

SPECIFICATION SeenSpec

INVARIANTS
    NoFinishIsSwallowed
    WakeIsHonoured
