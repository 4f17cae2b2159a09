\* Panels, terminal and shell; the user waits for what he started.
CONSTANTS
  home = home
  sub = sub
  gone = gone
  left = left
  right = right
  Dirs = {home, sub, gone}
  Lost = {gone}
  Home = home
  NoDir = NoDir
  Panels = {left, right}
  NoPanel = NoPanel
  Habits = {}
  MaxAttempts = 3
  MaxOps = 4
  MaxKeys = 1
  MaxWipes = 2
SPECIFICATION FairSpec
INVARIANTS TypeOK TypedIsKept TerminalFollowsPanel
PROPERTIES SilentNavigation RunAwaits NavigationEnds
CHECK_DEADLOCK FALSE
