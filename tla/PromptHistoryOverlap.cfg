\* Two requests that overlap on one prompt.
SPECIFICATION PromptSpec
CONSTANTS
  r1 = r1 r2 = r2  tools = tools  production = production
  Editors = {r1, r2}
  Original = original
  Sections = {tools}
  Unset = unset
  NoPart = nopart
  Environments = {production}
  NoRow = norow
INVARIANT HistoryIsComplete
SYMMETRY Symmetry
CHECK_DEADLOCK FALSE
