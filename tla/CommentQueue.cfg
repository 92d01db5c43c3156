\* Two overlapping handlers, lost notifications, a crash
SPECIFICATION LiveSpec
CONSTANTS
  c1 = c1
  c2 = c2
  h1 = h1
  h2 = h2
  None = None
  Other = Other
  Unmatched = Unmatched
  Comments = {c1}
  BySupervisor = {}
  Handlers = {h1, h2}
  MaxStarts = 2
PROPERTIES CommentHeard ReclaimIdle TerminalFinal
