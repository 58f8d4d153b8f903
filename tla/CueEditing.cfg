SPECIFICATION Spec
CONSTANTS
  Cue = {1, 2, 3, 4}
  A = A
  B = B
  File = {A, B}
  NoFile = NoFile
  NoCue = NoCue
  Root = Root
  Seeds <- OneGroup
  Operator = {"add", "remove", "move", "group", "ungroup", "add_to_group", "leave_group", "to_top_level", "duplicate", "relink", "edit", "undo", "redo", "set_playhead", "go", "start"}
  MaxUndo = 1
  MaxEdits = 2
INVARIANTS ListIsSound PlayheadTopLevel SamplesMatchFile
PROPERTIES RearrangingKeepsCues RemovalSilences HistoryIsWalked
