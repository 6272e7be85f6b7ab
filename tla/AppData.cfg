SPECIFICATION AppDataSpec
CONSTANTS
  view = view
  ipc = ipc
  Clients = {view, ipc}
  Values <- FieldValues
  Terminals = {"deft", "other"}
  DefaultTerminal = "deft"
  MaxHeld = 2
  Default <- DefaultPrefs
  TailLimit = 2
  MaxEntries = 3
INVARIANTS FileIsASnapshot AuditTrail
SYMMETRY ClientsSymmetry
