SPECIFICATION Spec
CONSTANTS
  Discs = {"pm", "dev"}
  Kind <- KindOf
  Blueprints <- SomeBlueprints
  Tickets <- Three
  Type <- TypeOf
  Parent <- ParentOf
  Boards <- SomeBoards
  Slots = {"t1"}
  Limits <- OneTrain
  MaxIterations = 3
  None = None
INVARIANTS
  WorksOnItsTicket
  Succession
PROPERTIES
  IterationsTurn
CHECK_DEADLOCK FALSE
