SPECIFICATION Spec
CONSTANTS
  None = None
  Rows = {1, 2, 3, 4, 5, 6, 7, 8, 9, 10}
  Parent <- MCParent
  Child <- MCChild
  Machine = "machine"
  NameOf <- MCNameOf
  Names = {"body", "drive", "slider", "whole"}
  Whole = "whole"
  DefaultSeq <- MCDefaultSeq
  Worlds <- MCWorlds
  Requests <- MCRequests
  Delivery = 18
  DefaultCycle = 10
  DefaultPart = 1
  DefaultSub = 2
  DefaultFinal = 4
  CheckSlack = 3
  CycleSlack = 6
  PartReach = 18
  EndSlack = 3
  MaxIterations = 18
  MaxEdits = 1
INVARIANTS
  EveryPathPlanned
  PartsFit
  AssembliesInOrder
  VerdictMatchesPlan
  FinalComesLast
