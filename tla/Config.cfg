\* All documents of up to three tasks; memory runs out anywhere.
CONSTANTS
  nameA = nameA  nameB = nameB
  EmptyName = EmptyName
  Documents <- SmallDocuments
SPECIFICATION Spec
INVARIANTS FileOrder AllOrNothing
CHECK_DEADLOCK FALSE
