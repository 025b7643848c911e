CONSTANTS
  Boards <- MCBoards
  Programs <- MCPrograms
SPECIFICATION Spec
PROPERTIES
  MulticastExact
  UnicastExact
