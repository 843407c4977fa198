SPECIFICATION Spec
CONSTANTS
  Buffers <- const_Buffers
  Names <- const_Names
  TagName <- const_TagName
  TagLists <- const_TagLists
  MaxLines = 3
INVARIANTS LookupFinds GettersFaithful
