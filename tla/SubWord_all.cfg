SPECIFICATION Spec
CONSTANTS
  a = a
  e = e
  o = o
  j = j
  ii = ii
  c = c
  Letters <- MCLetters
  Words <- MCWords
  EntryLists <- AllLists
  Enclitics <- NoEnclitics
INVARIANTS SpellingKept Thorough
PROPERTIES CallsEnd Undisturbed
CHECK_DEADLOCK FALSE
