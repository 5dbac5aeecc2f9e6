SPECIFICATION Spec
CONSTANTS
  ad = ad
  ne = ne
  us = us
  os = os
  que = que
  dot = dot
  Parts <- MCParts
  Period = dot
  Words <- AllWords
  Keys <- MCKeys
  PrefixList <- MCPrefixes
  Enclitics <- MCEnclitics
INVARIANTS SpellsUpToEnclitic FirstVariation GuessSound
PROPERTIES LoopEnds
CHECK_DEADLOCK FALSE
