SPECIFICATION FairShellSpec
CONSTANTS
  MAXARGS = 4
  Parse <- Parsecmd
  Lines <- Examples
  Texts <- ShortTexts
  MaxLines = 2
INVARIANTS GrammarParsed Wired Waited
PROPERTY PromptAgain
CHECK_DEADLOCK FALSE
