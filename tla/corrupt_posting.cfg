SPECIFICATION Spec
CONSTANTS
  W32 <- MCW32
  W64 <- MCW64
  VarintBase <- MCVarintBase
  MaxVarintLen <- MCMaxVarintLen
  Keys <- MCKeys
  Targets <- MCTargets
  None = 0
  Lists <- MCLists
  Letters <- MCLetters
  Digits <- MCDigits
  Spaces <- MCSpaces
  Punctuation <- MCPunctuation
  Han <- MCHan
  Width <- MCWidth
  LowerCase <- MCLowerCase
  URLPrefixes <- MCURLPrefixes
  StopWords <- MCStopWords
  Dictionary <- MCDictionary
  NegInf = NegInf
  PostingIDs <- MCPostingIDs
  PositionLists <- MCPositionLists
  EncodedData <- MCEncodedData
  PostingLists <- MCPostingLists
  Texts <- MCTexts
  Trained <- MCTrained
  Sizes <- MCSizes
  Limits <- MCLimits
  WantedTerms <- MCWantedTerms
  Phrases <- MCPhrases
  Slops <- MCSlops
  Cutoffs <- MCCutoffs
  Library <- MCLibrary
  Asked <- MCAsked
  Field <- G
  DefaultField <- F
INVARIANT
  AcceptedPositionsAscend
