SPECIFICATION ParserSpec
CONSTANTS
  Pages = {{"prodname", "cfgcpf"}, {"scfgfu"}, {"scfgtu"}}
  OtherTags = {"root"}
  kMaximumFieldLength = 3
  MaxTokens = 6
CHECK_DEADLOCK FALSE
INVARIANT ParserCorrect
