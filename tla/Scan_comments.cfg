SPECIFICATION Spec
CONSTANTS
  a = a
  along = along
  atilde = atilde
  A = A
  Along = Along
  Atilde = Atilde
  quote = quote
  flag = flag
  invalid = invalid
  dot = dot
  sp = sp
  nl = nl
  slash = slash
  star = star
  MaxLen = 5
  Char <- MCChar
  Width <- MCWidth
  Separators = {sp, nl, slash, star}
  Space = sp
  Newline = nl
  Slash = slash
  Star = star
  Period = dot
  Ignored = {quote, flag, invalid}
  Flags = {flag, invalid}
  Invalid = invalid
  NotFound = flag
  Lower <- MCLower
  Plain <- MCPlain
  Long = {along, Along}
  OverwriteMacs = TRUE
  Sure <- MCSure
  Key <- MCKey
  Sources <- Commented
INVARIANTS CommentsAllowed
