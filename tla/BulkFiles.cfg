SPECIFICATION FileSpec
CONSTANTS
  Formats = {"nacha", "x937"}
  Dates = {d1, d2}
  Items <- MCItems
  Declared <- MCDeclared
  Modulus = 3
  Images = {i1, i2}
  MaxLines = 5
  NoValue = NoValue
INVARIANTS RecordsAgree ItemsAreTheFiles
CHECK_DEADLOCK FALSE
