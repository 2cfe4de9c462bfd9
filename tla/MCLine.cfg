SPECIFICATION LineSpec
CONSTANTS
  Letters = {x}
  Blank = blank
  Remembered = 2
  MaxLen = 4
  MaxSent = 2
  MaxPage = 2
  Widths = {4, 5, 6}
  Heights = {4, 7, 12}
INVARIANTS
  RowsKeepTheLine
PROPERTIES
  PlaceHolds
