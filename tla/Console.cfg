SPECIFICATION Spec
CONSTANTS
    Cols = 2
    height = 5
    char_height = 2
    Chars = {a, b}
    Newline = Newline
    Blank = Blank
    MaxLines = 5
INVARIANTS
    ShowsText
    ShowsTheEnd
