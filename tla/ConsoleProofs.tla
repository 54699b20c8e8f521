---------------------------- MODULE ConsoleProofs ----------------------------
(* Proofs about Console, for screens and characters of any size.            *)
EXTENDS Console, TLAPS

Row == 0 .. rows - 1

LEMMA Sizes ==
  /\ Cols \in Nat \ {0} /\ char_height \in Nat \ {0} /\ height \in Nat
  /\ MaxLines \in Nat /\ Newline \notin Chars /\ Blank \notin Chars
  /\ char_height \leq height
BY ConsoleAssumption DEF ConsoleAssumption

LEMMA Scale ==
  ASSUME NEW a \in Nat, NEW b \in Nat, a < b
  PROVE  a * char_height + char_height \leq b * char_height
<1>1. PICK d \in Nat : b = a + 1 + d
  <2>1. b - a - 1 \in Nat /\ b = a + 1 + (b - a - 1)
    OBVIOUS
  <2> QED BY <2>1
<1>2. char_height \in Nat /\ d * char_height \in Nat
  BY Sizes
<1>3. b * char_height = a * char_height + char_height + d * char_height
  BY <1>1, <1>2
<1>4. a * char_height \in Nat
  BY <1>2
<1> QED
  BY <1>2, <1>3, <1>4

(* There is a row of characters, and less than one is left below the last. *)
LEMMA Rows ==
  /\ rows \in Nat \ {0} /\ rows * char_height \in Nat
  /\ rows * char_height \leq height
  /\ height < rows * char_height + char_height
<1> DEFINE x == rows * char_height
           rest == height % char_height
<1>1. char_height \in Nat \ {0} /\ height \in Nat /\ char_height \leq height
  BY Sizes
<1>2. rows \in Nat /\ rest \in 0 .. char_height - 1 /\ height = x + rest
  BY <1>1 DEF rows
<1>3. x \in Nat
  BY <1>1, <1>2
<1>4. rows = 0 => x = 0
  BY <1>1
<1> HIDE DEF x, rest
<1>5. rows # 0 /\ x \leq height /\ height < x + char_height
  BY <1>1, <1>2, <1>3, <1>4
<1> QED
  BY <1>2, <1>3, <1>5 DEF x

(* Pixel row d of character row r: on the screen, and of no other row.     *)
LEMMA PixelRow ==
  ASSUME NEW r \in Row, NEW d \in Glyph
  PROVE  /\ r * char_height + d \in 0 .. height - 1
         /\ r * char_height + d < rows * char_height
         /\ r \in Nat /\ d \in Nat /\ r * char_height \in Nat
<1> DEFINE x == r * char_height
           z == rows * char_height
<1>1. char_height \in Nat \ {0} /\ height \in Nat
  BY Sizes
<1>2. r \in Nat /\ d \in Nat /\ rows \in Nat /\ r < rows /\ d < char_height
  BY <1>1, Rows DEF Row, Glyph
<1>3. x \in Nat /\ z \in Nat /\ z \leq height
  BY <1>1, <1>2, Rows
<1>4. x + char_height \leq z
  BY <1>2, Scale
<1> HIDE DEF x, z
<1>5. x + d \in 0 .. height - 1 /\ x + d < z
  BY <1>1, <1>2, <1>3, <1>4
<1> QED
  BY <1>2, <1>3, <1>5 DEF x, z

LEMMA RowsApart ==
  ASSUME NEW r \in Nat, NEW s \in Nat, NEW d \in Glyph,
         r * char_height + d \in s * char_height
                                 .. s * char_height + char_height - 1
  PROVE  r = s
<1> DEFINE x == r * char_height
           y == s * char_height
<1>1. char_height \in Nat \ {0} /\ d \in Nat /\ d < char_height
  BY Sizes DEF Glyph
<1>2. x \in Nat /\ y \in Nat
  BY <1>1
<1>3. /\ r < s => x + char_height \leq y
      /\ s < r => y + char_height \leq x
  BY Scale
<1>4. x + d \in y .. y + char_height - 1
  OBVIOUS
<1> HIDE DEF x, y
<1>5. ~(r < s) /\ ~(s < r)
  BY <1>1, <1>2, <1>3, <1>4
<1> QED
  BY <1>5

-----------------------------------------------------------------------------
(* Nothing is put beyond the cursor, the cursor leaves the screen only for *)
(* a line without text, and the text scrolls only when the screen is full. *)
TextInv ==
    /\ cursor_y \leq line
    /\ cursor_y = rows => cursor_x = 0
    /\ cursor_y < line => rows - 1 \leq cursor_y
    /\ \A l \in 0 .. MaxLines, x \in Column :
          l > line \/ (l = line /\ x \geq cursor_x) => text[l][x] = Blank

IInv == TypeOK /\ TextInv /\ ShowsText /\ RestIsBlack

LEMMA Types ==
  TypeOK => /\ cursor_y \in Nat /\ cursor_y \leq rows /\ rows \in Nat \ {0}
            /\ line \in Nat /\ line \leq MaxLines /\ MaxLines \in Nat
            /\ cursor_x \in Column /\ cursor_x \in Nat /\ cursor_x < Cols
            /\ Cols \in Nat \ {0}
            /\ \A l \in 0 .. MaxLines, x \in Column :
                  text[l][x] \in Chars \cup {Blank}
<1> SUFFICES ASSUME TypeOK PROVE
      /\ cursor_y \in Nat /\ cursor_y \leq rows
      /\ line \in Nat /\ line \leq MaxLines
      /\ cursor_x \in Column /\ cursor_x \in Nat /\ cursor_x < Cols
      /\ \A l \in 0 .. MaxLines, x \in Column :
            text[l][x] \in Chars \cup {Blank}
  BY Sizes, Rows
<1>1. cursor_y \in 0 .. rows /\ line \in 0 .. MaxLines /\ cursor_x \in Column
      /\ text \in [0 .. MaxLines -> [Column -> Chars \cup {Blank}]]
  BY DEF TypeOK
<1> QED
  BY <1>1, Sizes, Rows DEF Column

LEMMA BlackType == Black \in [0 .. height - 1 -> [Column -> Cell]]
BY DEF Black, Cell

LEMMA InitInv == Init => IInv
<1> SUFFICES ASSUME Init PROVE IInv
  OBVIOUS
<1>1. 0 \in Column /\ 0 \in 0 .. rows /\ 0 \in 0 .. MaxLines /\ rows # 0
      /\ rows \in Nat
  BY Sizes, Rows DEF Column
<1>2. NoText \in [0 .. MaxLines -> [Column -> Chars \cup {Blank}]]
  BY DEF NoText
<1>3. TypeOK
  BY <1>1, <1>2, BlackType DEF Init, TypeOK
<1>4. \A l \in 0 .. MaxLines, x \in Column : text[l][x] = Blank
  BY DEF Init, NoText
<1>5. TextInv
  BY <1>1, <1>4 DEF Init, TextInv
<1>6. \A y \in 0 .. height - 1, x \in Column : screen[y][x] = Blank
  BY DEF Init, Black
<1>7. ShowsText
  <2> SUFFICES ASSUME NEW r \in Row, NEW d \in Glyph, NEW x \in Column
               PROVE  screen[r * char_height + d][x] = Look(top + r, x, d)
    BY DEF ShowsText, Row
  <2>1. top = 0 /\ line = 0 /\ r \in Nat
    BY PixelRow DEF Init, top
  <2>2. top + r \leq line => top + r \in 0 .. MaxLines
    BY <2>1, Sizes
  <2>3. Look(top + r, x, d) = Blank
    BY <1>4, <2>2 DEF Look
  <2> QED BY <1>6, <2>3, PixelRow
<1>8. RestIsBlack
  <2>1. \A y \in rows * char_height .. height - 1 : y \in 0 .. height - 1
    BY Rows, Sizes
  <2> QED BY <1>6, <2>1 DEF RestIsBlack
<1> QED
  BY <1>3, <1>5, <1>7, <1>8 DEF IInv
(* The cursor is on the screen after the scroll.                           *)
LEMMA CursorRowType ==
  ASSUME TypeOK, TextInv
  PROVE  /\ CursorRow \in Row /\ CursorRow \in Nat /\ CursorRow < rows
         /\ CursorRow \leq line /\ CursorRow + 1 \in 0 .. rows
         /\ CursorRow < line => CursorRow + 1 \geq rows - 1
         /\ cursor_y < rows => CursorRow = cursor_y
         /\ cursor_y = rows => CursorRow = rows - 1
<1>1. /\ cursor_y \in Nat /\ cursor_y \leq rows /\ rows \in Nat \ {0}
      /\ line \in Nat
  BY Types
<1>2. cursor_y \leq line /\ (cursor_y < line => rows - 1 \leq cursor_y)
  BY DEF TextInv
<1> QED
  BY <1>1, <1>2 DEF CursorRow, Row

LEMMA RowAbove ==
  ASSUME NEW r \in Nat, NEW d \in Glyph
  PROVE  (r + 1) * char_height + d = r * char_height + d + char_height
<1>1. char_height \in Nat /\ d \in Nat /\ r * char_height \in Nat
  BY Sizes DEF Glyph
<1>2. (r + 1) * char_height = r * char_height + char_height
  BY <1>1
<1> QED
  BY <1>1, <1>2

LEMMA ScrolledType == TypeOK => Scrolled \in [0 .. height - 1 -> [Column -> Cell]]
<1> SUFFICES ASSUME TypeOK
             PROVE  Scrolled \in [0 .. height - 1 -> [Column -> Cell]]
  OBVIOUS
<1>1. screen \in [0 .. height - 1 -> [Column -> Cell]]
  BY DEF TypeOK
<1>2. [x \in Column |-> Blank] \in [Column -> Cell]
  BY DEF Cell
<1>3. ASSUME NEW y \in 0 .. height - 1, y < height - char_height
      PROVE  screen[y + char_height] \in [Column -> Cell]
  <2>1. y + char_height \in 0 .. height - 1
    BY <1>3, Sizes
  <2> QED BY <1>1, <2>1
<1> QED
  BY <1>1, <1>2, <1>3 DEF Scrolled

(* The scrolled screen shows the text from the line that puts the cursor   *)
(* in its row: a row that came from below the last one is black, and so is *)
(* the line it is for.                                                     *)
LEMMA ScrolledShows ==
  ASSUME IInv, NEW r \in Row, NEW d \in Glyph, NEW x \in Column
  PROVE  Scrolled[r * char_height + d][x] = Look(line - CursorRow + r, x, d)
<1> DEFINE y == r * char_height + d
<1>0. TypeOK /\ TextInv /\ ShowsText /\ RestIsBlack
  BY DEF IInv
<1>1. /\ y \in 0 .. height - 1 /\ y < rows * char_height /\ r \in Nat
      /\ d \in Nat /\ y \in Nat
  BY PixelRow, Sizes
<1>2. cursor_y \in Nat /\ cursor_y \leq rows /\ rows \in Nat \ {0}
      /\ line \in Nat /\ r < rows /\ line \leq MaxLines /\ MaxLines \in Nat
  BY <1>0, <1>1, Types DEF Row
<1>3. CASE cursor_y < rows
  <2>1. Scrolled = screen /\ line - CursorRow = top
    BY <1>3 DEF Scrolled, CursorRow, top
  <2> QED BY <2>1, <1>0 DEF ShowsText, Row
<1>4. CASE cursor_y = rows
  <2>1. line - CursorRow + r = top + (r + 1)
    BY <1>4, <1>2, <1>1 DEF CursorRow, top
  <2>2. Scrolled[y] = IF y < height - char_height THEN screen[y + char_height]
                      ELSE [z \in Column |-> Blank]
    BY <1>4, <1>2, <1>1 DEF Scrolled
  <2>3. CASE r + 1 < rows
    <3>1. r + 1 \in Row
      BY <2>3, <1>1, <1>2 DEF Row
    <3>2. y + char_height = (r + 1) * char_height + d
      BY <1>1, RowAbove
    <3>3. y + char_height < height
      BY <3>1, <3>2, PixelRow, Sizes
    <3>4. y < height - char_height
      BY <3>3, <1>1, Sizes
    <3>5. Scrolled[y][x] = screen[(r + 1) * char_height + d][x]
      BY <2>2, <3>4, <3>2
    <3>6. screen[(r + 1) * char_height + d][x] = Look(top + (r + 1), x, d)
      BY <3>1, <1>0 DEF ShowsText, Row
    <3> QED BY <3>5, <3>6, <2>1
  <2>4. CASE r + 1 = rows
    <3>1. (y + char_height) = rows * char_height + d
      BY <1>1, <2>4, RowAbove
    <3>2. y + char_height \geq rows * char_height
      BY <3>1, <1>1, Rows
    <3>3. Scrolled[y][x] = Blank
      <4>1. CASE y < height - char_height
        <5>1. y + char_height \in rows * char_height .. height - 1
          BY <4>1, <3>2, <1>1, Rows, Sizes
        <5> QED BY <5>1, <4>1, <2>2, <1>0 DEF RestIsBlack
      <4>2. CASE ~(y < height - char_height)
        BY <4>2, <2>2
      <4> QED BY <4>1, <4>2
    <3>4. top + (r + 1) = line
      BY <2>4, <1>4, <1>2 DEF top
    <3>5. cursor_x = 0
      BY <1>4, <1>0 DEF TextInv
    <3>6. x \geq cursor_x /\ line \in 0 .. MaxLines
      BY <3>5, <1>2, Sizes DEF Column
    <3>7. text[line][x] = Blank
      BY <3>6, <1>0 DEF TextInv
    <3>8. Look(line, x, d) = Blank
      BY <3>7 DEF Look
    <3> QED BY <3>3, <3>4, <3>8, <2>1
  <2> QED BY <2>3, <2>4, <1>1, <1>2
<1> QED BY <1>3, <1>4, <1>2

LEMMA ScrolledRest ==
  ASSUME IInv, NEW y \in rows * char_height .. height - 1, NEW x \in Column
  PROVE  Scrolled[y][x] = Blank /\ y \in 0 .. height - 1
<1>1. y \in 0 .. height - 1 /\ ~(y < height - char_height)
  BY Rows, Sizes
<1>2. screen[y][x] = Blank
  BY DEF IInv, RestIsBlack
<1> QED
  BY <1>1, <1>2 DEF Scrolled

(* Text that only grew by blank lines looks as before.                     *)
LEMMA LinesOf ==
  ASSUME TypeOK, TextInv, NEW r \in Row
  PROVE  /\ line - CursorRow + r \in Nat
         /\ (line - CursorRow + r = line) <=> (r = CursorRow)
BY CursorRowType, Types DEF Row
LEMMA NewlineInv == IInv /\ PutNewline => IInv'
<1> SUFFICES ASSUME IInv, PutNewline PROVE IInv'
  OBVIOUS
<1>0. TypeOK /\ TextInv
  BY DEF IInv
<1>1. /\ line < MaxLines /\ screen' = Scrolled /\ cursor_x' = 0
      /\ cursor_y' = CursorRow + 1 /\ line' = line + 1 /\ text' = text
  BY DEF PutNewline
<1>2. line \in Nat /\ MaxLines \in Nat /\ line + 1 \in 0 .. MaxLines
      /\ rows \in Nat /\ 0 \in Column
  BY <1>0, <1>1, Types DEF Column
<1>3. \A l \in 0 .. MaxLines, x \in Column : l > line => text[l][x] = Blank
  BY <1>0 DEF TextInv
<1>4. TypeOK'
  <2>1. cursor_y' \in 0 .. rows
    BY <1>1, <1>0, CursorRowType
  <2>2. text \in [0 .. MaxLines -> [Column -> Chars \cup {Blank}]]
    BY <1>0 DEF TypeOK
  <2> QED BY <2>1, <2>2, <1>0, <1>1, <1>2, ScrolledType DEF TypeOK
<1>5. TextInv'
  <2>1. cursor_y' \leq line' /\ (cursor_y' = rows => cursor_x' = 0)
    BY <1>0, <1>1, <1>2, CursorRowType
  <2>2. cursor_y' < line' => rows - 1 \leq cursor_y'
    BY <1>0, <1>1, <1>2, CursorRowType
  <2>3. \A l \in 0 .. MaxLines, x \in Column :
          l > line' \/ (l = line' /\ x \geq cursor_x') => text'[l][x] = Blank
    BY <1>1, <1>2, <1>3
  <2> QED BY <2>1, <2>2, <2>3 DEF TextInv
<1>6. ShowsText'
  <2> SUFFICES ASSUME NEW r \in Row, NEW d \in Glyph, NEW x \in Column
      PROVE screen'[r * char_height + d][x] = Look(top + r, x, d)'
    BY DEF ShowsText, Row
  <2> DEFINE l == line - CursorRow + r
  <2>1. l \in Nat /\ r \in Nat /\ CursorRow \in Nat
    BY <1>0, LinesOf, CursorRowType, PixelRow
  <2>2. top' + r = l
    BY <2>1, <1>1, <1>2 DEF top
  <2>3. Look(top + r, x, d)' = IF l \leq line + 1 /\ text[l][x] # Blank
                               THEN [char |-> text[l][x], row |-> d] ELSE Blank
    BY <2>2, <1>1 DEF Look
  <2>4. l = line + 1 => text[l][x] = Blank
    BY <1>2, <1>3
  <2>5. Look(top + r, x, d)' = Look(l, x, d)
    BY <2>1, <2>3, <2>4, <1>2 DEF Look
  <2> QED BY <2>5, <1>1, ScrolledShows
<1>7. RestIsBlack'
  BY <1>1, ScrolledRest DEF RestIsBlack
<1> QED
  BY <1>4, <1>5, <1>6, <1>7 DEF IInv

LEMMA CharInv ==
  ASSUME NEW c \in Chars, IInv, PutChar(c)
  PROVE  IInv'
<1>0. TypeOK /\ TextInv
  BY DEF IInv
<1>1. /\ line < MaxLines /\ screen' = Drawn(c)
      /\ text' = [text EXCEPT ![line] = [@ EXCEPT ![cursor_x] = c]]
  BY DEF PutChar
<1>2. \/ /\ cursor_x + 1 \geq Cols
         /\ cursor_x' = 0 /\ cursor_y' = CursorRow + 1 /\ line' = line + 1
      \/ /\ cursor_x + 1 < Cols
         /\ cursor_x' = cursor_x + 1 /\ cursor_y' = CursorRow /\ line' = line
  BY <1>0, Types DEF PutChar
<1>3. /\ line \in Nat /\ MaxLines \in Nat /\ line + 1 \in 0 .. MaxLines
      /\ line \in 0 .. MaxLines /\ rows \in Nat /\ 0 \in Column
      /\ cursor_x \in Column /\ cursor_x \in Nat /\ Cols \in Nat
  BY <1>0, <1>1, Types DEF Column
<1>4. /\ CursorRow \in Row /\ CursorRow \in Nat /\ CursorRow < rows
      /\ CursorRow \leq line /\ CursorRow + 1 \in 0 .. rows
      /\ CursorRow < line => CursorRow + 1 \geq rows - 1
  BY <1>0, CursorRowType
<1>5. text \in [0 .. MaxLines -> [Column -> Chars \cup {Blank}]]
  BY <1>0 DEF TypeOK
<1>6. /\ text' \in [0 .. MaxLines -> [Column -> Chars \cup {Blank}]]
      /\ text'[line][cursor_x] = c
      /\ \A l \in 0 .. MaxLines, x \in Column :
            l # line \/ x # cursor_x => text'[l][x] = text[l][x]
  BY <1>1, <1>3, <1>5
<1>7. \A l \in 0 .. MaxLines, x \in Column :
        l > line \/ (l = line /\ x \geq cursor_x) => text[l][x] = Blank
  BY <1>0 DEF TextInv
<1>8. TypeOK'
  <2>1. Drawn(c) \in [0 .. height - 1 -> [Column -> Cell]]
    <3>1. ASSUME NEW y \in CursorRow * char_height
                           .. CursorRow * char_height + char_height - 1
          PROVE  [char |-> c, row |-> y - CursorRow * char_height] \in Cell
      <4>1. CursorRow * char_height \in Nat /\ char_height \in Nat
        BY <1>4, Sizes
      <4>2. y - CursorRow * char_height \in Glyph
        BY <4>1 DEF Glyph
      <4> QED BY <4>2 DEF Cell
    <3>2. \A y \in 0 .. height - 1, x \in Column : Scrolled[y][x] \in Cell
      BY <1>0, ScrolledType
    <3> QED BY <3>1, <3>2 DEF Drawn
  <2>2. cursor_x' \in Column /\ cursor_y' \in 0 .. rows /\ line' \in 0 .. MaxLines
    BY <1>2, <1>3, <1>4 DEF Column
  <2> QED BY <2>1, <2>2, <1>1, <1>6 DEF TypeOK
<1>9. TextInv'
  <2>1. cursor_y' \leq line' /\ (cursor_y' = rows => cursor_x' = 0)
    BY <1>2, <1>3, <1>4
  <2>2. cursor_y' < line' => rows - 1 \leq cursor_y'
    BY <1>0, <1>2, <1>3, <1>4, CursorRowType, Types DEF TextInv
  <2>3. ASSUME NEW l \in 0 .. MaxLines, NEW x \in Column,
               l > line' \/ (l = line' /\ x \geq cursor_x')
        PROVE  text'[l][x] = Blank
    <3>1. l > line \/ (l = line /\ x > cursor_x)
      BY <2>3, <1>2, <1>3 DEF Column
    <3>2. l # line \/ x # cursor_x
      BY <3>1, <1>3 DEF Column
    <3>3. text[l][x] = Blank
      BY <3>1, <1>3, <1>7 DEF Column
    <3> QED BY <3>2, <3>3, <1>6
  <2> QED BY <2>1, <2>2, <2>3 DEF TextInv
<1>10. ASSUME NEW r \in Row, NEW d \in Glyph, NEW x \in Column
       PROVE  screen'[r * char_height + d][x] = Look(top + r, x, d)'
  <2> DEFINE l == line - CursorRow + r
             y == r * char_height + d
  <2>1. l \in Nat /\ r \in Nat /\ (l = line <=> r = CursorRow)
    BY <1>0, LinesOf, PixelRow
  <2>2. top' + r = l
    BY <2>1, <1>2, <1>3, <1>4 DEF top
  <2>3. /\ line' \in {line, line + 1}
        /\ line' = line + 1 => cursor_x + 1 \geq Cols
    BY <1>2, <1>3
  <2>4. Look(top + r, x, d)' = IF l \leq line' /\ text'[l][x] # Blank
                               THEN [char |-> text'[l][x], row |-> d] ELSE Blank
    BY <2>2 DEF Look
  <2>5. y \in 0 .. height - 1
    BY PixelRow
  <2>6. screen'[y][x] =
          IF /\ x = cursor_x
             /\ y \in CursorRow * char_height
                      .. CursorRow * char_height + char_height - 1
          THEN [char |-> c, row |-> y - CursorRow * char_height]
          ELSE Scrolled[y][x]
    BY <2>5, <1>1 DEF Drawn
  <2>7. CASE r = CursorRow /\ x = cursor_x
    <3>1. CursorRow * char_height \in Nat /\ char_height \in Nat
          /\ d \in 0 .. char_height - 1
      BY <1>4, Sizes DEF Glyph
    <3>2. y \in CursorRow * char_height
                .. CursorRow * char_height + char_height - 1
          /\ y - CursorRow * char_height = d
      BY <2>7, <3>1
    <3>3. screen'[y][x] = [char |-> c, row |-> d]
      BY <2>6, <2>7, <3>2
    <3>4. l = line /\ l \leq line' /\ text'[l][x] = c
      BY <2>1, <2>3, <2>7, <1>3, <1>6
    <3>5. c # Blank
      BY Sizes
    <3> QED BY <3>3, <3>4, <3>5, <2>4
  <2>8. CASE r # CursorRow \/ x # cursor_x
    <3>1. screen'[y][x] = Scrolled[y][x]
      BY <2>1, <2>6, <2>8, <1>4, RowsApart
    <3>2. Scrolled[y][x] = Look(l, x, d)
      BY ScrolledShows
    <3>3. l \leq MaxLines => text'[l][x] = text[l][x]
      BY <2>1, <2>8, <1>3, <1>6
    <3>4. l \leq line => l \leq line' /\ l \leq MaxLines
      BY <2>1, <2>3, <1>3
    <3>5. l \leq line' /\ ~(l \leq line)
            => l = line + 1 /\ l \leq MaxLines /\ text[l][x] = Blank
      <4> SUFFICES ASSUME l \leq line', ~(l \leq line)
                   PROVE l = line + 1 /\ l \leq MaxLines /\ text[l][x] = Blank
        OBVIOUS
      <4>1. l = line + 1 /\ l \in 0 .. MaxLines /\ l > line
        BY <2>1, <2>3, <1>3
      <4> QED BY <4>1, <1>7, <1>3
    <3>6. Look(top + r, x, d)' = Look(l, x, d)
      BY <2>4, <3>3, <3>4, <3>5 DEF Look
    <3> QED BY <3>1, <3>2, <3>6
  <2> QED BY <2>7, <2>8
<1>11. ShowsText'
  BY <1>10 DEF ShowsText, Row
<1>12. RestIsBlack'
  <2> SUFFICES ASSUME NEW y \in rows * char_height .. height - 1,
                      NEW x \in Column
               PROVE  screen'[y][x] = Blank
    BY DEF RestIsBlack
  <2>1. Scrolled[y][x] = Blank /\ y \in 0 .. height - 1
    BY ScrolledRest
  <2>2. CursorRow * char_height + char_height \leq rows * char_height
    BY <1>3, <1>4, Scale
  <2>3. CursorRow * char_height \in Nat /\ rows * char_height \in Nat
        /\ char_height \in Nat /\ height \in Nat
    BY <1>3, <1>4, Sizes
  <2>4. y \notin CursorRow * char_height
                 .. CursorRow * char_height + char_height - 1
    BY <2>2, <2>3
  <2> QED BY <2>1, <2>4, <1>1 DEF Drawn
<1> QED
  BY <1>8, <1>9, <1>11, <1>12 DEF IInv
LEMMA ClearInv == IInv /\ clear => IInv'
<1> SUFFICES ASSUME IInv, clear PROVE IInv'
  OBVIOUS
<1>0. TypeOK /\ TextInv
  BY DEF IInv
<1>1. /\ screen' = Black /\ text' = NoText
      /\ cursor_x' = cursor_x /\ cursor_y' = cursor_y /\ line' = line
  BY DEF clear
<1>2. NoText \in [0 .. MaxLines -> [Column -> Chars \cup {Blank}]]
  BY DEF NoText
<1>3. \A l \in 0 .. MaxLines, x \in Column : text'[l][x] = Blank
  BY <1>1 DEF NoText
<1>4. \A y \in 0 .. height - 1, x \in Column : screen'[y][x] = Blank
  BY <1>1 DEF Black
<1>5. TypeOK'
  BY <1>0, <1>1, <1>2, BlackType DEF TypeOK
<1>6. TextInv'
  BY <1>0, <1>1, <1>3 DEF TextInv
<1>7. ShowsText'
  <2> SUFFICES ASSUME NEW r \in Row, NEW d \in Glyph, NEW x \in Column
      PROVE screen'[r * char_height + d][x] = Look(top + r, x, d)'
    BY DEF ShowsText, Row
  <2>1. top' + r \in Nat /\ line' \in Nat /\ line' \leq MaxLines
        /\ MaxLines \in Nat
    BY <1>0, <1>1, Types, PixelRow DEF top, TextInv
  <2>2. top' + r \leq line' => top' + r \in 0 .. MaxLines
    BY <2>1
  <2>3. Look(top + r, x, d)' =
          IF top' + r \leq line' /\ text'[top' + r][x] # Blank
          THEN [char |-> text'[top' + r][x], row |-> d] ELSE Blank
    BY DEF Look
  <2>4. Look(top + r, x, d)' = Blank
    BY <2>2, <2>3, <1>3
  <2> QED BY <1>4, <2>4, PixelRow
<1>8. RestIsBlack'
  <2>1. \A y \in rows * char_height .. height - 1 : y \in 0 .. height - 1
    BY Rows, Sizes
  <2> QED BY <1>4, <2>1 DEF RestIsBlack
<1> QED
  BY <1>5, <1>6, <1>7, <1>8 DEF IInv

LEMMA StutterInv == IInv /\ UNCHANGED vars => IInv'
<1> SUFFICES ASSUME IInv, UNCHANGED vars PROVE IInv'
  OBVIOUS
<1>1. /\ screen' = screen /\ cursor_x' = cursor_x /\ cursor_y' = cursor_y
      /\ text' = text /\ line' = line
  BY DEF vars
<1> QED
  BY <1>1 DEF IInv, TypeOK, TextInv, ShowsText, RestIsBlack, Look, top

-----------------------------------------------------------------------------
(* What the screen shows and what was put agree in every reachable state.  *)
THEOREM Invariant == Spec => []IInv
<1>1. IInv /\ [Next]_vars => IInv'
  BY NewlineInv, CharInv, ClearInv, StutterInv DEF Next, putc
<1> QED
  BY InitInv, <1>1, PTL DEF Spec

(* The cursor stays within a row and at most one row below the screen.     *)
THEOREM TypeCorrect == Spec => []TypeOK
<1>1. IInv => TypeOK
  BY DEF IInv
<1> QED BY <1>1, Invariant, PTL

(* Every pixel row of every row of characters shows the text that belongs  *)
(* there, through any wraps and scrolls.                                   *)
THEOREM ScreenShowsText == Spec => []ShowsText
<1>1. IInv => ShowsText
  BY DEF IInv
<1> QED BY <1>1, Invariant, PTL

(* Below the last row of characters every pixel stays black.               *)
THEOREM RestStaysBlack == Spec => []RestIsBlack
<1>1. IInv => RestIsBlack
  BY DEF IInv
<1> QED BY <1>1, Invariant, PTL

(* What is not on the screen is a screen further back than the cursor.     *)
THEOREM ScreenShowsTheEnd == Spec => []ShowsTheEnd
<1>1. ASSUME IInv, NEW l \in 0 .. line, NEW x \in Column, text[l][x] # Blank
      PROVE  l \in top .. top + rows - 1 \/ l \leq line - rows
  <2>1. TypeOK /\ TextInv
    BY <1>1 DEF IInv
  <2>2. /\ cursor_y \in Nat /\ cursor_y \leq rows /\ rows \in Nat \ {0}
        /\ line \in Nat /\ MaxLines \in Nat /\ l \in 0 .. MaxLines
        /\ cursor_y \leq line /\ x \in Nat
        /\ cursor_y < line => rows - 1 \leq cursor_y
    BY <2>1, Types DEF TextInv, Column
  <2>3. cursor_y = rows => cursor_x = 0
    BY <2>1 DEF TextInv
  <2>4. l = line /\ x \geq cursor_x => text[l][x] = Blank
    BY <2>1, <2>2 DEF TextInv
  <2>5. cursor_y = rows => l # line
    BY <2>2, <2>3, <2>4, <1>1
  <2> QED
    BY <2>2, <2>5 DEF top
<1>2. IInv => ShowsTheEnd
  BY <1>1 DEF ShowsTheEnd
<1> QED BY <1>2, Invariant, PTL
=============================================================================
