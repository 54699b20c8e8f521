------------------------------ MODULE Console ------------------------------
(***************************************************************************)
(* The framebuffer console: gpu::buffer::putc, puts and clear              *)
(* (src/src/kernel/buffer.cpp:40-90, src/include/kernel/gpu/buffer.h).     *)
(*                                                                         *)
(* The screen is modelled by rows of pixels and columns of characters: a   *)
(* cell holds one line of pixels of a glyph.  Scrolling moves rows of      *)
(* pixels, text is written in rows of characters, and the last rows of     *)
(* pixels may belong to no row of characters.  Scrolling is late: it       *)
(* happens when the next character comes.                                  *)
(*                                                                         *)
(* Rows and columns are those of pxl, data[y * width + x] (buffer.h:34).   *)
(* What the GPU shows in them is the pixel at y * pitch + 4 * x: the       *)
(* screen of this model is the one seen when the pitch it answered is      *)
(* 4 * width, which the code takes for granted.                            *)
(*                                                                         *)
(* text and line are history: what was put since the last clear, on a      *)
(* paper without end.                                                      *)
(***************************************************************************)
EXTENDS Integers

CONSTANTS
    Cols,        \* width / char_width, characters in a row (128)
    height,      \* rows of pixels (768)
    char_height, \* rows of pixels of a character (8)
    Chars,       \* characters with a glyph
    Newline,     \* '\n'
    Blank,       \* nothing was put here: black
    MaxLines     \* bound: lines of text

ASSUME ConsoleAssumption ==
    /\ Cols \in Nat \ {0}
    /\ char_height \in Nat \ {0}
    /\ height \in Nat /\ char_height \leq height
    /\ Newline \notin Chars
    /\ Blank \notin Chars
    /\ MaxLines \in Nat

rows == height \div char_height

VARIABLES
    screen,              \* the pixels
    cursor_x, cursor_y,  \* where the next character goes, in characters
    text,                \* the lines put so far
    line                 \* the line of the next character

vars == <<screen, cursor_x, cursor_y, text, line>>

Column == 0 .. Cols - 1
Glyph  == 0 .. char_height - 1
Cell   == [char : Chars, row : Glyph] \cup {Blank}

TypeOK ==
    /\ screen \in [0 .. height - 1 -> [Column -> Cell]]
    /\ cursor_x \in Column
    /\ cursor_y \in 0 .. rows
    /\ text \in [0 .. MaxLines -> [Column -> Chars \cup {Blank}]]
    /\ line \in 0 .. MaxLines

Black   == [y \in 0 .. height - 1 |-> [x \in Column |-> Blank]]
NoText  == [l \in 0 .. MaxLines |-> [x \in Column |-> Blank]]

(* allocate_framebuffer and the clear that kernel_main begins with.        *)
Init ==
    /\ screen = Black
    /\ cursor_x = 0 /\ cursor_y = 0
    /\ text = NoText /\ line = 0

-----------------------------------------------------------------------------
(* Lines 47-59.                                                            *)
M_ScrolledTextRows ==
    IF cursor_y < rows THEN screen
    ELSE [y \in 0 .. height - 1 |->
            IF y < (rows - 1) * char_height THEN screen[y + char_height]
            ELSE screen[y]]

Scrolled ==
    IF cursor_y < rows THEN screen
    ELSE [y \in 0 .. height - 1 |->
            IF y < height - char_height THEN screen[y + char_height]
            ELSE [x \in Column |-> Blank]]

M_CursorRowHome == IF cursor_y < rows THEN cursor_y ELSE 0

CursorRow == IF cursor_y < rows THEN cursor_y ELSE cursor_y - 1

(* Lines 69-77: the glyph of c at the cursor.                              *)
Drawn(c) ==
    [y \in 0 .. height - 1 |-> [x \in Column |->
        IF /\ x = cursor_x
           /\ y \in CursorRow * char_height
                    .. CursorRow * char_height + char_height - 1
        THEN [char |-> c, row |-> y - CursorRow * char_height]
        ELSE Scrolled[y][x]]]

PutNewline ==     \* lines 61-65
    /\ line < MaxLines
    /\ screen' = Scrolled
    /\ cursor_x' = 0
    /\ cursor_y' = CursorRow + 1
    /\ line' = line + 1
    /\ UNCHANGED text

(* Lines 67-83, with the wrap.                                             *)
PutChar(c) ==
    /\ line < MaxLines
    /\ screen' = Drawn(c)
    /\ text' = [text EXCEPT ![line] = [@ EXCEPT ![cursor_x] = c]]
    /\ IF cursor_x + 1 \geq Cols
       THEN cursor_x' = 0 /\ cursor_y' = CursorRow + 1 /\ line' = line + 1
       ELSE cursor_x' = cursor_x + 1 /\ cursor_y' = CursorRow /\ line' = line

putc == PutNewline \/ \E c \in Chars : PutChar(c)

(* buffer.h:40-46: the pixels go black, the cursor stays.                  *)
clear ==
    /\ screen' = Black
    /\ text' = NoText
    /\ UNCHANGED <<cursor_x, cursor_y, line>>

Next == putc \/ clear

Spec == Init /\ [][Next]_vars

-----------------------------------------------------------------------------
(* The first line of the text that is on the screen.                       *)
top == line - cursor_y

(* What pixel row d of the character at column x of line l looks like.     *)
Look(l, x, d) ==
    IF l \leq line /\ text[l][x] # Blank
    THEN [char |-> text[l][x], row |-> d] ELSE Blank

(* The screen shows the text from top on, every pixel row of it, through   *)
(* any wraps, scrolls and clears (buffer.cpp:40-84).                       *)
ShowsText ==
    \A r \in 0 .. rows - 1, d \in Glyph, x \in Column :
        screen[r * char_height + d][x] = Look(top + r, x, d)

(* ... and that is the end of it: a line with text that is not on the      *)
(* screen is further back than the screen is high.                         *)
ShowsTheEnd ==
    \A l \in 0 .. line : (\E x \in Column : text[l][x] # Blank)
        => l \in top .. top + rows - 1 \/ l \leq line - rows

(* The rows of pixels below the last row of characters stay black: what    *)
(* scrolls out of them becomes text (buffer.cpp:49-58).                    *)
RestIsBlack ==
    \A y \in rows * char_height .. height - 1, x \in Column :
        screen[y][x] = Blank
=============================================================================
