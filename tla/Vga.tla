--------------------------------- MODULE Vga ---------------------------------
(***************************************************************************)
(* devices/vga.c: the text display.  vga_putc() runs with interrupts off   *)
(* and is one step; '\a' beeps in the middle, with the state unchanged.    *)
(* paper is what the same text would look like on an endless sheet.        *)
(***************************************************************************)
EXTENDS Integers, Sequences

CONSTANTS
  COL_CNT, ROW_CNT,
  TabStop,         \* 8 in the code
  Glyph,           \* printable characters, among them Space
  Space,
  BootCursor       \* where the loader leaves the cursor

VARIABLES
  fb, cx, cy, vga_inited,
  cursor,          \* the cursor position in the display
  paper            \* history: the last ROW_CNT rows of the sheet, up to the cursor
vgaVars == <<fb, cx, cy, vga_inited, cursor, paper>>

Columns == 0 .. COL_CNT - 1
Rows == 0 .. ROW_CNT - 1
clear_row == [x \in Columns |-> Space]

(* The screen that the loader leaves is taken as blank.                    *)
VgaInit ==
  /\ fb = [y \in Rows |-> clear_row] /\ vga_inited = FALSE /\ cx = 0 /\ cy = 0
  /\ cursor = BootCursor
  /\ paper = [i \in 1 .. (cursor \div COL_CNT) + 1 |-> clear_row]

find_cursor == <<cursor % COL_CNT, cursor \div COL_CNT>>
move_cursor(x, y) == x + COL_CNT * y

Screen(f, x, y) == [f |-> f, x |-> x, y |-> y]

(* Mutant: scrolling does not clear the last row.                          *)
newline_keeps_row(f, y) ==
  IF y + 1 < ROW_CNT THEN Screen(f, 0, y + 1)
  ELSE Screen([r \in Rows |-> f[IF r < ROW_CNT - 1 THEN r + 1 ELSE r]], 0, ROW_CNT - 1)
newline(f, y) ==
  IF y + 1 < ROW_CNT THEN Screen(f, 0, y + 1)
  ELSE Screen([r \in Rows |-> IF r < ROW_CNT - 1 THEN f[r + 1] ELSE clear_row], 0, ROW_CNT - 1)

cls == Screen([y \in Rows |-> clear_row], 0, 0)

ROUND_UP(x, step) == ((x + step - 1) \div step) * step

advance(f, x, y) == IF x >= COL_CNT THEN newline(f, y) ELSE Screen(f, x, y)

draw(c, f, x, y) ==
  CASE c = "newline" -> newline(f, y)
    [] c = "formfeed" -> cls
    [] c = "backspace" -> Screen(f, IF x > 0 THEN x - 1 ELSE x, y)
    [] c = "return" -> Screen(f, 0, y)
    [] c = "tab" -> advance(f, ROUND_UP(x + 1, TabStop), y)
    [] c = "bell" -> Screen(f, x, y)
    [] c \in Glyph -> advance([f EXCEPT ![y][x] = c], x + 1, y)

(* The same on the sheet: col is where the next character goes.            *)
LastRows(rows) == SubSeq(rows, IF Len(rows) > ROW_CNT THEN Len(rows) - ROW_CNT + 1 ELSE 1, Len(rows))
Fresh(rows) == LastRows(Append(rows, clear_row))
write(c, col) ==
  CASE c = "formfeed" -> <<clear_row>>
    [] c = "newline" -> Fresh(paper)
    [] c \in Glyph ->
         LET rows == [paper EXCEPT ![Len(paper)][col] = c]
         IN IF col = COL_CNT - 1 THEN Fresh(rows) ELSE rows
    [] c = "tab" -> IF \E x \in Columns : x > col /\ x % TabStop = 0 THEN paper ELSE Fresh(paper)
    [] OTHER -> paper

vga_putc(c) ==
  LET at == IF vga_inited THEN <<cx, cy>> ELSE find_cursor
      s == draw(c, fb, at[1], at[2])
  IN /\ vga_inited' = TRUE
     /\ fb' = s.f /\ cx' = s.x /\ cy' = s.y
     /\ cursor' = move_cursor(s.x, s.y)
     /\ paper' = write(c, at[1])

VgaNext == \E c \in Glyph \cup {"newline", "formfeed", "backspace", "return", "tab", "bell"} : vga_putc(c)
VgaSpec == VgaInit /\ [][VgaNext]_vgaVars

(* vga_putc(): the screen is the end of the sheet, with its last row where *)
(* the cursor is and blank rows below it.  Scrolling, wrapping and tabs    *)
(* lose no text, and the cursor stays on the screen.                       *)
ScreenExact ==
  LET y == find_cursor[2]
  IN /\ vga_inited => find_cursor = <<cx, cy>>
     /\ y \in Rows /\ Len(paper) > y
     /\ \A r \in Rows : fb[r] = IF r <= y THEN paper[Len(paper) - y + r] ELSE clear_row
=============================================================================
