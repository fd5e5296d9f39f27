------------------------------- MODULE Screen -------------------------------
(***************************************************************************)
(* The framebuffer terminal, Logger of src/shared_lib/src/logger.rs.  A    *)
(* cell of the screen shows a glyph: the character drawn there last, BLANK *)
(* for the glyph of '\0', BLOCK for the square that write_char draws in    *)
(* its place.                                                              *)
(***************************************************************************)
EXTENDS Integers, Sequences, SequencesExt

CONSTANTS Width, Height, Stride, \* of the framebuffer, in pixels
          Char,                  \* printable characters
          MaxLength              \* of the text written, a bound for TLC

ASSUME ScreenAssumption ==
  /\ {Width, Height, Stride} \subseteq Nat /\ Height > 8 /\ Stride >= Width
  /\ Width >= Height   \* a higher screen has fewer rows in char_buffer than it shows

NUL == "NUL"
NEWLINE == "NEWLINE"
RETURN == "RETURN"
UNKNOWN == "UNKNOWN"  \* a character that BASIC_FONTS does not have
BLANK == "BLANK"
BLOCK == "BLOCK"

VARIABLES text,        \* everything written, since the last clear
          x_pos, y_pos,
          char_buffer, \* rows of cells; not only the visible ones
          screen,      \* cells of the screen, [1 .. h -> [1 .. w -> glyph]]
          highest,     \* the last byte of the framebuffer written so far
          panicked

screenVars == <<text, x_pos, y_pos, char_buffer, screen, highest, panicked>>

w == (Width - 1) \div 8
h == (Height - 1) \div 8

EmptyRow == [x \in 1 .. w |-> NUL]
Dark == [y \in 1 .. h |-> [x \in 1 .. w |-> BLANK]]

\* Logger::new makes as many rows as a row has cells
Rows == w

ScreenInit ==
  /\ text = <<>> /\ x_pos = 0 /\ y_pos = 0
  /\ char_buffer = [y \in 1 .. Rows |-> EmptyRow]
  /\ screen = Dark /\ highest = 0 /\ panicked = FALSE

\* the glyph of a character of the buffer in BASIC_FONTS
Glyph(c) == IF c = NUL THEN BLANK ELSE c

\* write_8x8 at a cell: the last byte that write_pixel writes
LastByte(x, y) == 4 * ((1 + y * 8 + 7) * Stride + 1 + x * 8 + 7) + 3

Later(byte) == IF byte > highest THEN byte ELSE highest

\* newline, on a state s: a scroll drops the first row, adds one after the last, and draws all
newline(s) ==
  IF s.y + 1 < h THEN [s EXCEPT !.y = s.y + 1, !.x = 0]
  ELSE LET buffer == Append(Tail(s.buffer), EmptyRow) IN
       [x |-> 0, y |-> h - 1, buffer |-> buffer, highest |-> Later(LastByte(w - 1, h - 1)),
        screen |-> [y \in 1 .. h |-> [x \in 1 .. w |-> Glyph(buffer[y][x])]]]

\* the cell at the position, and the position after it
put(s, c) ==
  [s EXCEPT !.buffer[s.y + 1][s.x + 1] = c,
            !.screen[s.y + 1][s.x + 1] = IF c = NUL THEN BLOCK ELSE c,
            !.highest = IF LastByte(s.x, s.y) > s.highest THEN LastByte(s.x, s.y) ELSE s.highest,
            !.x = s.x + 1]

here == [x |-> x_pos, y |-> y_pos, buffer |-> char_buffer, screen |-> screen, highest |-> highest]

write_char_NoWrap(c) ==
  CASE c = NEWLINE -> newline(here)
    [] c = RETURN  -> [here EXCEPT !.x = 0]
    [] OTHER -> put(IF x_pos > w THEN newline(here) ELSE here, c)

write_char(c) ==
  CASE c = NEWLINE -> newline(here)
    [] c = RETURN  -> [here EXCEPT !.x = 0]
    [] OTHER -> put(IF x_pos >= w THEN newline(here) ELSE here, c)

Becomes(s) ==
  x_pos' = s.x /\ y_pos' = s.y /\ char_buffer' = s.buffer /\ screen' = s.screen /\ highest' = s.highest

Write(c) ==
  /\ ~panicked /\ Len(text) < MaxLength
  /\ text' = Append(text, c)
  /\ Becomes(write_char(c))
  /\ UNCHANGED panicked

\* the character is in the buffer when rendering it panics
WriteUnknown ==
  LET s == IF x_pos >= w THEN newline(here) ELSE here IN
  /\ ~panicked /\ panicked' = TRUE
  /\ Becomes([s EXCEPT !.buffer[s.y + 1][s.x + 1] = UNKNOWN])
  /\ UNCHANGED text

Clear_KeepsBuffer ==
  /\ ~panicked
  /\ text' = <<>> /\ x_pos' = 0 /\ y_pos' = 0 /\ screen' = Dark
  /\ UNCHANGED <<highest, panicked, char_buffer>>

\* clear empties as many rows as a row has cells
Clear ==
  /\ ~panicked
  /\ text' = <<>> /\ x_pos' = 0 /\ y_pos' = 0 /\ screen' = Dark
  /\ char_buffer' = [y \in 1 .. Rows |-> EmptyRow]
  /\ UNCHANGED <<highest, panicked>>

ScreenNext == (\E c \in Char \cup {NUL, NEWLINE, RETURN} : Write(c)) \/ WriteUnknown \/ Clear

ScreenSpec == ScreenInit /\ [][ScreenNext]_screenVars

----------------------------------------------------------------------------
(* The reference: a terminal with endless rows, which shows the last ones. *)

\* rows of the text written so far, and the column, after one more character
Type(t, c) ==
  LET wrapped == IF t.x = w THEN [rows |-> Append(t.rows, EmptyRow), x |-> 0] ELSE t
      m == Len(wrapped.rows)
  IN  CASE c = NEWLINE -> [rows |-> Append(t.rows, EmptyRow), x |-> 0]
        [] c = RETURN  -> [t EXCEPT !.x = 0]
        [] OTHER -> [rows |-> [wrapped.rows EXCEPT ![m][wrapped.x + 1] = c], x |-> wrapped.x + 1]

Paper[k \in 0 .. MaxLength] ==
  IF k = 0 THEN [rows |-> <<EmptyRow>>, x |-> 0] ELSE Type(Paper[k - 1], text[k])

Visible ==
  LET rows == Paper[Len(text)].rows
      skip == IF Len(rows) > h THEN Len(rows) - h ELSE 0
  IN  [y \in 1 .. h |-> IF y + skip <= Len(rows) THEN rows[y + skip] ELSE EmptyRow]

\* The screen shows the end of the text, wrapped at its width, after any newlines,
\* carriage returns, wraps, scrolls and clears; only the square that stands for
\* '\0' disappears when the screen scrolls.
ScreenShowsText ==
  ~panicked =>
    \A y \in 1 .. h, x \in 1 .. w :
      \/ screen[y][x] = Glyph(Visible[y][x])
      \/ Visible[y][x] = NUL /\ screen[y][x] = BLOCK

\* Every pixel lies in the framebuffer, so that the slice index in write_pixel
\* never panics, with the lock of the logger held.
PixelsInBounds == highest < 4 * Stride * Height
============================================================================
