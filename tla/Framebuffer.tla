----------------------------- MODULE Framebuffer -----------------------------
(***************************************************************************)
(* The screen of the console, src/flanterm/backends/fb.c: a grid of the    *)
(* characters on the screen, a queue of the cells that are to change, with *)
(* a map from a cell to its item of the queue, and the pixels.  What the   *)
(* terminal asks for goes into the queue; double_buffer_flush draws it.    *)
(*                                                                         *)
(* An item of the queue never moves and only its own cell leads to it, so  *)
(* map holds the character of the item in place of the pointer, and of the *)
(* queue itself only the number of its items is kept (queue_i).  The loops *)
(* of the backend visit different cells, each read before it is written:   *)
(* they are one push of all the cells at once.                             *)
(***************************************************************************)
EXTENDS Integers, FiniteSets

CONSTANTS Width, Height,          \* the size of the framebuffer in pixels
          FontWidth, FontHeight,  \* 8 x 8 in the built-in font
          Spacing,                \* columns between glyphs: font_spacing, 1
          FontBits,               \* builtin_font: glyph -> the dots it sets
          LineGlyphs,             \* the glyphs that go on into the spacing
          NULL

Glyph == DOMAIN FontBits

(* The clamp in raw_putchar compares cursor_y with cols, so a screen is    *)
(* taken to have no more rows than columns.                                *)
glyph_width == FontWidth + Spacing
cols == Width \div glyph_width
rows == Height \div FontHeight

ASSUME FramebufferAssumption ==
    /\ Width \in Nat /\ Height \in Nat /\ Spacing \in Nat
    /\ FontWidth \in Nat \ {0} /\ FontHeight \in Nat \ {0}
    /\ cols \in Nat \ {0} /\ rows \in Nat \ {0} /\ rows <= cols
    /\ " " \in Glyph
    /\ \A g \in Glyph : FontBits[g] \subseteq (0..(FontWidth - 1)) \X (0..(FontHeight - 1))

offset_x == (Width % glyph_width) \div 2
offset_y == (Height % FontHeight) \div 2

Cell == (0..(cols - 1)) \X (0..(rows - 1))
Pixel == (0..(Width - 1)) \X (0..(Height - 1))

(* A colour is a 32-bit word; 0xffffffff lets the canvas through, which is *)
(* default_bg everywhere.                                                  *)
Transparent == -1
default_bg == 0
Char == [c : Glyph, fg : Int, bg : Int]

ASSUME NullAssumption == NULL \notin Char

VARIABLE fb    \* struct flanterm_fb_context

(* The glyph of c with its spacing: columns past the font repeat the last  *)
(* one of the line-drawing glyphs.                                         *)
font_bool ==
    [g \in Glyph |->
        FontBits[g] \cup {at \in (FontWidth..(glyph_width - 1)) \X (0..(FontHeight - 1)) :
                              g \in LineGlyphs /\ <<FontWidth - 1, at[2]>> \in FontBits[g]}]

CellAt(px) == << (px[1] - offset_x) \div glyph_width, (px[2] - offset_y) \div FontHeight >>
Within(px) == << (px[1] - offset_x) % glyph_width, (px[2] - offset_y) % FontHeight >>

Shade(colour) == IF colour = Transparent THEN default_bg ELSE colour
Dot(ch, at) == Shade(IF at \in font_bool[ch.c] THEN ch.fg ELSE ch.bg)

(* The screen with the characters of chars, a function from cells, drawn;  *)
(* plot_char_fast leaves the dots that the old glyph and the new one share.*)
plot_char_NoOffset(screen, chars) ==
    [px \in Pixel |-> LET at == << px[1] + offset_x, px[2] + offset_y >>
                      IN IF CellAt(at) \in DOMAIN chars THEN Dot(chars[CellAt(at)], Within(px))
                         ELSE screen[px]]
plot_char(screen, chars) ==
    [px \in Pixel |-> IF CellAt(px) \in DOMAIN chars THEN Dot(chars[CellAt(px)], Within(px))
                      ELSE screen[px]]
plot_char_fast(screen, old, chars) ==
    [px \in Pixel |->
        LET p == CellAt(px)
            at == Within(px)
        IN IF /\ p \in DOMAIN chars
              /\ (at \in font_bool[old[p].c]) # (at \in font_bool[chars[p].c])
           THEN Dot(chars[p], at)
           ELSE screen[px]]

-----------------------------------------------------------------------------
(* What a cell is to show: its item of the queue, or what is on the screen.*)
Content(f, p) == IF f.map[p] # NULL THEN f.map[p] ELSE f.grid[p]

(* compare_char: a cell without an item gets one if ch is news to it.      *)
Takes(f, p, ch) == f.map[p] # NULL \/ f.grid[p] # ch
IsNew(f, p, ch) == f.map[p] = NULL /\ f.grid[p] # ch

push_to_queue_NoCompare(f, ch, x, y) ==
    IF <<x, y>> \in Cell
    THEN [f EXCEPT !.map[<<x, y>>] = ch,
                   !.queue_i = @ + (IF IsNew(f, <<x, y>>, ch) THEN 1 ELSE 0)]
    ELSE f
push_to_queue(f, ch, x, y) ==
    IF <<x, y>> \in Cell /\ Takes(f, <<x, y>>, ch)
    THEN [f EXCEPT !.map[<<x, y>>] = ch,
                   !.queue_i = @ + (IF IsNew(f, <<x, y>>, ch) THEN 1 ELSE 0)]
    ELSE f

(* A loop of push_to_queue: new is a function from cells to characters.    *)
PushAll(f, new) ==
    [f EXCEPT !.map = [p \in Cell |-> IF p \in DOMAIN new /\ Takes(f, p, new[p])
                                      THEN new[p] ELSE @[p]],
              !.queue_i = @ + Cardinality({p \in DOMAIN new : IsNew(f, p, new[p])})]

RowsOf(S) == {p \in Cell : p[2] \in S}

(* scroll and revscroll over the rows of top up to bottom - 1.  An L below *)
(* the region asks for top > bottom - 1: then one row is blanked.          *)
scroll_WholeScreen(f, top, bottom, blank) ==
    PushAll(f, [p \in RowsOf(0..(rows - 1)) |->
                        IF p[2] < rows - 1 THEN Content(f, <<p[1], p[2] + 1>>) ELSE blank])
scroll(f, top, bottom, blank) ==
    PushAll(f, [p \in RowsOf(top..(bottom - 1)) |->
                        IF p[2] < bottom - 1 THEN Content(f, <<p[1], p[2] + 1>>) ELSE blank])

revscroll(f, top, bottom, blank) ==
    PushAll(f, [p \in RowsOf({top} \cup top..(bottom - 1)) |->
                        IF p[2] > top THEN Content(f, <<p[1], p[2] - 1>>) ELSE blank])

set_cursor_pos(f, x, y) ==
    [f EXCEPT !.cursor_x = IF x < 0 THEN 0 ELSE IF x >= cols THEN cols - 1 ELSE x,
              !.cursor_y = IF y < 0 THEN 0 ELSE IF y >= rows THEN rows - 1 ELSE y]

CursorX(f) == IF f.cursor_x >= cols THEN cols - 1 ELSE f.cursor_x
CursorY(f) == IF f.cursor_y >= rows THEN rows - 1 ELSE f.cursor_y

clear(f, move, blank) ==
    LET g == PushAll(f, [p \in Cell |-> blank])
    IN IF move THEN set_cursor_pos(g, 0, 0) ELSE g

move_character(f, new_x, new_y, old_x, old_y) ==
    IF <<old_x, old_y>> \in Cell
    THEN push_to_queue(f, Content(f, <<old_x, old_y>>), new_x, new_y)
    ELSE f

(* The step to the next line that raw_putchar takes before a character     *)
(* that no longer fits; m has the margins and scroll_enabled.              *)
NextLine(f, m, blank) ==
    LET y == f.cursor_y + 1
        g == IF y = m.bottom THEN [scroll(f, m.top, m.bottom, blank) EXCEPT !.cursor_y = y - 1]
             ELSE [f EXCEPT !.cursor_y = y]
    IN [g EXCEPT !.cursor_x = 0,
                 !.cursor_y = IF @ >= cols THEN cols - 1 ELSE @]

raw_putchar_WrapEarly(f, m, ch) ==
    LET g == IF f.cursor_x >= cols - 1 /\ (f.cursor_y < m.bottom - 1 \/ m.scroll_enabled)
             THEN NextLine(f, m, [ch EXCEPT !.c = " "]) ELSE f
    IN [push_to_queue(g, ch, g.cursor_x, g.cursor_y) EXCEPT !.cursor_x = @ + 1]
raw_putchar(f, m, ch) ==
    LET g == IF f.cursor_x >= cols /\ (f.cursor_y < m.bottom - 1 \/ m.scroll_enabled)
             THEN NextLine(f, m, [ch EXCEPT !.c = " "]) ELSE f
    IN [push_to_queue(g, ch, g.cursor_x, g.cursor_y) EXCEPT !.cursor_x = @ + 1]

-----------------------------------------------------------------------------
Inverted(ch) == [ch EXCEPT !.fg = ch.bg, !.bg = ch.fg]

Cursor(f) == <<f.cursor_x, f.cursor_y>>
OldCursor(f) == <<f.old_cursor_x, f.old_cursor_y>>

(* draw_cursor also commits the character under the cursor.                *)
draw_cursor(f) ==
    LET p == Cursor(f) IN
    IF p \in Cell
    THEN [f EXCEPT !.framebuffer = plot_char(@, [q \in {p} |-> Inverted(Content(f, p))]),
                   !.grid[p] = Content(f, p),
                   !.map[p] = NULL]
    ELSE f

(* The items still in the queue, drawn and committed.                      *)
Drain(f) ==
    LET Queued == {p \in Cell : f.map[p] # NULL}
        Quick == {p \in Queued : f.map[p].fg = f.grid[p].fg /\ f.map[p].bg = f.grid[p].bg}
        drawn == plot_char(f.framebuffer, [p \in Queued \ Quick |-> f.map[p]])
    IN [f EXCEPT !.framebuffer = plot_char_fast(drawn, f.grid, [p \in Quick |-> f.map[p]]),
                 !.grid = [p \in Cell |-> Content(f, p)],
                 !.map = [p \in Cell |-> NULL]]

(* The old place of the cursor, when it moved or is hidden.                *)
EraseCursor_Moved(f, cursor_enabled) ==
    IF Cursor(f) # OldCursor(f) /\ OldCursor(f) \in Cell
    THEN [f EXCEPT !.framebuffer = plot_char(@, [p \in {OldCursor(f)} |-> f.grid[p]])]
    ELSE f
EraseCursor(f, cursor_enabled) ==
    IF (Cursor(f) # OldCursor(f) \/ ~cursor_enabled) /\ OldCursor(f) \in Cell
    THEN [f EXCEPT !.framebuffer = plot_char(@, [p \in {OldCursor(f)} |-> f.grid[p]])]
    ELSE f

double_buffer_flush_KeepsCount(f, cursor_enabled) ==
    LET drained == Drain(IF cursor_enabled THEN draw_cursor(f) ELSE f)
    IN [EraseCursor(drained, cursor_enabled) EXCEPT !.old_cursor_x = f.cursor_x,
                                                    !.old_cursor_y = f.cursor_y]
double_buffer_flush(f, cursor_enabled) ==
    LET drained == Drain(IF cursor_enabled THEN draw_cursor(f) ELSE f)
    IN [EraseCursor(drained, cursor_enabled) EXCEPT !.old_cursor_x = f.cursor_x,
                                                    !.old_cursor_y = f.cursor_y,
                                                    !.queue_i = 0]

(* flanterm_fb_init with full_refresh, for text in the colours fg and bg.  *)
Blank(fg, bg) == [c |-> " ", fg |-> fg, bg |-> bg]
full_refresh(f) ==
    draw_cursor([f EXCEPT !.framebuffer = plot_char([px \in Pixel |-> default_bg], f.grid)])
flanterm_fb_init(fg, bg) ==
    full_refresh([grid |-> [p \in Cell |-> Blank(fg, bg)],
                  map |-> [p \in Cell |-> NULL],
                  queue_i |-> 0,
                  framebuffer |-> [px \in Pixel |-> default_bg],
                  cursor_x |-> 0, cursor_y |-> 0,
                  old_cursor_x |-> 0, old_cursor_y |-> 0])

-----------------------------------------------------------------------------
(* Any calls of the backend, in any order: the terminal's are among them.  *)
Margins == [top : 0..(rows - 1), bottom : 1..rows, scroll_enabled : BOOLEAN]

FbInit == \E fg, bg \in Int : fb = flanterm_fb_init(fg, bg)

FbNext ==
    \/ \E m \in Margins, ch \in Char :
          \/ fb' = raw_putchar(fb, m, ch)
          \/ fb' = scroll(fb, m.top, m.bottom, [ch EXCEPT !.c = " "])
          \/ fb' = revscroll(fb, m.top, m.bottom, [ch EXCEPT !.c = " "])
    \/ \E move \in BOOLEAN, fg, bg \in Int : fb' = clear(fb, move, Blank(fg, bg))
    \/ \E x, y \in Int : fb' = set_cursor_pos(fb, x, y)
    \/ \E nx, ny, ox, oy \in Nat : fb' = move_character(fb, nx, ny, ox, oy)
    \/ \E enabled \in BOOLEAN : fb' = double_buffer_flush(fb, enabled)

FbSpec == FbInit /\ [][FbNext]_fb

(* The queue holds the items the map leads to and no more: no cell has two *)
(* items, none is lost, and rows * cols, the room that flanterm_fb_init    *)
(* allocates for the queue, is always enough for it.                       *)
QueueFits ==
    /\ fb.queue_i = Cardinality({p \in Cell : fb.map[p] # NULL})
    /\ fb.queue_i <= rows * cols
=============================================================================
