------------------------------ MODULE Terminal ------------------------------
(***************************************************************************)
(* The terminal emulator, src/flanterm/flanterm.c, over its framebuffer:   *)
(* flanterm_write hands over its bytes one at a time, each is text, a      *)
(* control character or part of an escape sequence, and at the end of the  *)
(* write the queue is drawn (autoflush is always set).  The system calls   *)
(* that reach past the emulator, exec/syscall.c:79-98, come in between.    *)
(*                                                                         *)
(* Bytes are strings of one character; control characters, and the bytes   *)
(* of UTF-8, have the names below.  The callback is never set (kernel/     *)
(* main.c), so the sequences that only call it do nothing.  esc_values     *)
(* past esc_values_i, and whatever a sequence leaves behind that the next  *)
(* one resets, are not kept.                                               *)
(***************************************************************************)
EXTENDS Framebuffer, Sequences

CONSTANTS Writes,          \* bound: the byte sequences handed to flanterm_write
          MaxWrites,       \* bound: how many of them
          MAX_ESC_VALUES,  \* FLANTERM_MAX_ESC_VALUES
          Printable,       \* the bytes of 0x20..0x7e in use
          Lead, Payload,   \* UTF-8: how many bytes follow a lead byte; a byte's bits
          cp437,           \* the code points that have a glyph, and which
          Syscalls,        \* bound: which system calls the run makes
          Colours          \* bound: the colours that programs ask for

ASSUME TerminalAssumption ==
    /\ MaxWrites \in Nat /\ MAX_ESC_VALUES \in Nat \ {0, 1}
    /\ Printable \subseteq Glyph /\ " " \in Printable /\ "fe" \in Glyph
    /\ Syscalls \subseteq {"clear", "fg", "bg", "fg_default", "bg_default"}
    /\ Writes \subseteq Seq(STRING) /\ NULL \notin Seq(STRING) /\ Colours \subseteq Int
    /\ Payload \in [DOMAIN Payload -> Nat]
    /\ DOMAIN Lead \subseteq DOMAIN Payload /\ Lead \in [DOMAIN Lead -> 1..3]
    /\ \A n \in DOMAIN cp437 : cp437[n] \in Glyph /\ cp437[n] # NULL

VARIABLES term,    \* margins, modes and character sets of flanterm_context
          parser,  \* its half-read escape sequence or code point
          pen,     \* the colours of the text, and what was asked for
          saved,   \* ESC 7
          input,   \* the bytes of the current write left to read, NULL between writes
          writes   \* bound: the writes so far

vars == <<fb, term, parser, pen, saved, input, writes>>

digit == <<"0", "1", "2", "3", "4", "5", "6", "7", "8", "9">>
Digits == [d \in {digit[i] : i \in 1..10} |-> CHOOSE n \in 0..9 : digit[n + 1] = d]
Continuation == DOMAIN Payload \ DOMAIN Lead

-----------------------------------------------------------------------------
(* Colours: ansi_colours, ansi_bright_colours, col256 and the defaults.    *)
ansi_colours == <<0, 11141120, 43520, 11162880, 170, 11141290, 43690, 11184810>>
ansi_bright_colours == <<5592405, 16733525, 5635925, 16777045, 5592575, 16733695,
                         5636095, 16777215>>
default_fg == 11184810
default_fg_bright == 16777215
default_bg_bright == 5592405

Rgb(r, g, b) == (r * 256 + g) * 256 + b
col256(n) ==
    LET level == <<0, 95, 135, 175, 215, 255>>
        i == n - 16
        grey == 8 + 10 * (i - 216)
    IN IF i < 216 THEN Rgb(level[i \div 36 + 1], level[((i \div 6) % 6) + 1], level[(i % 6) + 1])
       ELSE Rgb(grey, grey, grey)

NoColour == -1    \* current_primary and current_bg: (size_t)-1

(* With reverse_video the text is drawn with text_bg on text_fg.  For the  *)
(* property InkIsRecorded, fg_direct and bg_direct tell whether text_fg    *)
(* and text_bg were last set past current_*, by a 38, a 48 or a system     *)
(* call; nothing reads them.                                               *)
TextFg(p, colour, direct) == [p EXCEPT !.text_fg = colour, !.fg_direct = direct]
TextBg(p, colour, direct) == [p EXCEPT !.text_bg = colour, !.bg_direct = direct]
Fore_PastReverse(p, colour) == TextFg(p, colour, FALSE)
Fore(p, colour) == IF p.reverse_video THEN TextBg(p, colour, FALSE) ELSE TextFg(p, colour, FALSE)
Back(p, colour) == IF p.reverse_video THEN TextFg(p, colour, FALSE) ELSE TextBg(p, colour, FALSE)
swap_palette(p) == [p EXCEPT !.text_fg = p.text_bg, !.text_bg = p.text_fg,
                             !.fg_direct = p.bg_direct, !.bg_direct = p.fg_direct]
Bright(colour, bright) == IF bright THEN ansi_bright_colours[colour + 1]
                          ELSE ansi_colours[colour + 1]

(* flanterm_fb_init and reinit: the values of a new context. *)
PlainPen == [text_fg |-> default_fg, text_bg |-> Transparent, bold |-> FALSE, bg_bold |-> FALSE,
             reverse_video |-> FALSE, current_primary |-> NoColour, current_bg |-> NoColour,
             fg_direct |-> FALSE, bg_direct |-> FALSE]

(* What "default" means at 1, 5, 22 and 25 goes by the side it is put on.  *)
DefaultFore(p, bright) ==
    IF p.reverse_video THEN (IF bright THEN default_bg_bright ELSE Transparent)
    ELSE (IF bright THEN default_fg_bright ELSE default_fg)
DefaultBack(p, bright) ==
    IF p.reverse_video THEN (IF bright THEN default_fg_bright ELSE default_fg)
    ELSE (IF bright THEN default_bg_bright ELSE Transparent)

Bold(p, bright) ==
    [Fore(p, IF p.current_primary = NoColour THEN DefaultFore(p, bright)
              ELSE Bright(p.current_primary, bright)) EXCEPT !.bold = bright]
BgBold(p, bright) ==
    [Back(p, IF p.current_bg = NoColour THEN DefaultBack(p, bright)
             ELSE Bright(p.current_bg, bright)) EXCEPT !.bg_bold = bright]

ForgetFore(p) == [Fore(p, IF p.bold THEN default_fg_bright ELSE default_fg)
                  EXCEPT !.current_primary = NoColour]
ForgetBack(p) == [Back(p, IF p.bg_bold THEN default_bg_bright ELSE Transparent)
                  EXCEPT !.current_bg = NoColour]
ReverseVideo(p, on) == IF p.reverse_video = on THEN p
                  ELSE [swap_palette(p) EXCEPT !.reverse_video = on]

(* One value of SGR that needs no other.                                   *)
sgr_value(p, v) ==
    CASE v = 0 -> PlainPen
      [] v = 1 -> Bold(p, TRUE)
      [] v = 5 -> BgBold(p, TRUE)
      [] v = 22 -> Bold(p, FALSE)
      [] v = 25 -> BgBold(p, FALSE)
      [] v \in 30..37 -> [Fore(p, Bright(v - 30, p.bold)) EXCEPT !.current_primary = v - 30]
      [] v \in 40..47 -> [Back(p, Bright(v - 40, p.bg_bold)) EXCEPT !.current_bg = v - 40]
      [] v \in 90..97 -> [Fore(p, Bright(v - 90, TRUE)) EXCEPT !.current_primary = v - 90]
      [] v \in 100..107 -> [Back(p, Bright(v - 100, TRUE)) EXCEPT !.current_bg = v - 100]
      [] v = 39 -> ForgetFore(p)
      [] v = 49 -> ForgetBack(p)
      [] v = 7 -> ReverseVideo(p, TRUE)
      [] v = 27 -> ReverseVideo(p, FALSE)
      [] OTHER -> p

(* 38 and 48 set text_fg and text_bg past reverse_video and current_*.     *)
Direct(p, k, colour) == IF k = 38 THEN TextFg(p, colour, TRUE) ELSE TextBg(p, colour, TRUE)
Palette(n) == IF n < 8 THEN Bright(n, FALSE) ELSE IF n < 16 THEN Bright(n - 8, TRUE)
              ELSE col256(n)

(* sgr: operands are the values of a 38 or 48 read so far.                 *)
SgrStep(acc, v) ==
    LET o == acc.operands
        Take == [acc EXCEPT !.operands = Append(o, v)]
        Set(p) == [pen |-> p, operands |-> <<>>]
    IN CASE o = <<>> /\ v \in {38, 48} -> Take
         [] o = <<>> /\ v \notin {38, 48} -> Set(sgr_value(acc.pen, v))
         [] Len(o) = 1 -> IF v \in {2, 5} THEN Take ELSE Set(acc.pen)
         [] Len(o) > 1 /\ o[2] = 5 -> Set(Direct(acc.pen, o[1], Palette(v)))
         [] Len(o) > 1 /\ o[2] = 2 -> IF Len(o) < 4 THEN Take
                                      ELSE Set(Direct(acc.pen, o[1], Rgb(o[3], o[4], v)))
sgr(p, values) ==
    LET after[n \in 0..Len(values)] ==
            IF n = 0 THEN [pen |-> p, operands |-> <<>>] ELSE SgrStep(after[n - 1], values[n])
    IN IF values = <<>> THEN sgr_value(p, 0) ELSE after[Len(values)].pen

-----------------------------------------------------------------------------
NoSequence == [escape |-> FALSE, csi |-> FALSE, control_sequence |-> FALSE, osc |-> FALSE,
               osc_escape |-> FALSE, rrr |-> FALSE, discard_next |-> FALSE,
               dec_private |-> FALSE, escape_offset |-> 0, esc_values |-> <<>>,
               unicode_remaining |-> 0, code_point |-> 0]

(* flanterm_context_reinit *)
NewTerm == [scroll_top_margin |-> 0, scroll_bottom_margin |-> rows,
            cursor_enabled |-> TRUE, insert_mode |-> FALSE,
            charsets |-> <<"default", "special">>, current_charset |-> 1, g_select |-> 0,
            saved_cursor |-> <<0, 0>>]

Init == /\ fb = flanterm_fb_init(default_fg, Transparent)
        /\ term = NewTerm
        /\ parser = NoSequence
        /\ pen = PlainPen
        /\ saved = [pen |-> [PlainPen EXCEPT !.text_fg = 0, !.text_bg = 0,
                                             !.current_primary = 0, !.current_bg = 0],
                    current_charset |-> 1, cursor |-> <<0, 0>>]
        /\ input = NULL
        /\ writes = 0

(* The branches of flanterm_putchar, in its order.                         *)
Reading == input # NULL /\ input # <<>>
Byte == Head(input)
Read == input' = Tail(input) /\ UNCHANGED writes

Cancelled == Reading /\ (parser.discard_next \/ Byte \in {"CAN", "SUB"})
Continues == /\ Reading /\ ~Cancelled
             /\ parser.unicode_remaining # 0 /\ Byte \in Continuation
Leads == Reading /\ ~Cancelled /\ ~Continues /\ Byte \in DOMAIN Lead
Plain == Reading /\ ~Cancelled /\ ~Continues /\ ~Leads
InOsc == Plain /\ parser.escape /\ parser.osc
InSequence == Plain /\ parser.escape /\ ~parser.osc /\ parser.control_sequence
InEscape == Plain /\ parser.escape /\ ~parser.osc /\ ~parser.control_sequence
Choosing == Plain /\ ~parser.escape /\ term.g_select # 0
InText == Plain /\ ~parser.escape /\ term.g_select = 0

(* unicode_error: a byte that does not continue the code point ends it.    *)
Parser == [parser EXCEPT !.unicode_remaining = 0, !.code_point = 0]
(* A sequence is over; only dec_private outlives one that was cut short.   *)
Done == [NoSequence EXCEPT !.dec_private = parser.dec_private]

Region(enabled) == [top |-> term.scroll_top_margin, bottom |-> term.scroll_bottom_margin,
                    scroll_enabled |-> enabled]
Ch(g) == [c |-> g, fg |-> pen.text_fg, bg |-> pen.text_bg]
Space == Ch(" ")
Put(f, g) == raw_putchar(f, Region(TRUE), Ch(g))
X == CursorX(fb)
Y == CursorY(fb)
MoveTo(nx, ny) == fb' = set_cursor_pos(fb, nx, ny)

flanterm_write ==
    /\ input = NULL /\ writes < MaxWrites
    /\ \E w \in Writes : input' = w
    /\ writes' = writes + 1
    /\ UNCHANGED <<fb, term, parser, pen, saved>>

Flush ==
    /\ input = <<>>
    /\ fb' = double_buffer_flush(fb, term.cursor_enabled)
    /\ input' = NULL
    /\ UNCHANGED <<term, parser, pen, saved, writes>>

(* CAN and SUB, and the byte after CSI [. *)
Discard ==
    /\ Cancelled /\ Read
    /\ parser' = Done
    /\ term' = [term EXCEPT !.g_select = 0]
    /\ UNCHANGED <<fb, pen, saved>>

-----------------------------------------------------------------------------
(* UTF-8 *)
LeadByte ==
    /\ Leads /\ Read
    /\ parser' = [parser EXCEPT !.unicode_remaining = Lead[Byte], !.code_point = Payload[Byte]]
    /\ UNCHANGED <<fb, term, pen, saved>>

CodePoint == parser.code_point * 64 + Payload[Byte]

MoreBytes ==
    /\ Continues /\ parser.unicode_remaining > 1 /\ Read
    /\ parser' = [parser EXCEPT !.unicode_remaining = @ - 1, !.code_point = CodePoint]
    /\ UNCHANGED <<fb, term, pen, saved>>

(* mk_wcwidth.  combining is four of the 142 intervals of its table: the   *)
(* texts of the instances have no other combining characters.              *)
combining == { <<768, 879>>, <<8203, 8207>>, <<8400, 8431>>, <<65024, 65039>> }
wide == { <<4352, 4447>>, <<9001, 9002>>, <<11904, 12350>>, <<12352, 42191>>, <<44032, 55203>>,
          <<63744, 64255>>, <<65040, 65049>>, <<65072, 65135>>, <<65280, 65376>>,
          <<65504, 65510>>, <<131072, 196605>>, <<196608, 262141>> }
bisearch(ucs, table) == \E i \in table : i[1] <= ucs /\ ucs <= i[2]
mk_wcwidth(ucs) ==
    IF ucs = 0 \/ bisearch(ucs, combining) THEN 0 ELSE IF bisearch(ucs, wide) THEN 2 ELSE 1

unicode_to_cp437(code_point) == IF code_point \in DOMAIN cp437 THEN cp437[code_point] ELSE NULL

LastByte ==
    /\ Continues /\ parser.unicode_remaining = 1 /\ Read
    /\ parser' = Parser
    /\ fb' = IF unicode_to_cp437(CodePoint) # NULL THEN Put(fb, unicode_to_cp437(CodePoint))
             ELSE CASE mk_wcwidth(CodePoint) = 0 -> fb
                    [] mk_wcwidth(CodePoint) = 1 -> Put(fb, "fe")
                    [] mk_wcwidth(CodePoint) = 2 -> Put(Put(fb, "fe"), " ")
    /\ UNCHANGED <<term, pen, saved>>

-----------------------------------------------------------------------------
(* Text and control characters. *)
Silent ==
    /\ InText /\ Byte \in {"NUL", "DEL", "BEL"} /\ Read
    /\ parser' = Parser
    /\ UNCHANGED <<fb, term, pen, saved>>

Escape ==
    /\ InText /\ Byte \in {"ESC", "9b"} /\ Read
    /\ parser' = [Parser EXCEPT !.escape = TRUE, !.csi = (Byte = "9b")]
    /\ UNCHANGED <<fb, term, pen, saved>>

tab_size == 8
Tab ==
    /\ InText /\ Byte = "TAB" /\ Read
    /\ MoveTo(IF X \div tab_size + 1 >= cols THEN cols - 1 ELSE (X \div tab_size + 1) * tab_size, Y)
    /\ parser' = Parser
    /\ UNCHANGED <<term, pen, saved>>

(* One line down, or the region up; oob_output has ONLCR.                  *)
Down_PastRegion(col) == fb' = set_cursor_pos(fb, col, Y + 1)
Down(col) ==
    fb' = IF Y = term.scroll_bottom_margin - 1
          THEN set_cursor_pos(scroll(fb, term.scroll_top_margin, term.scroll_bottom_margin, Space),
                              col, Y)
          ELSE set_cursor_pos(fb, col, Y + 1)

LineFeed ==
    /\ InText /\ Byte \in {"LF", "VT", "FF"} /\ Read
    /\ Down(0)
    /\ parser' = Parser
    /\ UNCHANGED <<term, pen, saved>>

Backspace ==
    /\ InText /\ Byte = "BS" /\ Read
    /\ MoveTo(X - 1, Y)
    /\ parser' = Parser
    /\ UNCHANGED <<term, pen, saved>>

Return ==
    /\ InText /\ Byte = "CR" /\ Read
    /\ MoveTo(0, Y)
    /\ parser' = Parser
    /\ UNCHANGED <<term, pen, saved>>

ShiftCharset ==
    /\ InText /\ Byte \in {"SO", "SI"} /\ Read
    /\ term' = [term EXCEPT !.current_charset = IF Byte = "SO" THEN 2 ELSE 1]
    /\ parser' = Parser
    /\ UNCHANGED <<fb, pen, saved>>

(* dec_special_print: glyphs of code page 437 by their number.             *)
dec_special ==
    [b \in {"grave", "0", "-", ",", ".", "a", "f", "g", "h", "j", "k", "l", "m", "n", "q", "s", "t",
            "u", "v", "w", "x", "y", "z", "~", "_", "+", "{", "}"} |->
        CASE b = "grave" -> "04" [] b = "0" -> "db" [] b = "-" -> "18" [] b = "," -> "1b"
          [] b = "." -> "19" [] b = "a" -> "b1" [] b = "f" -> "f8" [] b = "g" -> "f1"
          [] b = "h" -> "b0" [] b = "j" -> "d9" [] b = "k" -> "bf" [] b = "l" -> "da"
          [] b = "m" -> "c0" [] b = "n" -> "c5" [] b = "q" -> "c4" [] b = "s" -> "_"
          [] b = "t" -> "c3" [] b = "u" -> "b4" [] b = "v" -> "c1" [] b = "w" -> "c2"
          [] b = "x" -> "b3" [] b = "y" -> "f3" [] b = "z" -> "f2" [] b = "~" -> "fa"
          [] b = "_" -> "ff" [] b = "+" -> "1a" [] b = "{" -> "e3" [] b = "}" -> "9c"]

ASSUME SpecialAssumption == \A b \in DOMAIN dec_special : dec_special[b] \in Glyph

Controls == {"NUL", "DEL", "BEL", "ESC", "9b", "TAB", "LF", "VT", "FF", "BS", "CR", "SO", "SI"}

(* The characters from the cursor on, one place to the right.              *)
Shifted(f, n) ==
    PushAll(f, [p \in {q \in Cell : q[2] = Y /\ q[1] >= X + n} |->
                        Content(f, <<p[1] - n, Y>>)])

Character ==
    /\ InText /\ Byte \notin Controls /\ Read
    /\ LET f == IF term.insert_mode THEN Shifted(fb, 1) ELSE fb
       IN fb' = IF term.charsets[term.current_charset] = "special" /\ Byte \in DOMAIN dec_special
                THEN Put(f, dec_special[Byte])
                ELSE IF Byte \in Printable THEN Put(f, Byte) ELSE f
    /\ parser' = Parser
    /\ UNCHANGED <<term, pen, saved>>

(* The byte after ESC ( or ESC ). *)
ChooseCharset ==
    /\ Choosing /\ Read
    /\ term' = [term EXCEPT !.charsets[term.g_select] = CASE Byte = "B" -> "default"
                                                          [] Byte = "0" -> "special"
                                                          [] OTHER -> @,
                            !.g_select = 0]
    /\ parser' = Parser
    /\ UNCHANGED <<fb, pen, saved>>

-----------------------------------------------------------------------------
(* Escape sequences: escape_parse.  escape_offset is only compared with 2. *)
Offset == IF parser.escape_offset < 3 THEN parser.escape_offset + 1 ELSE 3
EndSequence == parser' = Done /\ Read

(* After the byte 9b whatever follows stands for the bracket. *)
BeginSequence ==
    /\ InEscape /\ (parser.csi \/ Byte = "[") /\ Read
    /\ parser' = [Parser EXCEPT !.escape_offset = Offset, !.csi = FALSE,
                                !.control_sequence = TRUE, !.rrr = FALSE, !.esc_values = <<>>]
    /\ UNCHANGED <<fb, term, pen, saved>>

BeginOsc ==
    /\ InEscape /\ ~parser.csi /\ Byte = "]" /\ Read
    /\ parser' = [Parser EXCEPT !.escape_offset = Offset, !.osc = TRUE, !.osc_escape = FALSE]
    /\ UNCHANGED <<fb, term, pen, saved>>

(* osc_parse: to a bell or ESC \ *)
OscByte ==
    /\ InOsc /\ Read
    /\ parser' = IF Byte = "BEL" \/ (parser.osc_escape /\ Byte = "backslash") THEN Done
                 ELSE [Parser EXCEPT !.escape_offset = Offset, !.osc_escape = (Byte = "ESC")]
    /\ UNCHANGED <<fb, term, pen, saved>>

EscapeEnds(S) == InEscape /\ ~parser.csi /\ Byte \in S /\ EndSequence

save_state ==
    /\ EscapeEnds({"7"})
    /\ saved' = [pen |-> pen, current_charset |-> term.current_charset, cursor |-> Cursor(fb)]
    /\ UNCHANGED <<fb, term, pen>>

restore_state_KeepsColours ==
    /\ EscapeEnds({"8"})
    /\ pen' = [saved.pen EXCEPT !.text_fg = pen.text_fg, !.text_bg = pen.text_bg]
    /\ term' = [term EXCEPT !.current_charset = saved.current_charset]
    /\ fb' = [fb EXCEPT !.cursor_x = saved.cursor[1], !.cursor_y = saved.cursor[2]]
    /\ UNCHANGED saved
restore_state ==
    /\ EscapeEnds({"8"})
    /\ pen' = saved.pen
    /\ term' = [term EXCEPT !.current_charset = saved.current_charset]
    /\ fb' = [fb EXCEPT !.cursor_x = saved.cursor[1], !.cursor_y = saved.cursor[2]]
    /\ UNCHANGED saved

(* ESC c: the record of the pen is reset, the colours it stands for are not. *)
Reset ==
    /\ InEscape /\ ~parser.csi /\ Byte = "c" /\ Read
    /\ term' = NewTerm /\ parser' = NoSequence
    /\ pen' = TextFg(TextBg(PlainPen, pen.text_bg, pen.bg_direct), pen.text_fg, pen.fg_direct)
    /\ fb' = clear(fb, TRUE, Space)
    /\ UNCHANGED saved

Index == EscapeEnds({"D"}) /\ Down(X) /\ UNCHANGED <<term, pen, saved>>
NewLine == EscapeEnds({"E"}) /\ Down(0) /\ UNCHANGED <<term, pen, saved>>

ReverseIndex ==
    /\ EscapeEnds({"M"})
    /\ fb' = IF Y = term.scroll_top_margin
             THEN set_cursor_pos(revscroll(fb, term.scroll_top_margin, term.scroll_bottom_margin,
                                           Space), 0, Y)
             ELSE set_cursor_pos(fb, 0, Y - 1)
    /\ UNCHANGED <<term, pen, saved>>

SelectCharset ==
    /\ EscapeEnds({"(", ")"})
    /\ term' = [term EXCEPT !.g_select = IF Byte = "(" THEN 1 ELSE 2]
    /\ UNCHANGED <<fb, pen, saved>>

OtherEscape ==
    /\ InEscape /\ ~parser.csi /\ EndSequence
    /\ Byte \notin {"[", "]", "7", "8", "c", "D", "E", "M", "(", ")"}
    /\ UNCHANGED <<fb, term, pen, saved>>

-----------------------------------------------------------------------------
(* Control sequences: control_sequence_parse. *)
First == Offset = 2

(* CSI [ throws the byte after it away. *)
SkipNext ==
    /\ InSequence /\ First /\ Byte = "[" /\ Read
    /\ parser' = [Done EXCEPT !.discard_next = TRUE]
    /\ UNCHANGED <<fb, term, pen, saved>>

PrivateMark ==
    /\ InSequence /\ First /\ Byte = "?" /\ Read
    /\ parser' = [Parser EXCEPT !.escape_offset = Offset, !.dec_private = TRUE]
    /\ UNCHANGED <<fb, term, pen, saved>>

Full == Len(parser.esc_values) = MAX_ESC_VALUES
Digit ==
    /\ InSequence /\ Byte \in DOMAIN Digits /\ Read
    /\ LET v == parser.esc_values
           d == Digits[Byte]
       IN parser' = [Parser EXCEPT
            !.escape_offset = Offset,
            !.rrr = @ \/ ~Full,
            !.esc_values = IF parser.rrr THEN [v EXCEPT ![Len(v)] = @ * 10 + d]
                           ELSE IF Full THEN v ELSE Append(v, d)]
    /\ UNCHANGED <<fb, term, pen, saved>>

Separator ==
    /\ InSequence /\ Byte = ";" /\ Read
    /\ parser' = [Parser EXCEPT
            !.escape_offset = Offset,
            !.rrr = FALSE,
            !.esc_values = IF parser.rrr \/ Full THEN @ ELSE Append(@, 0)]
    /\ UNCHANGED <<fb, term, pen, saved>>

(* Any other byte is the last one.  What a command takes for a value that  *)
(* was not given is 0 for J, K and q and 1 for the others.                 *)
Final == /\ InSequence /\ Byte \notin DOMAIN Digits \cup {";"}
         /\ ~(First /\ Byte \in {"[", "?"})
Value(i) == IF i <= Len(parser.esc_values) THEN parser.esc_values[i]
            ELSE IF Byte \in {"J", "K", "q"} THEN 0 ELSE 1
Command(S) == Final /\ ~parser.dec_private /\ Byte \in S /\ EndSequence

(* dec_private_parse: only 25, the cursor. *)
DecPrivate ==
    /\ Final /\ parser.dec_private /\ Read
    /\ parser' = NoSequence
    /\ term' = IF Byte \in {"h", "l"} /\ parser.esc_values # <<>> /\ Value(1) = 25
               THEN [term EXCEPT !.cursor_enabled = (Byte = "h")] ELSE term
    /\ UNCHANGED <<fb, pen, saved>>

(* mode_toggle: only 4, insert mode. *)
mode_toggle ==
    /\ Command({"h", "l"})
    /\ term' = IF parser.esc_values # <<>> /\ Value(1) = 4
               THEN [term EXCEPT !.insert_mode = (Byte = "h")] ELSE term
    /\ UNCHANGED <<fb, pen, saved>>

AtMost(n, m) == IF n > m THEN m ELSE n
(* A row or column given from 1: one less, the last when that is too far,  *)
(* as it is when 0 wraps around.                                           *)
FromOne(n, size) == IF n = 0 \/ n > size THEN size - 1 ELSE n - 1

(* A vertical move that meets a margin stays within the region.            *)
top == term.scroll_top_margin
bottom == term.scroll_bottom_margin
CursorUp ==
    /\ Command({"A", "F"})
    /\ LET dest == Y - AtMost(Value(1), Y)
       IN MoveTo(IF Byte = "F" THEN 0 ELSE X,
                 IF (top \in dest..Y \/ bottom \in dest..Y) /\ dest < top THEN top ELSE dest)
    /\ UNCHANGED <<term, pen, saved>>
CursorDown ==
    /\ Command({"B", "e", "E"})
    /\ LET dest == Y + AtMost(Value(1), rows - 1 - Y)
       IN MoveTo(IF Byte = "E" THEN 0 ELSE X,
                 IF (top \in Y..dest \/ bottom \in Y..dest) /\ dest >= bottom THEN bottom - 1
                 ELSE dest)
    /\ UNCHANGED <<term, pen, saved>>

(* C a, D, d, G ` and H f, and u to where s was. *)
CursorTo ==
    /\ Command({"C", "a", "D", "d", "G", "grave", "H", "f", "u"})
    /\ CASE Byte \in {"C", "a"} -> MoveTo(X + AtMost(Value(1), cols - 1 - X), Y)
         [] Byte = "D" -> MoveTo(X - AtMost(Value(1), X), Y)
         [] Byte = "d" -> MoveTo(X, FromOne(Value(1), rows))
         [] Byte \in {"G", "grave"} -> MoveTo(FromOne(Value(1), cols), Y)
         [] Byte \in {"H", "f"} -> MoveTo(Value(2) - (IF Value(2) = 0 THEN 0 ELSE 1),
                                         Value(1) - (IF Value(1) = 0 THEN 0 ELSE 1))
         [] Byte = "u" -> MoveTo(term.saved_cursor[1], term.saved_cursor[2])
    /\ UNCHANGED <<term, pen, saved>>
SaveCursor ==
    /\ Command({"s"})
    /\ term' = [term EXCEPT !.saved_cursor = <<X, Y>>]
    /\ UNCHANGED <<fb, pen, saved>>

(* The same call n times. *)
Times(Call(_), n) ==
    LET after[k \in 0..n] == IF k = 0 THEN fb ELSE Call(after[k - 1])
    IN after[n]

(* n calls of raw_putchar(' ') from the cursor of f on.  Text does not     *)
(* scroll while a command runs: the spaces stop at the end of the region,  *)
(* below it at the end of the line.  Where they leave the cursor does not  *)
(* matter, each command sets it afterwards.                                *)
Spaces(f, n) ==
    LET start == f.cursor_y * cols + f.cursor_x
        line == IF f.cursor_y < bottom - 1 THEN bottom - 1 ELSE f.cursor_y
        Reached == start..AtMost(start + n - 1, line * cols + cols - 1)
    IN PushAll(f, [p \in {q \in Cell : q[2] * cols + q[1] \in Reached} |-> Space])

(* M scrolls the whole region up; L scrolls it down from the cursor on.    *)
DeleteLines ==
    /\ Command({"M"})
    /\ fb' = Times(LAMBDA f : scroll(f, top, bottom, Space), Value(1))
    /\ UNCHANGED <<term, pen, saved>>
InsertLines ==
    /\ Command({"L"})
    /\ fb' = Times(LAMBDA f : revscroll(f, Y, bottom, Space), Value(1))
    /\ UNCHANGED <<term, pen, saved>>

ErasedDisplay(v) ==
    CASE v = 0 -> set_cursor_pos(Spaces(fb, (rows - (Y + 1)) * cols + cols - X), X, Y)
      [] v = 1 -> set_cursor_pos(Spaces(set_cursor_pos(fb, 0, 0), Y * cols + X + 1), X, Y)
      [] v \in {2, 3} -> clear(fb, FALSE, Space)
      [] OTHER -> fb
EraseDisplay ==
    /\ Command({"J"})
    /\ fb' = ErasedDisplay(Value(1))
    /\ UNCHANGED <<term, pen, saved>>

ErasedLine(v) ==
    CASE v = 0 -> set_cursor_pos(Spaces(fb, cols - X), X, Y)
      [] v = 1 -> set_cursor_pos(Spaces(set_cursor_pos(fb, 0, Y), X), X, Y)
      [] v = 2 -> set_cursor_pos(Spaces(set_cursor_pos(fb, 0, Y), cols), X, Y)
      [] OTHER -> fb
EraseLine ==
    /\ Command({"K"})
    /\ fb' = ErasedLine(Value(1))
    /\ UNCHANGED <<term, pen, saved>>

(* @ blanks the rest of the line, then copies it n places to the right.    *)
InsertChars ==
    /\ Command({"@"})
    /\ LET Rest == {p \in Cell : p[2] = Y /\ p[1] >= X}
           blanked == PushAll(fb, [p \in Rest |-> Space])
           n == Value(1)
           Copied == {p \in Rest : n > 0 /\ p[1] >= X + n}
       IN fb' = set_cursor_pos(PushAll(blanked,
                                   [p \in Copied |-> Content(fb, <<p[1] - n, Y>>)]), X, Y)
    /\ UNCHANGED <<term, pen, saved>>

(* P copies it n places to the left and goes on as X from n before its end.*)
EraseChars ==
    /\ Command({"P", "X"})
    /\ LET n == Value(1)
           Moved == {p \in Cell : p[2] = Y /\ p[1] >= X /\ p[1] + n < cols}
           moved == set_cursor_pos(PushAll(fb,
                        [p \in Moved |-> Content(fb, <<p[1] + n, Y>>)]), cols - n, Y)
       IN fb' = set_cursor_pos(Spaces(IF Byte = "P" THEN moved ELSE fb, n), X, Y)
    /\ UNCHANGED <<term, pen, saved>>

(* r: the region, the whole screen when what was asked for is not one.     *)
SetRegion ==
    /\ Command({"r"})
    /\ LET given == Len(parser.esc_values)
           t == IF given = 0 \/ Value(1) = 0 THEN 0 ELSE Value(1) - 1
           b == IF given < 2 THEN rows ELSE IF Value(2) = 0 THEN 1 ELSE Value(2)
           bad == t >= rows \/ b > rows \/ t >= b - 1
       IN term' = [term EXCEPT !.scroll_top_margin = IF bad THEN 0 ELSE t,
                               !.scroll_bottom_margin = IF bad THEN rows ELSE b]
    /\ MoveTo(0, 0)
    /\ UNCHANGED <<pen, saved>>

SelectGraphics ==
    /\ Command({"m"})
    /\ pen' = sgr(pen, parser.esc_values)
    /\ UNCHANGED <<fb, term, saved>>

(* c, n, q and ] only call back; the rest is not known.                    *)
Commands == {"A", "F", "B", "e", "E", "C", "a", "D", "d", "G", "grave", "H", "f", "u", "s", "M", "L",
             "J", "K", "@", "P", "X", "r", "m", "h", "l"}
OtherCommand ==
    /\ Final /\ ~parser.dec_private /\ Byte \notin Commands /\ EndSequence
    /\ UNCHANGED <<fb, term, pen, saved>>

-----------------------------------------------------------------------------
(* System calls 0x0e to 0x12: straight to the backend, and not drawn.      *)
ClearScreen ==
    /\ input = NULL /\ "clear" \in Syscalls /\ writes < MaxWrites
    /\ fb' = clear(fb, TRUE, Space)
    /\ writes' = writes + 1
    /\ UNCHANGED <<term, parser, pen, saved, input>>

SetColour ==
    /\ input = NULL /\ writes < MaxWrites
    /\ \/ "fg" \in Syscalls /\ \E c \in Colours : pen' = TextFg(pen, c, TRUE)
       \/ "bg" \in Syscalls /\ \E c \in Colours : pen' = TextBg(pen, c, TRUE)
       \/ "fg_default" \in Syscalls /\ pen' = TextFg(pen, default_fg, TRUE)
       \/ "bg_default" \in Syscalls /\ pen' = TextBg(pen, Transparent, TRUE)
    /\ writes' = writes + 1
    /\ UNCHANGED <<fb, term, parser, saved, input>>

Next ==
    \/ flanterm_write \/ Flush \/ ClearScreen \/ SetColour
    \/ Discard \/ LeadByte \/ MoreBytes \/ LastByte
    \/ Silent \/ Escape \/ Tab \/ LineFeed \/ Backspace \/ Return \/ ShiftCharset \/ Character
    \/ ChooseCharset
    \/ BeginSequence \/ BeginOsc \/ OscByte \/ save_state \/ restore_state \/ Reset
    \/ Index \/ NewLine \/ ReverseIndex \/ SelectCharset \/ OtherEscape
    \/ SkipNext \/ PrivateMark \/ Digit \/ Separator \/ DecPrivate \/ mode_toggle
    \/ CursorUp \/ CursorDown \/ CursorTo \/ SaveCursor \/ DeleteLines \/ InsertLines
    \/ EraseDisplay \/ EraseLine \/ InsertChars \/ EraseChars \/ SetRegion \/ SelectGraphics
    \/ OtherCommand

Spec == Init /\ [][Next]_vars

-----------------------------------------------------------------------------
(* Types, and: the margins always enclose at least two rows, or all of the *)
(* screen; the cursor is at most one column past the line.  It may leave   *)
(* the screen at the bottom, up to row cols - 1, because raw_putchar       *)
(* compares it with cols.                                                  *)
Pens == [text_fg : Int, text_bg : Int, bold : BOOLEAN, bg_bold : BOOLEAN,
         reverse_video : BOOLEAN, current_primary : -1..7, current_bg : -1..7,
         fg_direct : BOOLEAN, bg_direct : BOOLEAN]
Terms == [scroll_top_margin : Nat, scroll_bottom_margin : 1..rows,
          cursor_enabled : BOOLEAN, insert_mode : BOOLEAN,
          charsets : {"default", "special"} \X {"default", "special"},
          current_charset : {1, 2}, g_select : {0, 1, 2}, saved_cursor : Cell]
Parsers == [escape : BOOLEAN, csi : BOOLEAN, control_sequence : BOOLEAN, osc : BOOLEAN,
            osc_escape : BOOLEAN, rrr : BOOLEAN, discard_next : BOOLEAN, dec_private : BOOLEAN,
            escape_offset : 0..3, esc_values : Seq(Nat),
            unicode_remaining : 0..3, code_point : Nat]
TypeOK ==
    /\ fb.grid \in [Cell -> Char] /\ \A p \in Cell : fb.map[p] \in Char \cup {NULL}
    /\ fb.cursor_x \in 0..cols /\ fb.cursor_y \in 0..(cols - 1)
    /\ term \in Terms /\ (top < bottom - 1 \/ (top = 0 /\ bottom = rows))
    /\ parser \in Parsers /\ Len(parser.esc_values) <= MAX_ESC_VALUES
    /\ parser.control_sequence \/ parser.osc \/ parser.csi => parser.escape
    /\ pen \in Pens
    /\ saved \in [pen : Pens, current_charset : {1, 2}, cursor : (0..cols) \X (0..(cols - 1))]
    /\ input \in Seq(STRING) \cup {NULL}
    /\ writes \in 0..MaxWrites

(* What the screen looks like with these characters and the cursor at c:   *)
(* cell p takes the glyph_width x FontHeight pixels from its corner on.    *)
Corner(p) == <<offset_x + p[1] * glyph_width, offset_y + p[2] * FontHeight>>
Picture(chars, c, shown) ==
    [px \in Pixel |->
        LET Of == {p \in Cell : /\ px[1] - Corner(p)[1] \in 0..(glyph_width - 1)
                                /\ px[2] - Corner(p)[2] \in 0..(FontHeight - 1)}
            p == CHOOSE q \in Of : TRUE
            ch == IF p = c /\ shown THEN Inverted(chars[p]) ELSE chars[p]
        IN IF Of = {} THEN default_bg
           ELSE Dot(ch, <<px[1] - Corner(p)[1], px[2] - Corner(p)[2]>>)]

(* When a write is over the pixels are those of its text: every cell as it *)
(* was last written, the cursor inverted where it stands and nowhere else, *)
(* whatever was queued, scrolled, moved or shown inverted before.  (The    *)
(* flush draws only what changed, and of that only the dots that differ.)  *)
WriteShows ==
    [][input # NULL /\ input' = NULL =>
         fb'.framebuffer = Picture([p \in Cell |-> Content(fb, p)], Cursor(fb),
                                   term.cursor_enabled)]_vars

(* The colours on screen are the ones asked for: with reverse video on or  *)
(* off, through save and restore, the side that shows the foreground has   *)
(* the colour recorded as current_primary, plain or bright, and the other  *)
(* the one recorded as current_bg, unless it was chosen past both.         *)
Inked(p) ==
    LET text == <<p.text_fg, p.fg_direct>>
        behind == <<p.text_bg, p.bg_direct>>
        Shows(side, n) == n # NoColour /\ ~side[2] => side[1] \in {Bright(n, FALSE), Bright(n, TRUE)}
    IN /\ Shows(IF p.reverse_video THEN behind ELSE text, p.current_primary)
       /\ Shows(IF p.reverse_video THEN text ELSE behind, p.current_bg)
InkIsRecorded == Inked(pen)

(* Text written within the scroll region stays there, through line feeds,  *)
(* wrapping and code points that take two cells, and leaves the rest of    *)
(* the screen as it is: a status line outside the region survives it all.  *)
RegionOnly ==
    [][(InText \/ Continues) /\ Y \in top..(bottom - 1) =>
         /\ CursorY(fb') \in top..(bottom - 1)
         /\ \A p \in Cell : p[2] \notin top..(bottom - 1) =>
               Content(fb', p) = Content(fb, p)]_vars

(* The text the system prints, one character to a write and closed by a    *)
(* NUL (kernel/main.c:116-119), appears as a plain console shows it,       *)
(* through queue, scrolling and wrapping and with the screen cleared and   *)
(* coloured in between.                                                    *)
Written == [l \in 0..(rows - 1) |-> [c \in 0..(cols - 1) |-> Content(fb, <<c, l>>).c]]
Place == [column |-> fb.cursor_x, line |-> fb.cursor_y]
Screen == INSTANCE TextScreen WITH
    Columns <- cols, Lines <- rows, Symbol <- Glyph, Unwritten <- " ",
    text <- Written, at <- Place
PlainText == Screen!Spec
=============================================================================
