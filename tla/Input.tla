------------------------------- MODULE Input -------------------------------
(***************************************************************************)
(* From the keyboard to the shell's command line: kb_handler and           *)
(* kb_get_char of src/drivers/kb.c, and the loop of main and the argument  *)
(* splitting of CmdHandler in exec/src/shell.c, with what the echo shows   *)
(* on the terminal.                                                        *)
(*                                                                         *)
(* The keyboard interrupt may come between any two steps of the shell;     *)
(* kb_get_char is a system call and is not interrupted.  There is one      *)
(* pending character and no queue: a key that is not fetched in time is    *)
(* replaced by the next one.                                               *)
(***************************************************************************)
EXTENDS Integers, SequencesExt

CONSTANTS MaxKeys,    \* bound: key presses
          StrSize,    \* 512, the size of str
          TempSize,   \* 50, the size of temp, which holds one argument
          ArgSlots,   \* 6, the pointers that fit the 50 bytes of args
          Columns,    \* of the terminal
          TabSize,    \* 8
          Left        \* the columns where a command's output may end

ASSUME InputAssumption ==
    /\ {MaxKeys, StrSize, TempSize, ArgSlots, Columns, TabSize} \subseteq Nat \ {0}
    /\ Left \subseteq 0..Columns

(* Keys: a letter, which stands for every key with a printed character,    *)
(* those whose character the shell or the terminal treats specially, and   *)
(* Ctrl, which stands for the keys kb_map_keys maps to 0.                  *)
CharKey == {"a", "space", "enter", "backspace", "tab", "escape", "ctrl"}
NUL == "nul"
Junk == "junk"     \* whatever the stack held before main ran
Char == {"a", "A", "space", "enter", "backspace", "tab", "escape", NUL}
Visible == {"a", "A", "space"}

VARIABLES
    kb_key_pressed, kb_current_char, kb_caps, kb_shift,
    pressed,    \* how many character keys were pressed
    current,    \* which of them kb_current_char is
    fetched,    \* the press the shell fetched last
    fetches,    \* how many characters it fetched
    pc, ch, str, i,   \* main: where it is and its variables
    args,       \* the arguments CmdHandler made of the last line
    screen,     \* what the terminal shows since the last prompt, and its cursor
    home,       \* where on the screen the line begins
    typed,      \* history: the line as it was typed, backspaces taken into account
    tidy        \* history: whether the echo of this line kept to what screens do well

kbVars == << kb_key_pressed, kb_current_char, kb_caps, kb_shift, pressed, current >>
screenVars == << screen, home, tidy >>
shellVars == << fetched, fetches, pc, ch, str, i, args, screenVars, typed >>
vars == << kbVars, shellVars >>

(* The screen.  Positions count on from the row of the prompt, row after   *)
(* row; edge is the end of the cursor's row.  A character that fills its   *)
(* row leaves the cursor there, and the next one goes on in the next row.  *)
(* Scrolling moves the rows with the cursor and leaves positions as they   *)
(* are, so only the part of a line that leaves the screen is not seen.     *)
Fresh(column) == [cell |-> [p \in {} |-> "space"], place |-> column, edge |-> Columns]
Show(s, c) ==
    [cell  |-> [p \in DOMAIN s.cell \cup {s.place} |-> IF p = s.place THEN c ELSE s.cell[p]],
     place |-> s.place + 1,
     edge  |-> IF s.place = s.edge THEN s.edge + Columns ELSE s.edge]
(* get_cursor_pos, set_cursor_pos, and flanterm_putchar's \b, \t and \n.   *)
Column(s) == IF s.place = s.edge THEN Columns - 1 ELSE s.place - (s.edge - Columns)
Goto(s, column) ==
    [s EXCEPT !.place = s.edge - Columns + (IF column >= Columns THEN Columns - 1 ELSE column)]
Back(s) == Goto(s, IF Column(s) = 0 THEN 0 ELSE Column(s) - 1)
Tab(s) == Goto(s, IF Column(s) \div TabSize + 1 >= Columns THEN Columns - 1
                  ELSE (Column(s) \div TabSize + 1) * TabSize)
Feed(s) == [s EXCEPT !.place = s.edge, !.edge = s.edge + Columns]

(* puts("> "), where the output before it ended.                           *)
Prompted(column) == Show(Show(Fresh(column), ">"), "space")

Init == /\ kb_key_pressed = FALSE
        /\ kb_current_char = NUL
        /\ kb_caps = FALSE
        /\ kb_shift = FALSE
        /\ pressed = 0 /\ current = 0
        /\ fetched = 0 /\ fetches = 0
        /\ pc = "get"
        /\ ch = NUL
        /\ str = [n \in 0..(StrSize - 1) |-> Junk]
        /\ i = 0
        /\ args = << >>
        /\ screen = Prompted(0)
        /\ home = Prompted(0).place
        /\ typed = << >>
        /\ tidy = TRUE

-----------------------------------------------------------------------------
(* Definitions named X_... are mistaken variants of the definition X that  *)
(* follows them; no action uses them.                                      *)

(* The three maps of kb_map.h.  Shift takes precedence over caps lock.     *)
kb_map(key) ==
    CASE key = "ctrl" -> NUL
      [] key = "a" /\ (kb_shift \/ kb_caps) -> "A"
      [] OTHER -> key

(* kb_handler: any key but left shift and caps lock becomes the pending    *)
(* character, whether or not the last one was fetched.                     *)
PressKey(key) ==
    /\ pressed < MaxKeys
    /\ pressed' = pressed + 1
    /\ current' = pressed + 1
    /\ kb_key_pressed' = TRUE
    /\ kb_current_char' = kb_map(key)
    /\ UNCHANGED << kb_caps, kb_shift, shellVars >>

ShiftKey(down) ==
    /\ kb_shift' = down
    /\ UNCHANGED << kb_key_pressed, kb_current_char, kb_caps, pressed, current,
                    shellVars >>

CapsKey ==
    /\ kb_caps' = ~kb_caps
    /\ UNCHANGED << kb_key_pressed, kb_current_char, kb_shift, pressed, current,
                    shellVars >>

kb_handler == \/ \E key \in CharKey : PressKey(key)
              \/ \E down \in BOOLEAN : ShiftKey(down)
              \/ CapsKey

-----------------------------------------------------------------------------
(* kb_get_char *)
kb_get_char_Kept == ch' = kb_current_char /\ UNCHANGED kb_key_pressed
kb_get_char == ch' = kb_current_char /\ kb_key_pressed' = FALSE

Keep == UNCHANGED << kb_current_char, kb_caps, kb_shift, pressed, current >>

(* main asks for a character, and asks again when there is none (a step    *)
(* that changes nothing here) or when the key has no character.            *)
Typed == CASE ch' = "backspace" -> SubSeq(typed, 1, Len(typed) - 1)
           [] ch' \in {NUL, "enter"} -> typed
           [] OTHER -> Append(typed, ch')
Get == /\ pc = "get"
       /\ kb_key_pressed
       /\ kb_get_char
       /\ fetched' = current
       /\ fetches' = fetches + 1
       /\ pc' = IF kb_current_char = NUL THEN "get" ELSE "echo"
       /\ typed' = Typed
       /\ Keep
       /\ UNCHANGED << str, i, args, screenVars >>

(* The echo, on the terminal.  An escape shows nothing: it opens a         *)
(* sequence, which the NUL ends that putchar_ sends after every byte.      *)
Echo == CASE ch = "enter" -> Feed(screen)
          [] ch = "backspace" /\ i > 0 -> Back(Show(Back(screen), "space"))
          [] ch = "tab" -> Tab(screen)
          [] ch \in Visible -> Show(screen, ch)
          [] OTHER -> screen
(* Backspaces that erase another cell than the last character's: it is in  *)
(* the last column, of this row or of the one above.                       *)
Misses == ch = "backspace" /\ i > 0 /\ screen.place \in {screen.edge - Columns, screen.edge}
Type == /\ pc = "echo"
        /\ screen' = Echo
        /\ tidy' = (tidy /\ ch \notin {"tab", "escape"} /\ ~Misses)
        /\ pc' = "store"
        /\ UNCHANGED << kbVars, fetched, fetches, ch, str, i, args, home, typed >>

StoreChar == /\ ch \notin {"enter", "backspace"}
             /\ i < StrSize
             /\ str' = [str EXCEPT ![i] = ch]
             /\ i' = i + 1
             /\ pc' = "get"

StoreBackspace_Kept == /\ ch = "backspace"
                       /\ str' = IF i > 0 THEN [str EXCEPT ![i - 1] = NUL] ELSE str
                       /\ UNCHANGED i
                       /\ pc' = "get"
StoreBackspace == /\ ch = "backspace"
                  /\ IF i > 0 THEN i' = i - 1 /\ str' = [str EXCEPT ![i - 1] = NUL]
                     ELSE UNCHANGED << i, str >>
                  /\ pc' = "get"

StoreNewline == /\ ch = "enter"
                /\ i < StrSize
                /\ str' = [str EXCEPT ![i] = NUL]
                /\ pc' = "command"
                /\ UNCHANGED i

(* A character past the end of str: what it overwrites, and what the shell *)
(* does after it, is not modelled.                                         *)
StoreBeyond == /\ ch # "backspace" /\ i = StrSize
               /\ pc' = "beyond"
               /\ UNCHANGED << str, i >>

Store == /\ pc = "store"
         /\ StoreChar \/ StoreBackspace \/ StoreNewline \/ StoreBeyond
         /\ UNCHANGED << kbVars, fetched, fetches, ch, args, screenVars, typed >>

-----------------------------------------------------------------------------
(* The C string at str. *)
Nuls == {n \in 0..(StrSize - 1) : str[n] = NUL}
Line == LET n == CHOOSE n \in Nuls : \A m \in Nuls : n <= m
        IN  [k \in 1..n |-> str[k - 1]]

(* CmdHandler's loop over cmd from ci on: a space ends the argument in     *)
(* temp, so does the end of the line.                                      *)
SplitArgs_DropsLast(line) ==
    LET loop[ci \in 1..(Len(line) + 1)] ==
            [start \in 1..(Len(line) + 1) |->
                IF ci > Len(line) THEN << >>
                ELSE IF line[ci] = "space"
                THEN << SubSeq(line, start, ci - 1) >> \o loop[ci + 1][ci + 1]
                ELSE loop[ci + 1][start]]
    IN  loop[1][1]
SplitArgs(line) ==
    LET loop[ci \in 1..(Len(line) + 1)] ==
            [start \in 1..(Len(line) + 1) |->
                IF ci > Len(line) THEN << SubSeq(line, start, ci - 1) >>
                ELSE IF line[ci] = "space"
                THEN << SubSeq(line, start, ci - 1) >> \o loop[ci + 1][ci + 1]
                ELSE loop[ci + 1][start]]
    IN  loop[1][1]

(* Whether each argument fits temp and their pointers fit args.            *)
Fits(list) == Len(list) <= ArgSlots /\ \A n \in 1..Len(list) : Len(list[n]) < TempSize

(* CmdHandler runs the command; what it does with the program is module    *)
(* Kernel.  (A line "help" makes no arguments: these are the other lines.) *)
(* A longer argument overwrites what lies past temp, and the model stops.  *)
CmdHandler == /\ pc = "command"
              /\ args' = SplitArgs(Line)
              /\ pc' = IF Fits(SplitArgs(Line)) THEN "clear" ELSE "beyond"
              /\ UNCHANGED << kbVars, fetched, fetches, ch, str, i, screenVars, typed >>

(* Then main clears the line it used and prompts again, in the column      *)
(* where the command's output ended.                                       *)
Prompt == /\ pc = "clear"
          /\ str' = [n \in 0..(StrSize - 1) |-> IF n < i THEN NUL ELSE str[n]]
          /\ i' = 0
          /\ \E column \in Left :
                screen' = Prompted(column) /\ home' = Prompted(column).place
          /\ typed' = << >>
          /\ tidy' = TRUE
          /\ pc' = "get"
          /\ UNCHANGED << kbVars, fetched, fetches, ch, args >>

Shell == Get \/ Type \/ Store \/ CmdHandler \/ Prompt

Next == kb_handler \/ Shell

Spec == Init /\ [][Next]_vars

-----------------------------------------------------------------------------
(* Type correctness of the driver's globals and the shell's variables. *)
TypeOK ==
    /\ kb_key_pressed \in BOOLEAN /\ kb_caps \in BOOLEAN /\ kb_shift \in BOOLEAN
    /\ kb_current_char \in Char /\ ch \in Char
    /\ pressed \in 0..MaxKeys /\ current \in 0..MaxKeys
    /\ fetched \in 0..MaxKeys /\ fetches \in 0..MaxKeys
    /\ pc \in {"get", "echo", "store", "command", "clear", "beyond"}
    /\ str \in [0..(StrSize - 1) -> Char \cup {Junk}]
    /\ i \in 0..StrSize
    /\ args \in Seq(Seq(Char))
    /\ DOMAIN screen.cell \subseteq Nat /\ {screen.place, screen.edge, home} \subseteq Nat
    /\ screen.place \in (screen.edge - Columns)..screen.edge
    /\ typed \in Seq(Char)
    /\ tidy \in BOOLEAN

(* Keys may be lost but are never delivered twice or out of order, however *)
(* interrupts and kb_get_char interleave (kb.c:49-58).                     *)
Delivery == fetches' # fetches => fetched' > fetched
KeysInOrder == [][Delivery]_vars

(* The line the user sees is the line the shell has (shell.c:14-36), as it *)
(* wraps and through every backspace and command, wherever the prompt      *)
(* began: on the screen are the characters of str, the cursor after them   *)
(* and nothing that was taken back.  Not so once a tab or an escape was    *)
(* typed, which str holds as a character, or a backspace met the end of a  *)
(* row, where "\b \b" erases another cell (flanterm.c:1305).               *)
LineIsEcho ==
    pc = "get" /\ tidy =>
        /\ screen.place = home + i
        /\ \A n \in 0..(i - 1) : home + n \in DOMAIN screen.cell /\ screen.cell[home + n] = str[n]
        /\ \A p \in DOMAIN screen.cell : p >= home + i => screen.cell[p] = "space"

(* The arguments, joined by single spaces, spell the line as it was typed, *)
(* of any keys and corrections, when it fits the shell's buffers: the line *)
(* in str is that one and CmdHandler reads nothing beyond it, although str *)
(* is uninitialised and reused (shell.c:9, 18), and its splitting neither  *)
(* drops nor merges an argument (shell.c:73-92).                           *)
Joined(list) ==
    LET upTo[n \in 1..Len(list)] ==
            IF n = 1 THEN list[1] ELSE upTo[n - 1] \o << "space" >> \o list[n]
    IN  upTo[Len(list)]
ArgsSpellLine == pc = "clear" => args # << >> /\ Joined(args) = typed
=============================================================================
