------------------------------ MODULE Programs ------------------------------
(***************************************************************************)
(* The programs that print - cat, ls and hexdump - with the system calls   *)
(* they use, on a ramdisk that was built and booted, printing through      *)
(* printf.  A program waits for each of its calls; what memory holds after *)
(* a buffer is any of Tails.                                               *)
(*                                                                         *)
(* Literal text is one symbol where it has no directive: its wording is    *)
(* left out.  A name in a text is one symbol too.                          *)
(***************************************************************************)
EXTENDS Format, Ramdisk

CONSTANTS RowLength,   \* 8: bytes in a row of hexdump
          Code,        \* the value of each byte
          Tails        \* what may stand between a buffer and the next NUL

(* Bytes have their values; the texts of a file fit what printf may return *)
(* and its offsets an int, whose digits fit the buffer printf makes them in.*)
ASSUME PrintedAssumption ==
    /\ RowLength \in Nat \ {0}
    /\ NULL \notin Names
    /\ \A byte_ \in DOMAIN Code : Code[byte_] \in 0..(2^CharBits - 1)
    /\ \A content \in Contents : /\ content \in Seq(DOMAIN Code)
                                  /\ Len(content) < 2^IntBits
    /\ \A tail \in Tails : tail \in Seq(DOMAIN Code)
    /\ \A content \in Contents, tail \in Tails :
            Len(content) + Len(tail) < PRINTF_MAX_POSSIBLE_BUFFER_SIZE
    /\ 8 <= PRINTF_INTEGER_BUFFER_SIZE /\ IntBits <= 4 * PRINTF_INTEGER_BUFFER_SIZE
    /\ PRINTF_INTEGER_BUFFER_SIZE + 10 <= PRINTF_MAX_POSSIBLE_BUFFER_SIZE

VARIABLES program,     \* NULL, or what runs and where it is
          printed      \* what it printed so far

programVars == <<program, printed>>
ProgramInit == program = NULL /\ printed = <<>>

Ready == phase \in {"idle", "returned"}
At_(name, pc) == Ready /\ program # NULL /\ program.name = name /\ program.pc = pc
Goto(pc) == program' = [program EXCEPT !.pc = pc]

(* syscall_handler, cases 0x00 and 0x01. *)
Printing(f, a) ==
    /\ Begin([to |-> "putchar", size |-> 0, items |-> NULL, format |-> f, args |-> a])
    /\ UNCHANGED <<ramdiskVars, printed>>
puts(s) == Printing(<<"%", "s">>, <<s>>)
putf(f, val) == Printing(f, <<val>>)
Silently == UNCHANGED <<formatVars, ramdiskVars, printed>>

(* What printf puts out is what the program printed. *)
Output ==
    /\ Formatting
    /\ printed' = IF phase' = "returned" /\ call.to = "putchar"
                  THEN printed \o [i \in 1..gadget'.pos |-> gadget'.out[i - 1]] ELSE printed
    /\ UNCHANGED <<ramdiskVars, program>>

Run(name, path) ==
    /\ path \in Names \/ (name = "hexdump" /\ path = NULL)
    /\ Ready /\ program = NULL /\ stage = "booted"
    /\ program' = [name |-> name, path |-> path, pc |-> "start", buf |-> <<>>, i |-> 0, j |-> 0,
                   tmp_cnt |-> 0]
    /\ printed' = <<>>
    /\ UNCHANGED <<formatVars, ramdiskVars>>

(* Without an argument, path is NULL; of these programs only hexdump looks.*)
hexdump_Usage ==
    /\ At_("hexdump", "start") /\ program.path = NULL
    /\ putf(<<"Not enough arguments! Usage: ", "%", "s", " <filename>", "LF">>, <<program.name>>)
    /\ Goto("end")

NotFound == <<"Couldn't find file '", "%", "s", "'", "LF">>
NoSuchFile(name) ==
    /\ At_(name, "start") /\ program.path # NULL /\ file_read(program.path) = Missing
    /\ putf(NotFound, <<program.path>>)
    /\ Goto("end")

(* A buffer of ftell(path) bytes, filled by file_read. *)
Load(name, pc) ==
    /\ At_(name, "start") /\ program.path # NULL /\ file_read(program.path) # Missing
    /\ program' = [program EXCEPT !.buf = file_read(program.path), !.pc = pc]
    /\ Silently

(* As a string, the buffer goes on to the first NUL there is.              *)
UpToNul(s) == SubSeq(s, 1, CHOOSE n \in 0..Len(s) : /\ \A i \in 1..n : s[i] # "NUL"
                                                    /\ n < Len(s) => s[n + 1] = "NUL")

cat_Load == Load("cat", "show")
cat_Missing == NoSuchFile("cat")
cat_Show ==
    /\ At_("cat", "show")
    /\ \E tail \in Tails : putf(<<"%", "s", "LF">>, UpToNul(program.buf \o tail))
    /\ Goto("end")

ls_Dir == At_("ls", "start") /\ Goto("list") /\ Silently
ls_Entry ==
    /\ At_("ls", "list") /\ program.i < quasfs_get_entry_count
    /\ putf(<<"%", "s", " ">>, <<quasfs_dir[program.i + 1]>>)
    /\ program' = [program EXCEPT !.i = @ + 1]
ls_Line ==
    /\ At_("ls", "list") /\ program.i = quasfs_get_entry_count
    /\ puts(<<"LF">>)
    /\ Goto("end")

-----------------------------------------------------------------------------
(* hexdump: the loop over the bytes, which ends a full row before the next *)
(* byte, and the last row after the loop.                                  *)
hexdump_Load == Load("hexdump", "first")
hexdump_Missing == NoSuchFile("hexdump")
hexdump_First ==
    /\ At_("hexdump", "first")
    /\ puts(Copies(8, "0") \o <<":", " ">>)
    /\ Goto("loop")

RowFull == program.i > 0 /\ program.i % RowLength = 0

(* The value printf gets, and the character. *)
byte(k) == Code[program.buf[k + 1]] % 2^CharBits
Shown(b) == IF b = "NUL" THEN "." ELSE b

EndRow ==
    /\ At_("hexdump", "loop") /\ program.i < Len(program.buf) /\ RowFull
    /\ puts(<<"|", " ">>)
    /\ program' = [program EXCEPT !.tmp_cnt = 0, !.j = RowLength, !.pc = "rowText"]

(* buf[i - j], for j down to 1. *)
TextByte(pc) ==
    /\ At_("hexdump", pc) /\ program.j > 0
    /\ putf(<<"%", "c">>, Shown(program.buf[program.i - program.j + 1]))
    /\ program' = [program EXCEPT !.j = @ - 1]
RowText == TextByte("rowText")

StartRow_ItsEnd ==
    /\ At_("hexdump", "rowText") /\ program.j = 0
    /\ putf(<<"LF", "%", "0", "8", "x", ":", " ">>, program.i + RowLength)
    /\ Goto("byte")
StartRow ==
    /\ At_("hexdump", "rowText") /\ program.j = 0
    /\ putf(<<"LF", "%", "0", "8", "x", ":", " ">>, program.i)
    /\ Goto("byte")

HexByte ==
    /\ \/ At_("hexdump", "loop") /\ program.i < Len(program.buf) /\ ~RowFull
       \/ At_("hexdump", "byte")
    /\ putf(<<"0", "x", "%", "x", " ">>, byte(program.i))
    /\ program' = [program EXCEPT !.tmp_cnt = @ + 1, !.i = @ + 1, !.pc = "loop"]

LastRow ==
    /\ At_("hexdump", "loop") /\ program.i = Len(program.buf) /\ program.tmp_cnt # 0
    /\ program' = [program EXCEPT !.j = 0, !.pc = "pad"]
    /\ Silently

Pad ==
    /\ At_("hexdump", "pad") /\ program.j < RowLength - program.tmp_cnt
    /\ puts(Copies(5, " "))
    /\ program' = [program EXCEPT !.j = @ + 1]

LastText ==
    \/ /\ At_("hexdump", "pad") /\ program.j = RowLength - program.tmp_cnt
       /\ puts(<<"|", " ">>)
       /\ program' = [program EXCEPT !.j = program.tmp_cnt, !.pc = "lastText"]
    \/ TextByte("lastText")

LastLine ==
    /\ \/ At_("hexdump", "loop") /\ program.i = Len(program.buf) /\ program.tmp_cnt = 0
       \/ At_("hexdump", "lastText") /\ program.j = 0
    /\ puts(<<"LF">>)
    /\ Goto("end")

Exit == /\ Ready /\ program # NULL /\ program.pc = "end"
        /\ program' = NULL
        /\ UNCHANGED <<formatVars, ramdiskVars, printed>>

cat == cat_Load \/ cat_Missing \/ cat_Show
ls == ls_Dir \/ ls_Entry \/ ls_Line
hexdump ==
    \/ hexdump_Usage \/ hexdump_Load \/ hexdump_Missing \/ hexdump_First \/ EndRow \/ RowText \/ StartRow
    \/ HexByte \/ LastRow \/ Pad \/ LastText \/ LastLine

Programs == cat \/ ls \/ hexdump \/ Exit

ProgramsInit == FormatInit /\ RamdiskInit /\ ProgramInit
ProgramsNext ==
    \/ Building /\ UNCHANGED <<formatVars, programVars>>
    \/ \E name \in {"cat", "ls", "hexdump"}, path \in Names \cup {NULL} : Run(name, path)
    \/ Programs \/ Output
ProgramsSpec == ProgramsInit /\ [][ProgramsNext]_<<formatVars, ramdiskVars, programVars>>

-----------------------------------------------------------------------------
(* Properties. *)

(* A dump of content: rows of RowLength bytes, each with its offset, its   *)
(* bytes in hexadecimal, blanks for those a last row lacks, and its text.  *)
Hex(n) == Std!Digits(n, 16, Numeral)
Rows(content) == (Len(content) + RowLength - 1) \div RowLength
Row(content, r) == SubSeq(content, r * RowLength + 1, AtMost(Len(content), (r + 1) * RowLength))
HexBytes(row) == FlattenSeq([k \in DOMAIN row |->
                    <<"0", "x">> \o Std!AtLeast(1, Hex(Code[row[k]])) \o <<" ">>])
Dump(content) ==
    IF content = <<>> THEN Copies(8, "0") \o <<":", " ", "LF">>
    ELSE FlattenSeq([n \in 1..Rows(content) |->
            LET row == Row(content, n - 1)
            IN Std!AtLeast(8, Hex((n - 1) * RowLength)) \o <<":", " ">> \o HexBytes(row)
               \o Copies(5 * (RowLength - Len(row)), " ") \o <<"|", " ">>
               \o [k \in DOMAIN row |-> Shown(row[k])] \o <<"LF">>])

(* What a program prints is the host's file: hexdump shows every byte at   *)
(* its place, cat shows the text up to the first NUL and, a file having no *)
(* NUL at its end, whatever follows it in memory; ls names the files in    *)
(* the builder's order (cat.c, hexdump.c, ls.c).                           *)
ListText == FlattenSeq([i \in DOMAIN argv |-> <<argv[i], " ">>]) \o <<"LF">>
UsageText == <<"Not enough arguments! Usage: ", "hexdump", " <filename>", "LF">>
MissingText(path) == <<"Couldn't find file '", path, "'", "LF">>
CatText(content, tail) == UpToNul(content \o tail) \o <<"LF">>

ProgramShows ==
    Ready /\ program # NULL /\ program.pc = "end" =>
        LET path == program.path
        IN /\ program.name = "ls" => printed = ListText
           /\ program.name # "ls" /\ path = NULL => printed = UsageText
           /\ program.name # "ls" /\ path \in Names \ ToSet(argv) => printed = MissingText(path)
           /\ program.name = "hexdump" /\ path \in ToSet(argv) /\ Unedited(path) =>
                printed = Dump(file[path])
           /\ program.name = "cat" /\ path \in ToSet(argv) /\ Unedited(path) =>
                \E tail \in Tails : printed = CatText(file[path], tail)
=============================================================================
