------------------------------- MODULE Format -------------------------------
(***************************************************************************)
(* printf, serial_printf, sprintf and snprintf: src/libc/printf.c with the *)
(* options its makefile leaves it (integers, no floating point).           *)
(*                                                                         *)
(* A string is the sequence of its characters without the NUL; taking the  *)
(* head of an empty format is reading that NUL.  A call runs one step per  *)
(* part of a directive.  Arguments are words of LongBits bits, strings, or *)
(* NULL; the widths of the C types and the buffer are scaled down together.*)
(***************************************************************************)
EXTENDS Integers, SequencesExt

CONSTANTS PRINTF_INTEGER_BUFFER_SIZE,        \* 32
          PRINTF_MAX_POSSIBLE_BUFFER_SIZE,   \* INT_MAX
          CharBits, ShortBits, IntBits, LongBits,   \* 8, 16, 32, 64
          NULL

ASSUME FormatAssumption ==
    /\ PRINTF_INTEGER_BUFFER_SIZE \in Nat \ {0}
    /\ PRINTF_MAX_POSSIBLE_BUFFER_SIZE \in Nat \ {0}
    /\ {CharBits, ShortBits, IntBits, LongBits} \subseteq Nat
    /\ 1 < CharBits /\ CharBits <= ShortBits /\ ShortBits <= IntBits /\ IntBits <= LongBits
    /\ LongBits % 4 = 0
    /\ \A bits \in {CharBits, ShortBits, IntBits, LongBits} : {2^bits, 2^(bits - 1)} \subseteq Nat \ {0}

VARIABLES call,    \* what was called: format, arguments, where to, how much
          phase,   \* the part of a directive to be read next, or where the call is
          format, args,   \* what is left of both
          spec,    \* flags, width and precision of the directive so far
          gadget,  \* output_gadget_t; out is what it holds or passed on, by position
          stored   \* what %n stored

formatVars == <<call, phase, format, args, spec, gadget, stored>>

NoSpec == [flags |-> {}, width |-> 0, precision |-> 0]
Idle == [to |-> "none", pos |-> 0, max_chars |-> 0, out |-> <<>>]
FormatInit == /\ call = NULL /\ phase = "idle"
              /\ format = <<>> /\ args = <<>>
              /\ spec = NoSpec /\ gadget = Idle /\ stored = <<>>

AtMost(n, m) == IF n < m THEN n ELSE m
Copies(n, c) == [i \in 1..(IF n < 0 THEN 0 ELSE n) |-> c]
Drop(s, n) == SubSeq(s, n + 1, Len(s))
(* How many of the first characters of s are in S. *)
Leading(s, S) ==
    CHOOSE n \in 0..Len(s) : /\ \A i \in 1..n : s[i] \in S
                             /\ n < Len(s) => s[n + 1] \notin S

Numeral == <<"0", "1", "2", "3", "4", "5", "6", "7", "8", "9", "a", "b", "c", "d", "e", "f">>
Capital == <<"0", "1", "2", "3", "4", "5", "6", "7", "8", "9", "A", "B", "C", "D", "E", "F">>
Decimal == {Numeral[i] : i \in 1..10}
DigitValue(c) == (CHOOSE i \in 1..10 : Numeral[i] = c) - 1
atou_(s) ==
    LET count == Leading(s, Decimal)
        value[n \in 0..count] == IF n = 0 THEN 0 ELSE value[n - 1] * 10 + DigitValue(s[n])
    IN  value[count]

(* A word as an integer of so many bits. *)
Unsigned(bits, word) == word % 2^bits
Signed(bits, word) == IF Unsigned(bits, word) < 2^(bits - 1) THEN Unsigned(bits, word)
                      ELSE Unsigned(bits, word) - 2^bits
Abs(n) == IF n > 0 THEN n ELSE -n

-----------------------------------------------------------------------------
(* The gadget.  Every character counts, those before max_chars are kept.   *)
putchar_via_gadget_OneMore(g, s) ==
    LET Written == {p \in g.pos..(g.pos + Len(s) - 1) : p <= g.max_chars}
    IN [g EXCEPT !.pos = @ + Len(s),
                 !.out = [p \in DOMAIN @ \cup Written |->
                             IF p \in Written THEN s[p - g.pos + 1] ELSE @[p]]]
putchar_via_gadget(g, s) ==
    LET Written == {p \in g.pos..(g.pos + Len(s) - 1) : p < g.max_chars}
    IN [g EXCEPT !.pos = @ + Len(s),
                 !.out = [p \in DOMAIN @ \cup Written |->
                             IF p \in Written THEN s[p - g.pos + 1] ELSE @[p]]]

append_termination_PastTheEnd(g) ==
    IF g.to = "putchar" \/ g.max_chars = 0 THEN g
    ELSE LET at == AtMost(g.pos, g.max_chars)
         IN [g EXCEPT !.out = [p \in DOMAIN @ \cup {at} |-> IF p = at THEN "NUL" ELSE @[p]]]
append_termination(g) ==
    IF g.to = "putchar" \/ g.max_chars = 0 THEN g
    ELSE LET at == AtMost(g.pos, g.max_chars - 1)
         IN [g EXCEPT !.out = [p \in DOMAIN @ \cup {at} |-> IF p = at THEN "NUL" ELSE @[p]]]

(* printf and serial_printf pass characters on; snprintf(s, n) and, with   *)
(* the largest n, sprintf write into s, which may be NULL.                 *)
GadgetOf(c) ==
    [to |-> c.to, pos |-> 0, out |-> <<>>,
     max_chars |-> CASE c.to = "putchar" -> PRINTF_MAX_POSSIBLE_BUFFER_SIZE
                     [] c.to = "buffer" -> AtMost(c.size, PRINTF_MAX_POSSIBLE_BUFFER_SIZE)
                     [] c.to = "null" -> 0]

-----------------------------------------------------------------------------
(* Numbers are made backwards in a buffer, which cuts off what is too much.*)
Digits(value, base, numerals) ==
    LET rest[n \in 0..LongBits] == IF n = 0 THEN value ELSE rest[n - 1] \div base
        count == Cardinality({n \in 1..LongBits : n = 1 \/ rest[n - 1] # 0})
    IN [n \in 1..count |-> numerals[(rest[n - 1] % base) + 1]]
Room(buf, more) == SubSeq(buf \o more, 1, AtMost(Len(buf \o more), PRINTF_INTEGER_BUFFER_SIZE))
ZeroPad(buf, width) == Room(buf, Copies(width - Len(buf), "0"))

out_rev_(buf, width, flags) ==
    LET fill == Copies(width - Len(buf), " ")
    IN CASE "-" \in flags -> Reverse(buf) \o fill
         [] {"-", "0"} \cap flags = {} -> fill \o Reverse(buf)
         [] {"-", "0"} \cap flags = {"0"} -> Reverse(buf)

Prefix(base, flags) == CASE base = 16 -> <<IF "X" \in flags THEN "X" ELSE "x">>
                         [] base = 2 -> <<"b">>
                         [] OTHER -> <<>>
SignOf(negative, flags) == CASE negative -> <<"-">>
                             [] ~negative /\ "+" \in flags -> <<"+">>
                             [] ~negative /\ "+" \notin flags /\ " " \in flags -> <<" ">>
                             [] OTHER -> <<>>

print_integer_finalization_SignOutside(buf, negative, base, precision, width, flags) ==
    LET digits == ZeroPad(IF "-" \in flags \/ "0" \notin flags THEN buf ELSE ZeroPad(buf, width),
                          precision)
    IN out_rev_(Room(digits, SignOf(negative, flags)), width, flags)
print_integer_finalization(buf, negative, base, precision, width, flags) ==
    LET w == IF /\ "-" \notin flags /\ "0" \in flags /\ width # 0
                /\ negative \/ flags \cap {"+", " "} # {}
             THEN width - 1 ELSE width
        digits == ZeroPad(IF "-" \in flags \/ "0" \notin flags THEN buf ELSE ZeroPad(buf, w),
                          precision)
        padding == Len(digits) - Len(buf)
        hash == \/ "pointer" \in flags
                \/ "#" \in flags /\ ~(base = 8 /\ padding > 0)
        returned == IF "precision" \notin flags /\ Len(digits) \in {precision, w}
                    THEN AtMost(IF base = 8 THEN 1 ELSE 2, padding) ELSE 0
        prefixed == Room(Room(SubSeq(digits, 1, Len(digits) - returned), Prefix(base, flags)),
                         <<"0">>)
    IN out_rev_(Room(IF hash THEN prefixed ELSE digits, SignOf(negative, flags)), w, flags)

print_integer(value, negative, base, precision, width, flags) ==
    IF value = 0
    THEN print_integer_finalization(
            IF "precision" \in flags THEN <<>> ELSE <<"0">>, negative, base, precision, width,
            IF "precision" \notin flags \/ base = 16 THEN flags \ {"#"} ELSE flags)
    ELSE print_integer_finalization(
            Room(<<>>, Digits(value, base, IF "X" \in flags THEN Capital ELSE Numeral)),
            negative, base, precision, width, flags)

-----------------------------------------------------------------------------
(* The call, up to the loop over the format. *)
Begin(c) ==
    /\ call' = c
    /\ phase' = "text"
    /\ format' = c.format /\ args' = c.args
    /\ spec' = NoSpec /\ gadget' = GadgetOf(c) /\ stored' = <<>>

(* ADVANCE_IN_FORMAT_STRING: at the end of the format the loop returns.    *)
Advance(to) == /\ format' = Tail(format)
               /\ phase' = IF Tail(format) = <<>> THEN "end" ELSE to
At(p, S) == phase = p /\ format # <<>> /\ Head(format) \in S

Text ==
    /\ phase = "text" /\ format # <<>> /\ Head(format) # "%"
    /\ gadget' = putchar_via_gadget(gadget, <<Head(format)>>)
    /\ format' = Tail(format)
    /\ UNCHANGED <<call, phase, args, spec, stored>>

Percent ==
    /\ At("text", {"%"})
    /\ Advance("flags")
    /\ spec' = NoSpec
    /\ UNCHANGED <<call, args, gadget, stored>>

FlagChars == {"0", "-", "+", " ", "#"}
parse_flags ==
    /\ phase = "flags"
    /\ LET n == Leading(format, FlagChars)
       IN /\ spec' = [spec EXCEPT !.flags = {format[i] : i \in 1..n}]
          /\ format' = Drop(format, n)
    /\ phase' = "width"
    /\ UNCHANGED <<call, args, gadget, stored>>

Star == Signed(IntBits, Head(args))

Width ==
    /\ phase = "width"
    /\ \/ /\ At("width", {"*"})
          /\ spec' = [spec EXCEPT !.width = Abs(Star),
                                  !.flags = IF Star < 0 THEN @ \cup {"-"} ELSE @]
          /\ args' = Tail(args)
          /\ Advance("precision")
       \/ /\ ~At("width", {"*"})
          /\ spec' = [spec EXCEPT !.width = atou_(format)]
          /\ format' = Drop(format, Leading(format, Decimal))
          /\ phase' = "precision"
          /\ UNCHANGED args
    /\ UNCHANGED <<call, gadget, stored>>

Point ==
    /\ phase = "precision"
    /\ \/ /\ At("precision", {"."})
          /\ spec' = [spec EXCEPT !.flags = @ \cup {"precision"}]
          /\ Advance("digits")
       \/ /\ ~At("precision", {"."})
          /\ phase' = "length"
          /\ UNCHANGED <<format, spec>>
    /\ UNCHANGED <<call, args, gadget, stored>>

Precision ==
    /\ phase = "digits"
    /\ \/ /\ At("digits", {"*"})
          /\ spec' = [spec EXCEPT !.precision = IF Star > 0 THEN Star ELSE 0]
          /\ args' = Tail(args)
          /\ Advance("length")
       \/ /\ ~At("digits", {"*"})
          /\ spec' = [spec EXCEPT !.precision = atou_(format)]
          /\ format' = Drop(format, Leading(format, Decimal))
          /\ phase' = "length"
          /\ UNCHANGED args
    /\ UNCHANGED <<call, gadget, stored>>

(* hh and ll are two steps. *)
Lengths == {"l", "h", "t", "j", "z"}
Length ==
    /\ phase \in {"length", "length l", "length h"}
    /\ \/ /\ At("length", Lengths)
          /\ spec' = [spec EXCEPT !.flags = @ \cup {IF Head(format) = "h" THEN "short" ELSE "long"}]
          /\ Advance(CASE Head(format) = "l" -> "length l" [] Head(format) = "h" -> "length h"
                       [] OTHER -> "specifier")
       \/ /\ At("length l", {"l"}) \/ At("length h", {"h"})
          /\ spec' = [spec EXCEPT !.flags = @ \cup {IF Head(format) = "h" THEN "char" ELSE "long long"}]
          /\ Advance("specifier")
       \/ /\ ~At("length", Lengths) /\ ~At("length l", {"l"}) /\ ~At("length h", {"h"})
          /\ phase' = "specifier"
          /\ UNCHANGED <<format, spec>>
    /\ UNCHANGED <<call, args, gadget, stored>>

-----------------------------------------------------------------------------
(* The specifiers. *)
Specifier(S) == At("specifier", S) /\ format' = Tail(format) /\ phase' = "text"
Emit(s) == gadget' = putchar_via_gadget(gadget, s)
Argument == Head(args)

Bits(flags) == CASE flags \cap {"long", "long long"} # {} -> LongBits
                 [] "char" \in flags -> CharBits
                 [] {"char", "short"} \cap flags = {"short"} -> ShortBits
                 [] OTHER -> IntBits
Base(conv) == CASE conv \in {"x", "X"} -> 16 [] conv = "o" -> 8 [] conv = "b" -> 2 [] OTHER -> 10

Integer ==
    /\ Specifier({"d", "i", "u", "x", "X", "o", "b"})
    /\ LET conv == Head(format)
           base == Base(conv)
           signed == conv \in {"d", "i"}
           flags == (spec.flags \cup (IF conv = "X" THEN {"X"} ELSE {}))
                       \ ((IF base = 10 THEN {"#"} ELSE {})
                            \cup (IF "precision" \in spec.flags THEN {"0"} ELSE {})
                            \cup (IF signed THEN {} ELSE {"+", " "}))
           value == IF signed THEN Signed(Bits(flags), Argument) ELSE Unsigned(Bits(flags), Argument)
       IN Emit(print_integer(Abs(value), value < 0, base, spec.precision, spec.width, flags))
    /\ args' = Tail(args)
    /\ UNCHANGED <<call, spec, stored>>

Padded(s) == LET fill == Copies(spec.width - Len(s), " ")
             IN IF "-" \in spec.flags THEN s \o fill ELSE fill \o s

Char ==
    /\ Specifier({"c"})
    /\ Emit(Padded(<<Argument>>))
    /\ args' = Tail(args)
    /\ UNCHANGED <<call, spec, stored>>

Limit == IF "precision" \in spec.flags THEN spec.precision ELSE PRINTF_MAX_POSSIBLE_BUFFER_SIZE
String ==
    /\ Specifier({"s"})
    /\ Emit(IF Argument = NULL
            THEN out_rev_(<<")", "l", "l", "u", "n", "(">>, spec.width, spec.flags)
            ELSE Padded(SubSeq(Argument, 1, AtMost(Len(Argument), Limit))))
    /\ args' = Tail(args)
    /\ UNCHANGED <<call, spec, stored>>

Pointer ==
    /\ Specifier({"p"})
    /\ LET flags == spec.flags \cup {"0", "pointer"}
           width == LongBits \div 4 + 2
       IN Emit(IF Argument = 0 THEN out_rev_(<<")", "l", "i", "n", "(">>, width, flags)
               ELSE print_integer(Argument, FALSE, 16, spec.precision, width, flags))
    /\ args' = Tail(args)
    /\ UNCHANGED <<call, spec, stored>>

WriteBack ==
    /\ Specifier({"n"})
    /\ stored' = Append(stored, Signed(Bits(spec.flags), gadget.pos))
    /\ args' = Tail(args)
    /\ UNCHANGED <<call, spec, gadget>>

Known == {"d", "i", "u", "x", "X", "o", "b", "c", "s", "p", "n"}
Literal ==
    /\ phase = "specifier" /\ format # <<>> /\ Head(format) \notin Known
    /\ Emit(<<Head(format)>>)
    /\ format' = Tail(format) /\ phase' = "text"
    /\ UNCHANGED <<call, args, spec, stored>>

(* Flags, digits or a length at the very end of the format are not checked *)
(* for the NUL: it is taken for a specifier and the loop runs past it.     *)
PastTheEnd ==
    /\ phase = "specifier" /\ format = <<>>
    /\ Emit(<<"NUL">>)
    /\ phase' = "past"
    /\ UNCHANGED <<call, format, args, spec, stored>>

(* vsnprintf_impl: the loop is over, the call returns pos.                 *)
vsnprintf_impl ==
    /\ phase = "end" \/ (phase = "text" /\ format = <<>>)
    /\ gadget' = append_termination(gadget)
    /\ phase' = "returned"
    /\ UNCHANGED <<call, format, args, spec, stored>>

Formatting ==
    \/ Text \/ Percent \/ parse_flags \/ Width \/ Point \/ Precision \/ Length
    \/ Integer \/ Char \/ String \/ Pointer \/ WriteBack \/ Literal \/ PastTheEnd
    \/ vsnprintf_impl

-----------------------------------------------------------------------------
(* Properties. *)
Std == INSTANCE StandardPrintf
           WITH Numerals <- Numeral, Capitals <- Capital, NegativePrecision <- -1
(* The standard with printf.c's reading of a negative precision (1086).    *)
Own == INSTANCE StandardPrintf
           WITH Numerals <- Numeral, Capitals <- Capital, NegativePrecision <- 0

Returned == phase = "returned" /\ call.items # NULL

(* Every number of the call fits the buffer it is made in, "including      *)
(* padded zeros" (the comment at printf.c:66).                             *)
FitsBuffer == \A n \in Own!Sizes(call.items, call.args) : n <= PRINTF_INTEGER_BUFFER_SIZE

(* How many characters of the text there is room for.                      *)
Kept == CASE call.to = "putchar" -> gadget.pos
          [] call.to = "buffer" /\ call.size > 0 ->
                AtMost(gadget.pos, AtMost(call.size, PRINTF_MAX_POSSIBLE_BUFFER_SIZE) - 1)
          [] OTHER -> 0

Prints(reference) == /\ gadget.pos = Len(reference.text)
                     /\ args = reference.args
                     /\ stored = reference.stored
                     /\ \A p \in 0..(Kept - 1) : gadget.out[p] = reference.text[p + 1]

(* A call prints what the C standard says (printf.h:112), but that it      *)
(* takes a negative argument for the precision for 0: for flags, width,    *)
(* precision, length, conversion and value in combination the text is the  *)
(* same, it counts the characters, takes every argument that its           *)
(* directives name and stores with %n what was written so far.             *)
AsSpecified == Returned /\ FitsBuffer => Prints(Own!Printf(call.items, call.args))

(* Without that exception it is false: printf("%.*d", -1, 0) prints        *)
(* nothing where the standard has 0 (printf.c:1081-1088).                  *)
AsStandard == Returned /\ FitsBuffer => Prints(Std!Printf(call.items, call.args))

(* snprintf never writes at or past n, and ends what it wrote with the     *)
(* only NUL (printf.c:341-352, 373-381).                                   *)
Terminated ==
    phase = "returned" /\ call.to # "putchar" =>
        IF call.to = "null" \/ call.size = 0 THEN gadget.out = <<>>
        ELSE /\ DOMAIN gadget.out = 0..Kept
             /\ \A p \in 0..Kept : (gadget.out[p] = "NUL") <=> (p = Kept)
=============================================================================
