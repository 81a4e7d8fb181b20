--------------------------- MODULE StandardPrintf ---------------------------
(***************************************************************************)
(* What the C standard says printf writes, for the conversions the kernel  *)
(* has.  A format is given as its items: pieces of text, and directives    *)
(* with their flags, width, precision and length apart.                    *)
(*                                                                         *)
(* Two things the standard leaves open are as printf.c has them: a pointer *)
(* is "(nil)" or all its hexadecimal digits, and %#b keeps its 0b when a   *)
(* zero is written with a precision.                                       *)
(*                                                                         *)
(* And one it does not leave open: a negative argument for the precision   *)
(* counts as none, and printf.c takes it for 0.  What it is taken for is   *)
(* the constant NegativePrecision, so that this is either's specification. *)
(***************************************************************************)
EXTENDS Integers, Sequences, SequencesExt

CONSTANTS CharBits, ShortBits, IntBits, LongBits, Numerals, Capitals,
          NegativePrecision   \* Omitted in the standard

(* The precision of a directive that has none. *)
Omitted == -1

Longer(n, m) == IF n > m THEN n ELSE m
Zeros(n) == [i \in 1..Longer(n, 0) |-> "0"]
Spaces(n) == [i \in 1..Longer(n, 0) |-> " "]

(* The digits of n, none for zero, and at least so many of them. *)
Digits(n, base, symbols) ==
    LET k == CHOOSE k \in 0..LongBits : base^k > n /\ (k > 0 => base^(k - 1) <= n)
    IN [i \in 1..k |-> symbols[((n \div base^(k - i)) % base) + 1]]
AtLeast(count, digits) == Zeros(count - Len(digits)) \o digits

(* The argument, as the type its length and conversion name. *)
Bits(length) == CASE length = <<>> -> IntBits [] length = <<"h">> -> ShortBits
                  [] length = <<"h", "h">> -> CharBits [] OTHER -> LongBits
Value(word, bits, signed) ==
    LET n == word % 2^bits IN IF signed /\ n >= 2^(bits - 1) THEN n - 2^bits ELSE n

(* Sign and prefix, then digits; [head, body]. *)
Number(d, flags, precision, word) ==
    LET signed == d.conv \in {"d", "i"}
        value == Value(word, Bits(d.length), signed)
        n == IF value < 0 THEN -value ELSE value
        base == CASE d.conv = "o" -> 8 [] d.conv \in {"x", "X"} -> 16 [] d.conv = "b" -> 2
                  [] OTHER -> 10
        digits == AtLeast(IF precision = Omitted THEN 1 ELSE precision,
                          Digits(n, base, IF d.conv = "X" THEN Capitals ELSE Numerals))
        sign == CASE value < 0 -> <<"-">>
                  [] value >= 0 /\ signed /\ "+" \in flags -> <<"+">>
                  [] value >= 0 /\ signed /\ "+" \notin flags /\ " " \in flags -> <<" ">>
                  [] OTHER -> <<>>
        prefix == CASE "#" \in flags /\ n # 0 /\ d.conv \in {"x", "X"} -> <<"0", d.conv>>
                    [] "#" \in flags /\ d.conv = "b" /\ (n # 0 \/ precision # Omitted) -> <<"0", "b">>
                    [] "#" \in flags /\ d.conv = "o" /\ (digits = <<>> \/ Head(digits) # "0") -> <<"0">>
                    [] OTHER -> <<>>
    IN [head |-> sign \o prefix, body |-> digits]

Pointer(word) ==
    IF word = 0 THEN <<"(", "n", "i", "l", ")">>
    ELSE <<"0", "x">> \o AtLeast(LongBits \div 4, Digits(word, 16, Numerals))

(* A field is filled up to its width: left of it, right of it, or, when    *)
(* zeros may stand in it, after the sign and the prefix.                   *)
Field(flags, width, zeros, n) ==
    LET text == n.head \o n.body
        missing == width - Len(text)
    IN CASE "-" \in flags -> text \o Spaces(missing)
         [] "-" \notin flags /\ zeros /\ "0" \in flags -> n.head \o Zeros(missing) \o n.body
         [] OTHER -> Spaces(missing) \o text

Known(d) == d.conv \in {"d", "i", "u", "x", "X", "o", "b"}
Number10(digits) == FoldLeft(LAMBDA n, c : n * 10 + (CHOOSE i \in 1..10 : Numerals[i] = c) - 1, 0, digits)

(* A field given as * takes an argument: how many of these d takes. *)
Stars(d) == (IF d.width = <<"*">> THEN 1 ELSE 0) + (IF d.precision = <<".", "*">> THEN 1 ELSE 0)
StarAt(args, i) == Value(args[i], IntBits, TRUE)
Flags(d, args) == {d.flags[i] : i \in DOMAIN d.flags}
                     \cup (IF d.width = <<"*">> /\ StarAt(args, 1) < 0 THEN {"-"} ELSE {})
Width(d, args) == IF d.width = <<"*">>
                  THEN Longer(StarAt(args, 1), -StarAt(args, 1)) ELSE Number10(d.width)
Precision(d, args) == CASE d.precision = <<>> -> Omitted
                        [] d.precision = <<".", "*">> ->
                             IF StarAt(args, Stars(d)) < 0 THEN NegativePrecision ELSE StarAt(args, Stars(d))
                        [] OTHER -> Number10(Tail(d.precision))

Text(s) == [head |-> <<>>, body |-> s]
Shown(d, args) ==
    LET flags == Flags(d, args)
        precision == Precision(d, args)
        argument == args[Stars(d) + 1]
    IN CASE Known(d) -> Field(flags, Width(d, args), precision = Omitted, Number(d, flags, precision, argument))
         [] d.conv = "c" -> Field(flags, Width(d, args), FALSE, Text(<<argument>>))
         [] d.conv = "s" -> Field(flags, Width(d, args), FALSE,
                                  Text(IF precision = Omitted \/ precision > Len(argument) THEN argument
                                       ELSE SubSeq(argument, 1, precision)))
         [] d.conv = "p" -> Pointer(argument)

(* One item after what came before it: the text, the arguments left, and   *)
(* what %n stored.                                                         *)
Add(r, item) ==
    CASE item.conv = "text" -> [r EXCEPT !.text = @ \o item.text]
      [] item.conv = "%" -> [r EXCEPT !.text = Append(@, "%")]
      [] item.conv = "n" -> [r EXCEPT !.stored = Append(@, Value(Len(r.text), Bits(item.length), TRUE)),
                                      !.args = Tail(@)]
      [] OTHER -> [r EXCEPT !.text = @ \o Shown(item, r.args),
                            !.args = SubSeq(@, Stars(item) + 2, Len(@))]
Printf(items, args) == FoldLeft(Add, [text |-> <<>>, args |-> args, stored |-> <<>>], items)

(* The characters of an item in the format. *)
Spelled(item) == CASE item.conv = "text" -> item.text
                   [] OTHER -> <<"%">> \o item.flags \o item.width \o item.precision
                                  \o item.length \o <<item.conv>>
Spell(items) == FoldLeft(LAMBDA s, item : s \o Spelled(item), <<>>, items)

(* The longest number an item of these arguments makes, its blanks apart.  *)
Size(d, args) ==
    IF ~Known(d) THEN 0
    ELSE LET flags == Flags(d, args)
             n == Number(d, flags, Precision(d, args), args[Stars(d) + 1])
             plain == Len(n.head) + Len(n.body)
         IN IF "0" \in flags /\ "-" \notin flags /\ Precision(d, args) = Omitted
            THEN Longer(plain, Width(d, args)) ELSE plain
Sizes(items, args) ==
    {Size(items[i], Printf(SubSeq(items, 1, i - 1), args).args) : i \in DOMAIN items}
=============================================================================
