----------------------------- MODULE MCPrograms -----------------------------
(***************************************************************************)
(* Instances of Programs: ramdisks of up to three entries that change once *)
(* while they are built, every program on every name; and, on the ramdisk  *)
(* without files, calls of printf and its sisters: the flags, widths,      *)
(* precisions, lengths and conversions with values at the ends of types.   *)
(***************************************************************************)
EXTENDS Programs

mc_Names == {"one", "two"}
mc_Contents == {<<"a">>, <<"a", "NUL", "b">>, <<"b", "a", "NUL", "a">>, <<>>}
mc_Argvs == {<<>>, <<"one">>, <<"two", "one">>, <<"one", "two", "one">>}
mc_Code == ("NUL" :> 0) @@ ("a" :> 10) @@ ("b" :> 27) @@ ("?" :> 1)
mc_Tails == {<<"NUL">>, <<"b", "NUL">>}

Directive(f, w, p, l, c) == [flags |-> f, width |-> w, precision |-> p, length |-> l, conv |-> c]
Plain(c) == Directive(<<>>, <<>>, <<>>, <<>>, c)
Words(s) == [conv |-> "text", text |-> s]
Call(to, size, items, values) ==
    [to |-> to, size |-> size, items |-> items, format |-> Std!Spell(items), args |-> values]

FlagSets == { <<>>, <<"0">>, <<"-">>, <<"#">>, <<"+">>, <<" ">>, <<"0", "#">>, <<"-", "#">>, <<"0", "+">>,
              <<"0", "-">>, <<" ", "0">>, <<"+", " ">>, <<"#", "-", "0", "+">> }
Conversions == {"d", "u", "x", "X", "o", "b"}

(* Flags, widths and precisions in combination. *)
Numbers ==
    { Call("putchar", 0, <<Directive(f, w, p, <<>>, c)>>, <<v>>) :
        f \in FlagSets, w \in {<<>>, <<"3">>, <<"5">>}, p \in {<<>>, <<".">>, <<".", "4">>},
        c \in Conversions, v \in {0, 1, 37, 255} }
(* Every length and conversion. *)
Lengths_ == {<<>>, <<"h", "h">>, <<"h">>, <<"l">>, <<"l", "l">>, <<"z">>, <<"t">>, <<"j">>}
Widths_ ==
    { Call("putchar", 0, <<Directive(f, <<>>, <<>>, l, c)>>, <<v>>) :
        f \in {<<>>, <<"#">>}, l \in Lengths_, c \in Conversions \cup {"i"},
        v \in {0, 15, 16, 31, 32, 63, 64, 127, 128, 255, 256, 32767, 32768, 65535} }
(* Widths and precisions that are arguments; 252 and 255 as an int are the *)
(* negative -4 and -1.                                                     *)
Stars_ ==
    { Call("putchar", 0, <<Directive(f, <<"*">>, p, <<>>, c)>>, <<w, v>>) :
        f \in {<<>>, <<"0">>, <<"+">>}, p \in {<<>>, <<".", "2">>}, c \in {"d", "x"},
        w \in {0, 1, 4, 252, 255}, v \in {0, 11, 250} }
      \cup
    { Call("putchar", 0, <<Directive(f, w, <<".", "*">>, <<>>, c)>>,
           (IF w = <<"*">> THEN <<252>> ELSE <<>>) \o <<p, v>>) :
        f \in {<<>>, <<"0">>, <<"#">>}, w \in {<<>>, <<"3">>, <<"*">>}, c \in {"d", "o", "b"},
        p \in {0, 1, 3, 252, 255}, v \in {0, 11, 250} }
      \cup
    { Call("putchar", 0, <<Directive(<<>>, w, <<".", "*">>, <<>>, "s")>>, <<p, s>>) :
        w \in {<<>>, <<"3">>}, p \in {0, 1, 252, 255}, s \in {<<>>, <<"a", "b">>} }
Strings ==
    { Call("putchar", 0, <<Directive(f, w, p, <<>>, "s")>>, <<s>>) :
        f \in {<<>>, <<"-">>}, w \in {<<>>, <<"1">>, <<"4">>},
        p \in {<<>>, <<".">>, <<".", "1">>, <<".", "3">>}, s \in {<<>>, <<"a">>, <<"a", "%", "0">>} }
      \cup
    { Call("putchar", 0, <<Directive(f, w, <<>>, <<>>, "c")>>, <<"%">>) :
        f \in {<<>>, <<"-">>}, w \in {<<>>, <<"1">>, <<"3">>} }
      \cup
    { Call("putchar", 0, <<Plain("p")>>, <<v>>) : v \in {0, 1, 65535} }
(* Several directives, and what %n stores. *)
Several ==
    { Call("putchar", 0, <<Words(<<"a", "1">>), x, Plain("%"), Directive(<<>>, <<>>, <<>>, l, "n"), y>>,
           <<9, "at", 10>>) :
        x \in {Plain("d"), Directive(<<"0">>, <<"4">>, <<>>, <<>>, "u")}, y \in {Plain("x")},
        l \in {<<>>, <<"h", "h">>, <<"l">>} }
(* snprintf into nothing, too little, enough and more. *)
Buffers ==
    { Call(to, size, items, <<37, <<"a">>>>) :
        to \in {"buffer", "null"}, size \in 0..7,
        items \in {<<Plain("d"), Plain("s")>>,
                   <<Words(<<"b">>), Directive(<<"0">>, <<"3">>, <<>>, <<>>, "x"), Plain("s")>>} }
(* What the standard leaves undefined: an unknown directive, no string,    *)
(* and a directive the format breaks off.                                  *)
Others ==
    { [to |-> to, size |-> 6, items |-> NULL, format |-> f, args |-> <<NULL>>] :
        to \in {"putchar", "buffer"},
        f \in {<<"%", "y">>, <<"%", "s">>, <<"%", "8", "s">>, <<"%">>, <<"%", "5">>, <<"%", ".">>, <<"%", "l">>} }

Calls == Numbers \cup Widths_ \cup Stars_ \cup Strings \cup Several \cup Buffers \cup Others

Direct == /\ argv = <<>> /\ stage = "booted" /\ program = NULL /\ phase = "idle"
          /\ file = [name \in Names |-> Missing] /\ edits = <<>>
          /\ \E c \in Calls : Begin(c)
          /\ UNCHANGED <<ramdiskVars, programVars>>

Spec == ProgramsInit /\ [][ProgramsNext \/ Direct]_<<formatVars, ramdiskVars, programVars>>
=============================================================================
