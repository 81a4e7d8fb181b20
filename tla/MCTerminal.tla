----------------------------- MODULE MCTerminal -----------------------------
(***************************************************************************)
(* Instances of Terminal: a screen of 3 columns and 3 rows, or 2 and 2, of *)
(* glyphs one or two dots wide and one high, with a column of spacing; the *)
(* text is what a program could hand to flanterm_write, sequences whole or *)
(* cut in two.                                                             *)
(***************************************************************************)
EXTENDS Terminal

mc_Printable == {" ", "a", "q", "[", "]", ";", "?", "(", "@", "0", "1", "2", "3", "4", "5", "7", "8",
                 "c", "h", "l", "m", "n", "r", "s", "u", "A", "B", "D", "E", "H", "J", "K", "L",
                 "M", "P", "X", "Z"}
mc_FontBits == [g \in mc_Printable \cup {dec_special[b] : b \in DOMAIN dec_special} \cup {"fe", "01"} |->
                   CASE g \in {" ", "q", "fe"} -> {}
                     [] g = "c4" -> (0..(FontWidth - 1)) \X {0}
                     [] OTHER -> {<<0, 0>>}]
mc_LineGlyphs == {"c4"}

mc_Lead == [b \in {"c3", "e2", "ef"} |-> IF b = "c3" THEN 1 ELSE 2]
mc_Payload == [b \in {"c3", "e2", "ef", "98", "ba", "a9", "bc", "a1", "9b"} |->
                  CASE b = "c3" -> 3 [] b = "e2" -> 2 [] b = "ef" -> 15 [] b = "98" -> 24
                    [] b = "ba" -> 58 [] b = "a9" -> 41 [] b = "bc" -> 60 [] b = "a1" -> 33
                    [] b = "9b" -> 27]
mc_cp437 == [n \in {9786} |-> "01"]    \* U+263A

Csi(s) == <<"ESC", "[">> \o s

(* Text, line ends and the cursor. *)
Plain_ == { <<"a", "a">>, <<"a", "LF">>, <<"a", "BS", "q">>, <<"TAB", "a">>, <<"a", "CR">> }
(* Sequences that move, erase, insert and scroll. *)
Screen_ == { Csi(<<"2", ";", "3", "H">>), Csi(<<"2", ";", "3", "r">>), Csi(<<";", "2", "r">>), Csi(<<"L">>),
             Csi(<<"M">>), Csi(<<"J">>), Csi(<<"1", "J">>), Csi(<<"2", "J">>), Csi(<<"K">>),
             Csi(<<"1", "K">>), Csi(<<"2", "K">>), Csi(<<"@">>), Csi(<<"P">>), Csi(<<"2", "X">>),
             Csi(<<"A">>), Csi(<<"B">>), Csi(<<"s">>), Csi(<<"u">>),
             <<"ESC", "D">>, <<"ESC", "E">>, <<"ESC", "M">> }
Modes_ == { Csi(<<"?", "2", "5", "l">>), Csi(<<"4", "h">>), <<"ESC", "7">>, <<"ESC", "8">>,
            <<"ESC", "c">>, <<"ESC", "(">>, <<"0", "q">>, <<"SO">>, Csi(<<"n">>) }
Colours_ == { Csi(<<"3", "1", "m">>), Csi(<<"4", "2", ";", "7", "m">>), Csi(<<"1", "m">>),
              Csi(<<"m">>), Csi(<<"3", "8", ";", "5", ";", "2", "0", "m">>),
              Csi(<<"3", "8", ";", "2", ";", "1", ";", "2", ";", "3", "m">>) }
Bytes_ == { <<"ESC">>, <<"9b">>, <<"[", "a">>, <<"e2">>, <<"98", "ba">>, <<"c3", "a9">>,
            <<"ef", "bc", "a1">>, <<"CAN">>, <<"ESC", "]", "a", "BEL">>, <<"DEL">>,
            <<"ESC", "Z">>, Csi(<<"[", "a">>) }
mc_Writes == Plain_ \cup Screen_ \cup Modes_ \cup Colours_ \cup Bytes_

(* What putchar_ writes. *)
mc_Printed == { <<b, "NUL">> : b \in {"a", "q", "LF", "BS", "TAB", "CR", "ESC", "[", "SO", "e2", "98"} }
=============================================================================
