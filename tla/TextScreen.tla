----------------------------- MODULE TextScreen -----------------------------
(***************************************************************************)
(* What a console promises, with no queue, no colours and no sequences:    *)
(* lines of characters and a place to write.  A line that is full goes on  *)
(* in the next one when there is more to write, not before; the last line  *)
(* makes room by moving the others up.  A cursor past a full line counts   *)
(* as being on its last character.                                         *)
(***************************************************************************)
EXTENDS Integers

CONSTANTS Columns, Lines, Symbol, Unwritten

VARIABLES text,   \* text[line][column]
          at      \* where the next character goes: a record of column and line

Empty == [c \in 0..(Columns - 1) |-> Unwritten]
Column == IF at.column = Columns THEN Columns - 1 ELSE at.column

Init == /\ text = [l \in 0..(Lines - 1) |-> Empty]
        /\ at = [column |-> 0, line |-> 0]

Write(s) ==
    /\ at.column < Columns
    /\ text' = [text EXCEPT ![at.line][at.column] = s]
    /\ at' = [at EXCEPT !.column = @ + 1]

(* The line under l, or the lines one up and a new last one. *)
HasNext == at.line < Lines - 1
Raised == [l \in 0..(Lines - 1) |-> IF l < Lines - 1 THEN text[l + 1] ELSE Empty]

WriteBelow(s) ==
    /\ at.column = Columns
    /\ \/ /\ HasNext
          /\ text' = [text EXCEPT ![at.line + 1][0] = s]
          /\ at' = [column |-> 1, line |-> at.line + 1]
       \/ /\ ~HasNext
          /\ text' = [Raised EXCEPT ![at.line][0] = s]
          /\ at' = [column |-> 1, line |-> at.line]

Feed ==
    \/ HasNext /\ at' = [column |-> 0, line |-> at.line + 1] /\ UNCHANGED text
    \/ ~HasNext /\ at' = [column |-> 0, line |-> at.line] /\ text' = Raised

(* Backspace, to the start of the line, and to the next tab stop. *)
Goto(c) == at' = [at EXCEPT !.column = c] /\ UNCHANGED text
Tab == LET stop == (Column \div 8 + 1) * 8
       IN IF stop < Columns THEN stop ELSE Columns - 1
Move == Goto(IF Column = 0 THEN 0 ELSE Column - 1) \/ Goto(0) \/ Goto(Tab)

Clear == /\ text' = [l \in 0..(Lines - 1) |-> Empty]
         /\ at' = [column |-> 0, line |-> 0]

Next == (\E s \in Symbol : Write(s) \/ WriteBelow(s)) \/ Feed \/ Move \/ Clear

Spec == Init /\ [][Next]_<<text, at>>
=============================================================================
