--------------------------- MODULE BoardGeometry ---------------------------
(***************************************************************************)
(* The board of the rules of Connect 4: straight segments of WinLength     *)
(* cells, full boards, cells on which a piece can rest.  A position is a   *)
(* function from cells to 0 (empty), 1 or 2.                               *)
(***************************************************************************)
EXTENDS Integers

CONSTANTS Rows, Cols, WinLength

Cells == (0 .. (Rows - 1)) \X (0 .. (Cols - 1))

Segment(start, d) ==
    {<<start[1] + k * d[1], start[2] + k * d[2]>> : k \in 0 .. (WinLength - 1)}

Segments ==
    {s \in {Segment(start, d) :
                start \in Cells, d \in {<<0, 1>>, <<1, 0>>, <<1, 1>>, <<1, -1>>}} :
        s \subseteq Cells}

HasLine(pos, p) == \E s \in Segments : \A cell \in s : pos[cell] = p

Full(pos) == \A cell \in Cells : pos[cell] # 0

Supported(pos, cell) ==
    cell[1] = Rows - 1 \/ pos[<<cell[1] + 1, cell[2]>>] # 0

(* Whose line a position shows, 3 for a full board without one, else 0.    *)
Result(pos) == IF HasLine(pos, 1) THEN 1 ELSE IF HasLine(pos, 2) THEN 2
               ELSE IF Full(pos) THEN 3 ELSE 0
=============================================================================
