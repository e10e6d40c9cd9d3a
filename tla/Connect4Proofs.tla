--------------------------- MODULE Connect4Proofs ---------------------------
(***************************************************************************)
(* Facts about the operators of Connect4 that hold on a board of any size. *)
(***************************************************************************)
EXTENDS Connect4, FiniteSetTheorems, WellFoundedInduction, TLAPS

USE BoardAssumption

(* A non-empty set of naturals has a least element.                        *)
LEMMA LeastNatural ==
    ASSUME NEW T \in SUBSET Nat, T # {}
    PROVE  \E x \in T : \A y \in T : x <= y
<1> DEFINE Less == OpToRel(<, Nat)
<1>1. IsWellFoundedOn(Less, Nat)
  BY NatLessThanWellFounded
<1> HIDE DEF Less
<1>2. PICK x \in T : \A y \in T : ~(<<y, x>> \in Less)
  BY <1>1, WFMin
<1>3. ASSUME NEW y \in T PROVE x <= y
  <2>1. <<y, x>> \in Less <=> y < x
    BY DEF Less, OpToRel
  <2> QED BY <2>1, <1>2
<1> QED BY <1>2, <1>3

(* _lowest_empty_row finds a row whenever the column has an empty cell,    *)
(* and no empty cell of the column is below it (game.py:82-87).            *)
LEMMA LowestEmptyRowIsLowest ==
    ASSUME NEW board, NEW c, EmptyRows(board, c) # {}
    PROVE  /\ LowestEmptyRow(board, c) \in EmptyRows(board, c)
           /\ \A s \in EmptyRows(board, c) : s <= LowestEmptyRow(board, c)
<1> DEFINE E == EmptyRows(board, c)
           Depth == {(Rows - 1) - r : r \in E}
<1>1. E \subseteq Row
  BY DEF EmptyRows
<1>2. Depth \in SUBSET Nat /\ Depth # {}
  BY <1>1 DEF Row
<1>3. PICK d \in Depth : \A e \in Depth : d <= e
  BY <1>2, LeastNatural
<1>4. PICK r \in E : d = (Rows - 1) - r
  BY <1>3
<1>5. ASSUME NEW s \in E PROVE s <= r
  <2>1. d <= (Rows - 1) - s
    BY <1>3
  <2> QED BY <2>1, <1>1, <1>4 DEF Row
<1> HIDE DEF E, Depth
<1>6. \E x \in E : \A s \in E : s <= x
  BY <1>5
<1>7. LowestEmptyRow(board, c) = CHOOSE x \in E : \A s \in E : s <= x
  BY DEF LowestEmptyRow, E
<1> QED BY <1>6, <1>7 DEF E

(* The winning cells are cells of the board (game.py:89-116).              *)
LEMMA WinningCellsType ==
    ASSUME NEW board \in Board, NEW cell \in Cell, NEW p
    PROVE  FindWinningCells(board, cell, p) \subseteq Cell
<1>1. ASSUME NEW d PROVE Walk(board, cell, d, p) \subseteq Cell
  BY DEF Walk, Holds
<1>2. ASSUME NEW d PROVE Line(board, cell, d, p) \subseteq Cell
  BY <1>1 DEF Line
<1> QED BY <1>2 DEF FindWinningCells

(* Dropping a piece yields a board that differs from the old one in one    *)
(* cell, which was empty (game.py:67-68).                                  *)
LEMMA PlaceFillsOneCell ==
    ASSUME NEW board \in Board, NEW p \in Player, NEW c \in Col,
           EmptyRows(board, c) # {}
    PROVE  LET cell == <<LowestEmptyRow(board, c), c>>
           IN  /\ cell \in Cell
               /\ board[cell] = Empty
               /\ Place(board, c, p) = [board EXCEPT ![cell] = p]
               /\ Place(board, c, p) \in Board
<1>1. LowestEmptyRow(board, c) \in EmptyRows(board, c)
  BY LowestEmptyRowIsLowest
<1>2. /\ LowestEmptyRow(board, c) \in Row
      /\ board[<<LowestEmptyRow(board, c), c>>] = Empty
  BY <1>1 DEF EmptyRows
<1> QED BY <1>2 DEF Place, Board, Cell

(* drop leaves an object of the right type (game.py:46-76).                *)
LEMMA DropType ==
    ASSUME NEW game \in Game, NEW p \in Player, NEW c, CanDrop(game, p, c)
    PROVE  /\ Drop(game, p, c) \in Game
           /\ c \in Col
           /\ LowestEmptyRow(game.board, c) \in Row
           /\ Drop(game, p, c).board = Place(game.board, c, p)
<1> DEFINE board == Place(game.board, c, p)
           cell  == <<LowestEmptyRow(game.board, c), c>>
           line  == FindWinningCells(board, cell, p)
<1>1. c \in Col /\ EmptyRows(game.board, c) # {} /\ game.board \in Board
  BY DEF CanDrop, Game
<1>2. LowestEmptyRow(game.board, c) \in Row
  BY <1>1, LowestEmptyRowIsLowest DEF EmptyRows
<1>3. cell \in Cell /\ board \in Board
  BY <1>1, PlaceFillsOneCell
<1>4. line \subseteq Cell
  BY <1>3, WinningCellsType
<1>5. Opponent(p) \in Player
  BY DEF Opponent, Player
<1>6. Drop(game, p, c) = [board         |-> board,
                          winner        |-> IF line # {} THEN p ELSE game.winner,
                          winning_cells |-> IF line # {} THEN line ELSE game.winning_cells,
                          is_draw       |-> line = {} /\ CheckDraw(board),
                          next_player   |-> Opponent(p)]
  BY DEF Drop
<1> HIDE DEF board, cell, line
<1>7. Drop(game, p, c) \in Game
  BY <1>3, <1>4, <1>5, <1>6 DEF Game
<1>8. Drop(game, p, c).board = board
  BY <1>6
<1> QED BY <1>1, <1>2, <1>7, <1>8 DEF board

(* Of any cells there is one that the row by row scan meets first.         *)
LEMMA ScanMeetsOneFirst ==
    ASSUME NEW wins \in SUBSET Cell, wins # {}
    PROVE  (CHOOSE w \in wins : \A o \in wins : ScanIndex(w) <= ScanIndex(o)) \in wins
<1> DEFINE Indices == {ScanIndex(w) : w \in wins}
<1>1. \A w \in wins : ScanIndex(w) \in Nat
  <2> SUFFICES ASSUME NEW w \in wins PROVE ScanIndex(w) \in Nat
    OBVIOUS
  <2>1. w[1] \in Nat /\ w[2] \in Nat
    BY DEF Cell, Row, Col
  <2>2. w[1] * Cols \in Nat
    BY <2>1
  <2> QED BY <2>1, <2>2 DEF ScanIndex
<1>2. Indices \in SUBSET Nat /\ Indices # {}
  BY <1>1
<1>3. PICK i \in Indices : \A j \in Indices : i <= j
  BY <1>2, LeastNatural
<1>4. PICK w \in wins : i = ScanIndex(w)
  BY <1>3
<1>5. \A o \in wins : ScanIndex(w) <= ScanIndex(o)
  BY <1>3, <1>4
<1> QED BY <1>5

(* _recompute_terminal builds an object of the right type around the board *)
(* it is given; in particular the scan finds a first winning cell whenever *)
(* there is one (game.py:122-137).                                         *)
LEMMA RecomputeType ==
    ASSUME NEW board \in Board
    PROVE  /\ Recompute(board) \in Game
           /\ Recompute(board).board = board
           /\ Recompute(board).next_player = TurnByCount(board)
<1> DEFINE wins == {cell \in Pieces(board) :
                       FindWinningCells(board, cell, board[cell]) # {}}
           first == CHOOSE w \in wins : \A o \in wins : ScanIndex(w) <= ScanIndex(o)
<1>1. wins \subseteq Cell
  BY DEF Pieces
<1>3. wins # {} => first \in wins
  <2> HIDE DEF wins
  <2> QED BY <1>1, ScanMeetsOneFirst
<1>4. wins # {} => /\ first \in Cell
                   /\ board[first] \in Player
                   /\ FindWinningCells(board, first, board[first]) \subseteq Cell
  <2> SUFFICES ASSUME wins # {}
               PROVE  /\ first \in Cell
                      /\ board[first] \in Player
                      /\ FindWinningCells(board, first, board[first]) \subseteq Cell
    OBVIOUS
  <2>1. first \in Cell /\ board[first] # Empty
    <3> HIDE DEF first
    <3> QED BY <1>3 DEF Pieces
  <2> HIDE DEF wins, first
  <2>2. board[first] \in Player
    BY <2>1 DEF Board
  <2> QED BY <2>1, <2>2, WinningCellsType
<1>5. TurnByCount(board) \in Player
  BY DEF TurnByCount, Player
<1>6. Recompute(board) =
        [board         |-> board,
         winner        |-> IF wins = {} THEN Nobody ELSE board[first],
         winning_cells |-> IF wins = {} THEN {}
                           ELSE FindWinningCells(board, first, board[first]),
         is_draw       |-> wins = {} /\ CheckDraw(board),
         next_player   |-> TurnByCount(board)]
  BY DEF Recompute
<1> HIDE DEF wins, first
<1>7. Recompute(board) \in Game
  BY <1>4, <1>5, <1>6 DEF Game
<1> QED BY <1>6, <1>7

(* An empty board is loaded as a new game: the object that Connect4() makes*)
(* and the one made from the board it saves are the same (game.py:33-40).  *)
LEMMA EmptyBoardIsNewGame ==
    /\ EmptyBoard \in Board
    /\ NewGame \in Game
    /\ Recompute(EmptyBoard) = NewGame
<1>1. EmptyBoard \in Board
  BY DEF EmptyBoard, Board
<1>2. NewGame \in Game
  BY <1>1 DEF NewGame, Game, Player, Nobody
<1>3. Pieces(EmptyBoard) = {}
  BY DEF Pieces, EmptyBoard
<1>4. ~CheckDraw(EmptyBoard)
  <2>1. 0 \in Col /\ <<0, 0>> \in Cell
    BY DEF Col, Cell, Row
  <2>2. EmptyBoard[<<0, 0>>] = Empty
    BY <2>1 DEF EmptyBoard
  <2> QED BY <2>1, <2>2 DEF CheckDraw
<1>5. TurnByCount(EmptyBoard) = 1
  <2>1. Cardinality(Pieces(EmptyBoard)) = 0
    BY <1>3, FS_EmptySet
  <2> QED BY <2>1 DEF TurnByCount
<1>6. Recompute(EmptyBoard) = NewGame
  BY <1>3, <1>4, <1>5 DEF Recompute, NewGame
<1> QED BY <1>1, <1>2, <1>6

(* The board is finite, so pieces can be counted.                          *)
LEMMA PiecesAreFinite ==
    ASSUME NEW board
    PROVE  /\ IsFiniteSet(Pieces(board))
           /\ Cardinality(Pieces(board)) \in Nat
<1>1. IsFiniteSet(Row) /\ IsFiniteSet(Col)
  BY FS_Interval DEF Row, Col
<1>2. IsFiniteSet(Cell)
  BY <1>1, FS_Product DEF Cell
<1>3. Pieces(board) \in SUBSET Cell
  BY DEF Pieces
<1>4. IsFiniteSet(Pieces(board))
  BY <1>2, <1>3, FS_Subset
<1> QED BY <1>4, FS_CardinalityType

(* A drop adds exactly one piece, so the player recomputed from the number *)
(* of pieces is the opponent of the one who moved: a board that is loaded  *)
(* again has the turn that drop left (game.py:75, 137).                    *)
LEMMA PlaceCountsOneMore ==
    ASSUME NEW board \in Board, NEW p \in Player, NEW c \in Col,
           EmptyRows(board, c) # {}
    PROVE  /\ Cardinality(Pieces(Place(board, c, p))) = Cardinality(Pieces(board)) + 1
           /\ TurnByCount(Place(board, c, p)) = Opponent(TurnByCount(board))
<1> DEFINE cell == <<LowestEmptyRow(board, c), c>>
           n == Cardinality(Pieces(board))
<1>1. /\ cell \in Cell
      /\ board[cell] = Empty
      /\ Place(board, c, p) = [board EXCEPT ![cell] = p]
  BY PlaceFillsOneCell
<1>2. Pieces(Place(board, c, p)) = Pieces(board) \cup {cell}
  <2> HIDE DEF cell
  <2>1. ASSUME NEW x \in Cell
        PROVE  Place(board, c, p)[x] = IF x = cell THEN p ELSE board[x]
    BY <1>1 DEF Board
  <2>2. p # Empty
    BY DEF Player, Empty
  <2> QED BY <1>1, <2>1, <2>2 DEF Pieces
<1>3. cell \notin Pieces(board)
  BY <1>1 DEF Pieces
<1>4. IsFiniteSet(Pieces(board)) /\ n \in Nat
  BY PiecesAreFinite
<1> HIDE DEF cell
<1>5. Cardinality(Pieces(Place(board, c, p))) = n + 1
  BY <1>2, <1>3, <1>4, FS_AddElement
<1>6. TurnByCount(Place(board, c, p)) = Opponent(TurnByCount(board))
  <2> HIDE DEF n
  <2>1. TurnByCount(board) = IF n % 2 = 0 THEN 1 ELSE 2
    BY DEF TurnByCount, n
  <2>2. TurnByCount(Place(board, c, p)) = IF (n + 1) % 2 = 0 THEN 1 ELSE 2
    BY <1>5 DEF TurnByCount
  <2>3. (n + 1) % 2 = 0 <=> n % 2 # 0
    BY <1>4
  <2> QED BY <2>1, <2>2, <2>3 DEF Opponent
<1> QED BY <1>5, <1>6

(* A new game is a legal position.                                         *)
LEMMA EmptyBoardIsLegal == LegalPosition(EmptyBoard)
<1>1. Settled(EmptyBoard)
  <2>1. \A r \in Row, c \in Col : EmptyBoard[<<r, c>>] = Empty
    BY DEF EmptyBoard, Cell
  <2> QED BY <2>1 DEF Settled
<1>2. PiecesOf(EmptyBoard, 1) = {} /\ PiecesOf(EmptyBoard, 2) = {}
  BY DEF PiecesOf, EmptyBoard, Empty
<1>3. TurnByCount(EmptyBoard) = 1
  <2>1. TurnByCount(EmptyBoard) = NewGame.next_player
    BY EmptyBoardIsNewGame, RecomputeType
  <2> QED BY <2>1 DEF NewGame
<1>4. Cardinality({}) = 0
  BY FS_EmptySet
<1> QED BY <1>1, <1>2, <1>3, <1>4 DEF LegalPosition, TurnsAlternate

(* A piece that drops rests on the bottom or on another piece              *)
(* (game.py:82-87).                                                        *)
LEMMA PlaceSettles ==
    ASSUME NEW board \in Board, NEW p \in Player, NEW c \in Col,
           EmptyRows(board, c) # {}, Settled(board)
    PROVE  Settled(Place(board, c, p))
<1> DEFINE low == LowestEmptyRow(board, c)
           cell == <<low, c>>
           after == Place(board, c, p)
<1>1. /\ cell \in Cell
      /\ board[cell] = Empty
      /\ after = [board EXCEPT ![cell] = p]
  BY PlaceFillsOneCell
<1>2. \A s \in EmptyRows(board, c) : s <= low
  BY LowestEmptyRowIsLowest
<1> HIDE DEF low
<1>3. ASSUME NEW x \in Cell PROVE after[x] = IF x = cell THEN p ELSE board[x]
  BY <1>1 DEF Board
<1> HIDE DEF after
<1>4. ASSUME NEW r \in Row, NEW k \in Col, after[<<r, k>>] # Empty, r + 1 \in Row
      PROVE  after[<<r + 1, k>>] # Empty
  <2>1. <<r, k>> \in Cell /\ <<r + 1, k>> \in Cell
    BY <1>4 DEF Cell
  <2>2. p # Empty
    BY DEF Player, Empty
  <2>3. CASE <<r, k>> = cell
    <3>1. r + 1 \notin EmptyRows(board, c)
      BY <1>2, <2>3 DEF Row
    <3>2. board[<<r + 1, c>>] # Empty
      BY <3>1, <1>4 DEF EmptyRows
    <3> QED BY <1>3, <2>1, <2>2, <2>3, <3>2
  <2>4. CASE <<r, k>> # cell
    <3>1. board[<<r, k>>] # Empty
      BY <1>3, <1>4, <2>1, <2>4
    <3>2. board[<<r + 1, k>>] # Empty
      BY <3>1, <1>4 DEF Settled
    <3> QED BY <1>3, <2>1, <2>2, <3>2
  <2> QED BY <2>3, <2>4
<1> QED BY <1>4 DEF Settled, after

(* When the player whose turn it is by the number of pieces drops one, the *)
(* pieces still alternate (game.py:63, 137).                               *)
LEMMA PlaceAlternates ==
    ASSUME NEW board \in Board, NEW c \in Col, EmptyRows(board, c) # {},
           TurnsAlternate(board)
    PROVE  TurnsAlternate(Place(board, c, TurnByCount(board)))
<1> DEFINE p == TurnByCount(board)
           cell == <<LowestEmptyRow(board, c), c>>
           after == Place(board, c, p)
           Count(b, q) == Cardinality(PiecesOf(b, q))
<1>1. p \in Player
  BY DEF TurnByCount, Player
<1>2. /\ cell \in Cell
      /\ board[cell] = Empty
      /\ after = [board EXCEPT ![cell] = p]
  BY <1>1, PlaceFillsOneCell
<1>3. TurnByCount(after) = Opponent(p)
  BY <1>1, PlaceCountsOneMore
<1>4. p = 1 \/ p = 2
  BY <1>1 DEF Player
<1> HIDE DEF cell, p
<1>5. ASSUME NEW x \in Cell PROVE after[x] = IF x = cell THEN p ELSE board[x]
  BY <1>2 DEF Board
<1> HIDE DEF after
<1>6. ASSUME NEW q \in Player
      PROVE  /\ IsFiniteSet(PiecesOf(board, q))
             /\ Count(board, q) \in Nat
             /\ cell \notin PiecesOf(board, q)
  <2>1. q # Empty
    BY DEF Player, Empty
  <2>2. PiecesOf(board, q) \in SUBSET Pieces(board)
    BY <2>1 DEF PiecesOf, Pieces
  <2>3. IsFiniteSet(PiecesOf(board, q))
    BY <2>2, PiecesAreFinite, FS_Subset
  <2>4. cell \notin PiecesOf(board, q)
    BY <1>2, <2>1 DEF PiecesOf
  <2> QED BY <2>3, <2>4, FS_CardinalityType
<1>7. ASSUME NEW q \in Player
      PROVE  Count(after, q) = IF q = p THEN Count(board, q) + 1 ELSE Count(board, q)
  <2>1. q # Empty
    BY DEF Player, Empty
  <2>2. CASE q = p
    <3>1. PiecesOf(after, q) = PiecesOf(board, q) \cup {cell}
      BY <1>2, <1>5, <2>2 DEF PiecesOf
    <3>2. IsFiniteSet(PiecesOf(board, q)) /\ cell \notin PiecesOf(board, q)
      BY <1>6
    <3>3. Cardinality(PiecesOf(board, q) \cup {cell}) = Cardinality(PiecesOf(board, q)) + 1
      BY <3>2, FS_AddElement
    <3> QED BY <3>1, <3>3, <2>2
  <2>3. CASE q # p
    <3>1. PiecesOf(after, q) = PiecesOf(board, q)
      BY <1>2, <1>5, <2>1, <2>3 DEF PiecesOf
    <3> QED BY <3>1, <2>3
  <2> QED BY <2>2, <2>3
<1>8. /\ Count(board, 1) \in Nat /\ Count(board, 2) \in Nat
      /\ Count(after, 1) = IF 1 = p THEN Count(board, 1) + 1 ELSE Count(board, 1)
      /\ Count(after, 2) = IF 2 = p THEN Count(board, 2) + 1 ELSE Count(board, 2)
  BY <1>6, <1>7 DEF Player
<1>9. Count(board, 1) = Count(board, 2) + (IF p = 1 THEN 0 ELSE 1)
  BY DEF TurnsAlternate, p
<1> HIDE DEF Count
<1>10. Count(after, 1) = Count(after, 2) + (IF Opponent(p) = 1 THEN 0 ELSE 1)
  BY <1>4, <1>8, <1>9 DEF Opponent
<1> QED BY <1>3, <1>10 DEF TurnsAlternate, Count, after, p

(* A drop on a board that was loaded from a legal position gives a legal   *)
(* position.                                                               *)
LEMMA DropKeepsPositionLegal ==
    ASSUME NEW board \in Board, NEW p \in Player, NEW c,
           CanDrop(Recompute(board), p, c), LegalPosition(board)
    PROVE  LegalPosition(Drop(Recompute(board), p, c).board)
<1>1. /\ Recompute(board) \in Game
      /\ Recompute(board).board = board
      /\ Recompute(board).next_player = TurnByCount(board)
  BY RecomputeType
<1>2. c \in Col /\ EmptyRows(board, c) # {} /\ p = TurnByCount(board)
  BY <1>1 DEF CanDrop
<1>3. Drop(Recompute(board), p, c).board = Place(board, c, p)
  BY <1>1, DropType
<1>4. Settled(Place(board, c, p))
  BY <1>2, PlaceSettles DEF LegalPosition
<1>5. TurnsAlternate(Place(board, c, p))
  BY <1>2, PlaceAlternates DEF LegalPosition
<1> QED BY <1>3, <1>4, <1>5 DEF LegalPosition

-----------------------------------------------------------------------------
(* Lines.  The engine looks for a win only along the four lines through a  *)
(* cell; the rules ask for a straight segment anywhere on the board.       *)

Lines == INSTANCE BoardGeometry

Ways == {<<0, 1>>, <<1, 0>>, <<1, 1>>, <<1, -1>>}

(* Steps along a line add up, can be taken back, and never return.         *)
LEMMA StepsAddUp ==
    ASSUME NEW cell \in Int \X Int, NEW d \in Ways
    PROVE  /\ Ahead(cell, d, 0) = cell
           /\ \A i \in Int : Ahead(cell, <<-d[1], -d[2]>>, i) = Ahead(cell, d, -i)
           /\ \A i, j \in Int : Ahead(Ahead(cell, d, i), d, j) = Ahead(cell, d, i + j)
<1>1. PICK r \in Int, c \in Int : cell = <<r, c>>
  OBVIOUS
<1>2. CASE d = <<0, 1>>
  BY <1>1, <1>2 DEF Ahead
<1>3. CASE d = <<1, 0>>
  BY <1>1, <1>3 DEF Ahead
<1>4. CASE d = <<1, 1>>
  BY <1>1, <1>4 DEF Ahead
<1>5. CASE d = <<1, -1>>
  BY <1>1, <1>5 DEF Ahead
<1> QED BY <1>2, <1>3, <1>4, <1>5 DEF Ways

LEMMA StepsCompose ==
    ASSUME NEW start \in Int \X Int, NEW d \in Ways
    PROVE  \A i, j \in Int : Ahead(Ahead(start, d, i), d, j) = Ahead(start, d, i + j)
  BY StepsAddUp

LEMMA StepsDiffer ==
    ASSUME NEW cell \in Int \X Int, NEW d \in Ways
    PROVE  \A k, l \in Int : Ahead(cell, d, k) = Ahead(cell, d, l) => k = l
<1>1. PICK r \in Int, c \in Int : cell = <<r, c>>
  OBVIOUS
<1>2. CASE d = <<0, 1>>
  BY <1>1, <1>2 DEF Ahead
<1>3. CASE d \in {<<1, 0>>, <<1, 1>>, <<1, -1>>}
  BY <1>1, <1>3 DEF Ahead
<1> QED BY <1>2, <1>3 DEF Ways

LEMMA StepsStayInBounds ==
    ASSUME NEW cell \in Cell, NEW d \in Ways, NEW i \in Int, Ahead(cell, d, i) \in Cell
    PROVE  i <= Rows + Cols /\ -i <= Rows + Cols
<1>1. PICK r \in Row, c \in Col : cell = <<r, c>>
  BY DEF Cell
<1>2. ASSUME NEW x \in Int, NEW y \in Int, <<x, y>> \in Cell
      PROVE  x - r <= Rows /\ r - x <= Rows /\ y - c <= Cols /\ c - y <= Cols
  BY <1>2 DEF Cell, Row, Col
<1>3. \/ Ahead(cell, d, i) = <<r, c + i>>
      \/ Ahead(cell, d, i) = <<r + i, c>>
      \/ Ahead(cell, d, i) = <<r + i, c + i>>
      \/ Ahead(cell, d, i) = <<r + i, c - i>>
  BY <1>1 DEF Ahead, Ways, Row, Col
<1>4. r \in Int /\ c \in Int /\ Rows \in Nat /\ Cols \in Nat
  BY DEF Row, Col
<1>5. r + i \in Int /\ c + i \in Int /\ c - i \in Int
  BY <1>4
<1> QED BY <1>2, <1>3, <1>4, <1>5

(* The cells from i steps back to j steps ahead.                           *)
Run(cell, d, i, j) == {Ahead(cell, d, k) : k \in i .. j}

LEMMA RunSize ==
    ASSUME NEW cell \in Int \X Int, NEW d \in Ways, NEW i \in Int, NEW j \in Int, i <= j
    PROVE  IsFiniteSet(Run(cell, d, i, j)) /\ Cardinality(Run(cell, d, i, j)) = j - i + 1
<1> DEFINE f == [k \in i .. j |-> Ahead(cell, d, k)]
<1>1. IsFiniteSet(i .. j) /\ Cardinality(i .. j) = j - i + 1
  BY FS_Interval
<1>2. \A k, l \in Int : Ahead(cell, d, k) = Ahead(cell, d, l) => k = l
  BY StepsDiffer
<1>3. f \in Bijection(i .. j, Run(cell, d, i, j))
  <2>1. f \in [i .. j -> Run(cell, d, i, j)] /\ \A y \in Run(cell, d, i, j) : \E x \in i .. j : f[x] = y
    BY DEF Run
  <2>2. \A k, l \in i .. j : f[k] = f[l] => k = l
    BY <1>2
  <2> QED BY <2>1, <2>2 DEF Bijection, Injection, IsInjective, Surjection
<1> QED BY <1>1, <1>3, FS_Bijection DEF ExistsBijection

(* A walk stops at the first cell that is not the player's.                *)
LEMMA WalkIsRun ==
    ASSUME NEW board, NEW cell, NEW d, NEW p
    PROVE  \E a \in Nat : /\ Walk(board, cell, d, p) = Run(cell, d, 1, a)
                          /\ \A k \in 1 .. a : Holds(board, Ahead(cell, d, k), p)
<1> DEFINE N == Rows + Cols
           H(k) == Holds(board, Ahead(cell, d, k), p)
           A == {k \in 1 .. N : \A j \in 1 .. k : H(j)}
           Stops == {k \in 1 .. (N + 1) : k = N + 1 \/ ~H(k)}
<1>1. N \in Nat
  OBVIOUS
<1> HIDE DEF N, H
<1>2. Stops \in SUBSET Nat /\ N + 1 \in Stops
  BY <1>1
<1>3. PICK m \in Stops : \A k \in Stops : m <= k
  BY <1>2, LeastNatural
<1>4. m - 1 \in Nat /\ m \in 1 .. (N + 1) /\ (m = N + 1 \/ ~H(m))
  BY <1>1, <1>3
<1>5. \A k \in 1 .. (m - 1) : H(k)
  BY <1>1, <1>3, <1>4
<1>6. A = 1 .. (m - 1)
  <2>1. ASSUME NEW k \in 1 .. (m - 1) PROVE k \in A
    <3>1. k \in 1 .. N /\ \A j \in 1 .. k : j \in 1 .. (m - 1)
      BY <1>1, <1>4
    <3> QED BY <1>5, <3>1
  <2>2. ASSUME NEW k \in A, k \notin 1 .. (m - 1) PROVE FALSE
    <3>1. m \in 1 .. k /\ m # N + 1
      BY <1>1, <1>4, <2>2
    <3> QED BY <1>4, <2>2, <3>1
  <2> QED BY <2>1, <2>2
<1>7. Walk(board, cell, d, p) = {Ahead(cell, d, n) : n \in A}
  BY DEF Walk, H, N
<1> HIDE DEF A
<1>8. Walk(board, cell, d, p) = Run(cell, d, 1, m - 1)
  BY <1>6, <1>7 DEF Run
<1> QED BY <1>4, <1>5, <1>8 DEF H

(* The line through a cell is the run of the player's cells around it.     *)
LEMMA LineIsRun ==
    ASSUME NEW board, NEW cell \in Cell, NEW d \in Ways, NEW p, board[cell] = p
    PROVE  \E a, b \in Nat :
              /\ Line(board, cell, d, p) = Run(cell, d, -b, a)
              /\ \A k \in -b .. a : Holds(board, Ahead(cell, d, k), p)
<1> DEFINE back == <<-d[1], -d[2]>>
           H(k) == Holds(board, Ahead(cell, d, k), p)
<1>1. PICK a \in Nat : /\ Walk(board, cell, d, p) = Run(cell, d, 1, a)
                       /\ \A k \in 1 .. a : H(k)
  BY WalkIsRun
<1>2. PICK b \in Nat : /\ Walk(board, cell, back, p) = Run(cell, back, 1, b)
                       /\ \A k \in 1 .. b : Holds(board, Ahead(cell, back, k), p)
  BY WalkIsRun
<1>3. cell \in Int \X Int
  BY DEF Cell, Row, Col
<1>4. Ahead(cell, d, 0) = cell /\ \A k \in Int : Ahead(cell, back, k) = Ahead(cell, d, -k)
  BY <1>3, StepsAddUp
<1>5. Line(board, cell, d, p) = {cell} \cup Run(cell, d, 1, a) \cup Run(cell, back, 1, b)
  BY <1>1, <1>2 DEF Line
<1> HIDE DEF back, H
<1>6. \A k \in -b .. a : k = 0 \/ k \in 1 .. a \/ -k \in 1 .. b
  OBVIOUS
<1>7. Line(board, cell, d, p) = Run(cell, d, -b, a)
  <2>1. ASSUME NEW x \in Run(cell, d, -b, a) PROVE x \in Line(board, cell, d, p)
    <3>1. PICK k \in -b .. a : x = Ahead(cell, d, k)
      BY DEF Run
    <3>2. CASE k = 0
      BY <1>4, <1>5, <3>1, <3>2
    <3>3. CASE k \in 1 .. a
      BY <1>5, <3>1, <3>3 DEF Run
    <3>4. CASE -k \in 1 .. b
      <4>1. -k \in Int /\ -(-k) = k
        OBVIOUS
      <4>2. x = Ahead(cell, back, -k)
        BY <1>4, <3>1, <4>1
      <4> QED BY <1>5, <3>4, <4>2 DEF Run
    <3> QED BY <1>6, <3>2, <3>3, <3>4
  <2>2. ASSUME NEW x \in Line(board, cell, d, p) PROVE x \in Run(cell, d, -b, a)
    <3>1. CASE x = cell
      <4>1. 0 \in -b .. a
        OBVIOUS
      <4> QED BY <1>4, <3>1, <4>1 DEF Run
    <3>2. CASE x \in Run(cell, d, 1, a)
      <4>1. 1 .. a \subseteq -b .. a
        OBVIOUS
      <4> QED BY <3>2, <4>1 DEF Run
    <3>3. CASE x \in Run(cell, back, 1, b)
      <4>1. PICK k \in 1 .. b : x = Ahead(cell, back, k)
        BY <3>3 DEF Run
      <4>2. k \in Int /\ -k \in -b .. a
        OBVIOUS
      <4>3. x = Ahead(cell, d, -k)
        BY <1>4, <4>1, <4>2
      <4> QED BY <4>2, <4>3 DEF Run
    <3> QED BY <1>5, <3>1, <3>2, <3>3
  <2> QED BY <2>1, <2>2
<1>8. ASSUME NEW k \in -b .. a PROVE H(k)
  <2>1. CASE k = 0
    BY <1>4, <2>1 DEF H, Holds
  <2>2. CASE k \in 1 .. a
    BY <1>1, <2>2
  <2>3. CASE -k \in 1 .. b
    <3>1. -k \in Int /\ -(-k) = k
      OBVIOUS
    <3>2. Ahead(cell, back, -k) = Ahead(cell, d, k)
      BY <1>4, <3>1
    <3> QED BY <1>2, <2>3, <3>2 DEF H
  <2> QED BY <1>6, <2>1, <2>2, <2>3
<1> QED BY <1>7, <1>8 DEF H

(* A line that is long enough contains a straight segment, ...             *)
LEMMA LongLineHasSegment ==
    ASSUME NEW board, NEW cell \in Cell, NEW d \in Ways, NEW p, board[cell] = p
    PROVE  /\ \A x \in Line(board, cell, d, p) : board[x] = p
           /\ LongEnough(Line(board, cell, d, p)) =>
                  \E s \in Lines!Segments : s \subseteq Line(board, cell, d, p)
<1>1. PICK a \in Nat, b \in Nat :
          /\ Line(board, cell, d, p) = Run(cell, d, -b, a)
          /\ \A k \in -b .. a : Holds(board, Ahead(cell, d, k), p)
  BY LineIsRun
<1>2. \A x \in Line(board, cell, d, p) : board[x] = p
  BY <1>1 DEF Run, Holds
<1>3. ASSUME LongEnough(Line(board, cell, d, p))
      PROVE  \E s \in Lines!Segments : s \subseteq Line(board, cell, d, p)
  <2>1. cell \in Int \X Int
    BY DEF Cell, Row, Col
  <2>2. a + b + 1 >= WinLength
    <3>1. Cardinality(Run(cell, d, -b, a)) = a - (-b) + 1
      BY <2>1, RunSize
    <3> QED BY <1>1, <1>3, <3>1 DEF LongEnough
  <2> DEFINE start == Ahead(cell, d, -b)
             s == Lines!Segment(start, d)
  <2>3. start \in Cell
    <3>1. -b \in -b .. a
      OBVIOUS
    <3> QED BY <1>1, <3>1 DEF Holds
  <2>4. \A k \in 0 .. (WinLength - 1) : -b + k \in -b .. a /\ k \in Int
    BY <2>2
  <2>5. \A k \in Int : Ahead(start, d, k) = Ahead(cell, d, -b + k)
    <3>1. \A i, j \in Int : Ahead(Ahead(cell, d, i), d, j) = Ahead(cell, d, i + j)
      BY <2>1, StepsCompose, Zenon
    <3>2. -b \in Int
      OBVIOUS
    <3> QED BY <3>1, <3>2, Zenon
  <2>6. s = {Ahead(start, d, k) : k \in 0 .. (WinLength - 1)}
    BY DEF Lines!Segment, Ahead
  <2>7. s \subseteq Line(board, cell, d, p)
    <3> HIDE DEF start, s
    <3> QED BY <1>1, <2>4, <2>5, <2>6 DEF Run
  <2>8. Line(board, cell, d, p) \subseteq Cell
    BY <1>1 DEF Run, Holds
  <2>9. s \in Lines!Segments
    <3>1. start \in Lines!Cells /\ s \subseteq Lines!Cells
      BY <2>3, <2>7, <2>8 DEF Lines!Cells, Cell, Row, Col
    <3> QED BY <3>1 DEF Lines!Segments, Ways
  <2> QED BY <2>7, <2>9
<1> QED BY <1>2, <1>3

(* ... and a segment of a player's pieces makes the line through each of   *)
(* its cells long enough.                                                  *)
LEMMA SegmentMakesLongLine ==
    ASSUME NEW board, NEW p, NEW s \in Lines!Segments, \A x \in s : board[x] = p,
           NEW cell \in s
    PROVE  \E d \in Ways : LongEnough(Line(board, cell, d, p))
<1>1. PICK start \in Lines!Cells, d \in Ways : s = Lines!Segment(start, d)
  BY DEF Lines!Segments, Ways
<1>2. s \subseteq Cell /\ start \in Int \X Int
  BY DEF Lines!Segments, Lines!Cells, Cell, Row, Col
<1>3. s = {Ahead(start, d, k) : k \in 0 .. (WinLength - 1)}
  BY <1>1 DEF Lines!Segment, Ahead
<1>4. PICK o \in 0 .. (WinLength - 1) : cell = Ahead(start, d, o)
  BY <1>3
<1>5. o \in Int /\ -o \in Int /\ (WinLength - 1) - o \in Int /\ -o <= (WinLength - 1) - o
  OBVIOUS
<1>6. cell \in Int \X Int /\ cell \in Cell
  BY <1>2 DEF Cell, Row, Col
<1>7. \A k \in Int : Ahead(cell, d, k) = Ahead(start, d, o + k)
  <2>1. \A i, j \in Int : Ahead(Ahead(start, d, i), d, j) = Ahead(start, d, i + j)
    BY <1>2, StepsCompose, Zenon
  <2> QED BY <1>4, <1>5, <2>1, Zenon
<1>8. s = Run(cell, d, -o, (WinLength - 1) - o)
  <2>1. \A k \in -o .. ((WinLength - 1) - o) : k \in Int /\ o + k \in 0 .. (WinLength - 1)
    BY <1>5
  <2>2. \A k \in 0 .. (WinLength - 1) :
           /\ k - o \in Int /\ o + (k - o) = k
           /\ k - o \in -o .. ((WinLength - 1) - o)
    BY <1>5
  <2>3. Run(cell, d, -o, (WinLength - 1) - o) \subseteq s
    BY <1>3, <1>7, <2>1 DEF Run
  <2>4. \A k \in 0 .. (WinLength - 1) : Ahead(start, d, k) = Ahead(cell, d, k - o)
    BY <1>7, <2>2
  <2>5. s \subseteq Run(cell, d, -o, (WinLength - 1) - o)
    BY <1>3, <2>2, <2>4 DEF Run
  <2> QED BY <2>3, <2>5
<1>9. IsFiniteSet(s) /\ Cardinality(s) = WinLength
  <2>1. ((WinLength - 1) - o) - (-o) + 1 = WinLength
    BY <1>5
  <2> QED BY <1>5, <1>6, <1>8, <2>1, RunSize
<1>10. PICK a \in Nat, b \in Nat : Line(board, cell, d, p) = Run(cell, d, -b, a)
  <2>1. board[cell] = p
    OBVIOUS
  <2>2. \E a, b \in Nat :
           /\ Line(board, cell, d, p) = Run(cell, d, -b, a)
           /\ \A k \in -b .. a : Holds(board, Ahead(cell, d, k), p)
    BY <1>6, <2>1, LineIsRun, Zenon
  <2> QED BY <2>2
<1>11. s \subseteq Line(board, cell, d, p)
  <2> DEFINE back == <<-d[1], -d[2]>>
  <2>1. \A k \in -o .. ((WinLength - 1) - o) : Holds(board, Ahead(cell, d, k), p)
    BY <1>2, <1>8 DEF Run, Holds
  <2>2. \A k \in Int : Holds(board, Ahead(cell, d, k), p) => k <= Rows + Cols /\ -k <= Rows + Cols
    BY <1>6, StepsStayInBounds DEF Holds
  <2>3. Ahead(cell, d, 0) = cell /\ \A k \in Int : Ahead(cell, back, k) = Ahead(cell, d, -k)
    BY <1>6, StepsAddUp
  <2> HIDE DEF back
  <2>4. ASSUME NEW k \in 1 .. ((WinLength - 1) - o) PROVE Ahead(cell, d, k) \in Walk(board, cell, d, p)
    <3>1. \A j \in 1 .. k : Holds(board, Ahead(cell, d, j), p)
      BY <1>5, <2>1
    <3>2. k \in 1 .. (Rows + Cols)
      BY <1>5, <2>2, <3>1
    <3> QED BY <3>1, <3>2 DEF Walk
  <2>5. ASSUME NEW k \in 1 .. o PROVE Ahead(cell, d, -k) \in Walk(board, cell, back, p)
    <3>1. \A j \in 1 .. k : j \in Int /\ -j \in Int /\ -j \in -o .. ((WinLength - 1) - o)
      BY <1>5
    <3>2. \A j \in 1 .. k : Holds(board, Ahead(cell, back, j), p)
      BY <2>1, <2>3, <3>1
    <3>3. k \in 1 .. (Rows + Cols)
      <4>1. k \in 1 .. k /\ k \in Int /\ -(-k) = k
        OBVIOUS
      <4>2. Holds(board, Ahead(cell, d, -k), p)
        BY <2>1, <3>1, <4>1
      <4>3. -(-k) <= Rows + Cols
        BY <2>2, <3>1, <4>1, <4>2
      <4> QED BY <4>1, <4>3
    <3>4. Ahead(cell, back, k) \in Walk(board, cell, back, p)
      BY <3>2, <3>3 DEF Walk
    <3> QED BY <2>3, <3>4
  <2>6. ASSUME NEW k \in -o .. ((WinLength - 1) - o)
        PROVE  Ahead(cell, d, k) \in Line(board, cell, d, p)
    <3>1. k = 0 \/ k \in 1 .. ((WinLength - 1) - o) \/ -k \in 1 .. o
      BY <1>5
    <3>2. -(-k) = k
      BY <1>5
    <3> QED BY <2>3, <2>4, <2>5, <3>1, <3>2 DEF Line, back
  <2> QED BY <1>8, <2>6 DEF Run
<1>12. IsFiniteSet(Line(board, cell, d, p)) /\ Cardinality(Line(board, cell, d, p)) \in Nat
  <2>1. -b \in Int /\ -b <= a
    OBVIOUS
  <2>2. IsFiniteSet(Run(cell, d, -b, a))
    BY <1>6, <2>1, RunSize
  <2> QED BY <1>10, <2>2, FS_CardinalityType
<1>13. Cardinality(s) <= Cardinality(Line(board, cell, d, p))
  BY <1>11, <1>12, FS_Subset
<1> QED BY <1>9, <1>12, <1>13 DEF LongEnough

(* The win search around a cell finds something exactly if one of the      *)
(* lines through it is long enough, and then a line that shows it.         *)
LEMMA SearchFindsLine ==
    ASSUME NEW board, NEW cell, NEW p
    PROVE  /\ (\E d \in Ways : LongEnough(Line(board, cell, d, p))) =>
                  FindWinningCells(board, cell, p) # {}
           /\ FindWinningCells(board, cell, p) # {} =>
                  \E d \in Ways : /\ LongEnough(Line(board, cell, d, p))
                                  /\ FindWinningCells(board, cell, p) = Line(board, cell, d, p)
<1> DEFINE W(i) == WinsAlong(board, cell, i, p)
           L(i) == Line(board, cell, Directions[i], p)
           Firsts == {j \in DOMAIN Directions : W(j) /\ \A k \in 1 .. (j - 1) : ~W(k)}
<1>1. DOMAIN Directions = 1 .. 4 /\ Ways = {Directions[i] : i \in 1 .. 4}
  <2>1. DOMAIN Directions = 1 .. 4
    BY DEF Directions
  <2>2. /\ Directions[1] = <<0, 1>> /\ Directions[2] = <<1, 0>>
        /\ Directions[3] = <<1, 1>> /\ Directions[4] = <<1, -1>>
    BY DEF Directions
  <2>3. \A i \in 1 .. 4 : i = 1 \/ i = 2 \/ i = 3 \/ i = 4
    OBVIOUS
  <2>4. 1 \in 1 .. 4 /\ 2 \in 1 .. 4 /\ 3 \in 1 .. 4 /\ 4 \in 1 .. 4
    OBVIOUS
  <2>5. {Directions[i] : i \in 1 .. 4} \subseteq Ways
    BY <2>2, <2>3 DEF Ways
  <2>6. Ways \subseteq {Directions[i] : i \in 1 .. 4}
    BY <2>2, <2>4 DEF Ways
  <2> QED BY <2>1, <2>5, <2>6
<1>2. FindWinningCells(board, cell, p) = UNION {L(i) : i \in Firsts}
  BY DEF FindWinningCells
<1>3. \A i \in 1 .. 4 : W(i) <=> LongEnough(L(i))
  BY DEF WinsAlong
<1>4. \A i \in 1 .. 4 : cell \in L(i)
  BY DEF Line
<1> HIDE DEF W, L
<1>5. ASSUME \E d \in Ways : LongEnough(Line(board, cell, d, p))
      PROVE  FindWinningCells(board, cell, p) # {}
  <2> DEFINE T == {i \in 1 .. 4 : W(i)}
  <2>1. T \in SUBSET Nat /\ T # {}
    BY <1>1, <1>3, <1>5 DEF L
  <2>2. PICK i \in T : \A k \in T : i <= k
    BY <2>1, LeastNatural
  <2>3. i \in Firsts
    BY <1>1, <2>2
  <2>4. cell \in FindWinningCells(board, cell, p)
    BY <1>2, <1>4, <2>2, <2>3
  <2> QED BY <2>4
<1>6. ASSUME FindWinningCells(board, cell, p) # {}
      PROVE  \E d \in Ways : /\ LongEnough(Line(board, cell, d, p))
                             /\ FindWinningCells(board, cell, p) = Line(board, cell, d, p)
  <2>1. PICK i \in Firsts : TRUE
    BY <1>2, <1>6
  <2>2. ASSUME NEW k \in Firsts PROVE k = i
    <3>1. k \in 1 .. 4 /\ i \in 1 .. 4 /\ W(k) /\ W(i) /\ i \notin 1 .. (k - 1) /\ k \notin 1 .. (i - 1)
      BY <1>1, <2>1, <2>2
    <3> QED BY <3>1
  <2>3. Firsts = {i}
    BY <2>1, <2>2
  <2> HIDE DEF Firsts
  <2>4. FindWinningCells(board, cell, p) = L(i)
    BY <1>2, <2>3
  <2>5. i \in 1 .. 4 /\ W(i)
    BY <1>1, <2>1 DEF Firsts
  <2> QED BY <1>1, <1>3, <2>4, <2>5 DEF L
<1> QED BY <1>5, <1>6

(* So it finds something for a player's piece exactly if that piece is on  *)
(* a segment of the player's.                                              *)
LEMMA SearchIsRight ==
    ASSUME NEW board, NEW cell \in Cell, NEW p, board[cell] = p
    PROVE  /\ FindWinningCells(board, cell, p) # {} =>
                  /\ Lines!HasLine(board, p)
                  /\ \A x \in FindWinningCells(board, cell, p) : board[x] = p
                  /\ \E s \in Lines!Segments : s \subseteq FindWinningCells(board, cell, p)
           /\ \A s \in Lines!Segments :
                  cell \in s /\ (\A x \in s : board[x] = p) => FindWinningCells(board, cell, p) # {}
<1>1. ASSUME FindWinningCells(board, cell, p) # {}
      PROVE  /\ Lines!HasLine(board, p)
             /\ \A x \in FindWinningCells(board, cell, p) : board[x] = p
             /\ \E s \in Lines!Segments : s \subseteq FindWinningCells(board, cell, p)
  <2>1. PICK d \in Ways : /\ LongEnough(Line(board, cell, d, p))
                          /\ FindWinningCells(board, cell, p) = Line(board, cell, d, p)
    BY <1>1, SearchFindsLine
  <2>2. /\ \A x \in Line(board, cell, d, p) : board[x] = p
        /\ \E s \in Lines!Segments : s \subseteq Line(board, cell, d, p)
    BY <2>1, LongLineHasSegment
  <2> QED BY <2>1, <2>2 DEF Lines!HasLine
<1>2. ASSUME NEW s \in Lines!Segments, cell \in s, \A x \in s : board[x] = p
      PROVE  FindWinningCells(board, cell, p) # {}
  BY <1>2, SegmentMakesLongLine, SearchFindsLine
<1> QED BY <1>1, <1>2
(* Below a piece there is no empty cell.                                   *)
LEMMA ColumnFillsUp ==
    ASSUME NEW b \in Board, Settled(b), NEW c \in Col, NEW r \in Row, NEW s \in Row,
           r < s, b[<<r, c>>] # Empty
    PROVE  b[<<s, c>>] # Empty
<1> SUFFICES ASSUME b[<<s, c>>] = Empty PROVE FALSE
  OBVIOUS
<1> DEFINE T == {t \in Row : r < t /\ b[<<t, c>>] = Empty}
<1>1. T \in SUBSET Nat /\ T # {}
  BY DEF Row
<1>2. PICK t \in T : \A u \in T : t <= u
  BY <1>1, LeastNatural
<1> HIDE DEF T
<1>3. t \in Row /\ r < t /\ b[<<t, c>>] = Empty
  BY <1>2 DEF T
<1>4. t - 1 \in Row /\ (t - 1) + 1 = t /\ (t - 1 = r \/ r < t - 1)
  BY <1>3 DEF Row
<1>5. t - 1 \notin T
  BY <1>1, <1>2, <1>3 DEF Row
<1>6. b[<<t - 1, c>>] # Empty
  BY <1>4, <1>5 DEF T
<1> QED BY <1>3, <1>4, <1>6 DEF Settled


(* The top row of a settled board is full exactly if the board is, so the  *)
(* draw test looks at enough (game.py:118-120).                            *)
LEMMA TopRowIsEnough ==
    ASSUME NEW b \in Board, Settled(b)
    PROVE  CheckDraw(b) <=> Lines!Full(b)
<1>1. ASSUME CheckDraw(b), NEW cell \in Lines!Cells PROVE b[cell] # 0
  <2>1. PICK r \in Row, c \in Col : cell = <<r, c>>
    BY DEF Lines!Cells, Row, Col
  <2>2. 0 \in Row /\ b[<<0, c>>] # Empty
    BY <1>1 DEF CheckDraw, Row
  <2>3. r = 0 \/ 0 < r
    BY DEF Row
  <2> QED BY <2>1, <2>2, <2>3, ColumnFillsUp DEF Empty
<1>2. ASSUME Lines!Full(b), NEW c \in Col PROVE b[<<0, c>>] # Empty
  BY <1>2 DEF Lines!Full, Lines!Cells, Row, Col, Empty
<1> QED BY <1>1, <1>2 DEF CheckDraw, Lines!Full

LEMMA SegmentsHaveCells ==
    ASSUME NEW s \in Lines!Segments PROVE s \subseteq Cell /\ s # {}
<1>1. PICK start \in Lines!Cells, d \in Ways : s = Lines!Segment(start, d)
  BY DEF Lines!Segments, Ways
<1>2. 0 \in 0 .. (WinLength - 1)
  OBVIOUS
<1>3. s # {}
  BY <1>1, <1>2 DEF Lines!Segment
<1>4. s \subseteq Cell
  BY DEF Lines!Segments, Lines!Cells, Cell, Row, Col
<1> QED BY <1>3, <1>4

NoLine(b) == ~Lines!HasLine(b, 1) /\ ~Lines!HasLine(b, 2)

(* _recompute_terminal reports a win exactly if there is a line, and then  *)
(* one of a player who has one.                                            *)
LEMMA RecomputeFindsLines ==
    ASSUME NEW b \in Board
    PROVE  LET g == Recompute(b)
           IN  /\ g.winner = Nobody <=> NoLine(b)
               /\ g.winner # Nobody => Lines!HasLine(b, g.winner)
               /\ g.is_draw <=> NoLine(b) /\ CheckDraw(b)
               /\ g.winner = Nobody => g.winning_cells = {}
               /\ g.winner # Nobody =>
                      /\ \A x \in g.winning_cells : b[x] = g.winner
                      /\ \E s \in Lines!Segments : s \subseteq g.winning_cells
<1> DEFINE wins == {cell \in Pieces(b) : FindWinningCells(b, cell, b[cell]) # {}}
           first == CHOOSE w \in wins : \A o \in wins : ScanIndex(w) <= ScanIndex(o)
           g == Recompute(b)
<1>1. wins = {} <=> NoLine(b)
  <2>1. ASSUME NEW p \in Player, Lines!HasLine(b, p) PROVE wins # {}
    <3>1. PICK s \in Lines!Segments : \A x \in s : b[x] = p
      BY <2>1 DEF Lines!HasLine
    <3>2. PICK x \in s : x \in Cell
      BY SegmentsHaveCells
    <3>3. b[x] = p /\ x \in Pieces(b)
      BY <3>1, <3>2 DEF Pieces, Player, Empty
    <3>4. FindWinningCells(b, x, p) # {}
      BY <3>1, <3>2, <3>3, SearchIsRight
    <3> QED BY <3>3, <3>4
  <2>2. ASSUME NEW w \in wins PROVE ~NoLine(b)
    <3>1. w \in Cell /\ b[w] \in Player
      BY DEF Pieces, Board, Player, Empty
    <3>2. Lines!HasLine(b, b[w])
      BY <3>1, SearchIsRight
    <3> QED BY <3>1, <3>2 DEF NoLine, Player
  <2> HIDE DEF wins
  <2> QED BY <2>1, <2>2 DEF NoLine, Player
<1>2. wins # {} => first \in wins
  <2>1. wins \in SUBSET Cell
    BY DEF Pieces
  <2> HIDE DEF wins
  <2> QED BY <2>1, ScanMeetsOneFirst
<1>3. wins # {} => /\ first \in Cell /\ b[first] \in Player
                   /\ FindWinningCells(b, first, b[first]) # {}
  <2> HIDE DEF first
  <2> QED BY <1>2 DEF Pieces, Board, Player, Empty
<1>4. /\ g.winner = IF wins = {} THEN Nobody ELSE b[first]
      /\ g.winning_cells = IF wins = {} THEN {} ELSE FindWinningCells(b, first, b[first])
      /\ g.is_draw = (wins = {} /\ CheckDraw(b))
  BY DEF Recompute
<1> HIDE DEF wins, first, g
<1>5. g.winner = Nobody <=> NoLine(b)
  BY <1>1, <1>3, <1>4 DEF Player, Nobody
<1>6. g.is_draw <=> NoLine(b) /\ CheckDraw(b)
  BY <1>1, <1>4
<1>7. ASSUME wins # {}
      PROVE  /\ Lines!HasLine(b, g.winner)
             /\ \A x \in g.winning_cells : b[x] = g.winner
             /\ \E s \in Lines!Segments : s \subseteq g.winning_cells
  BY <1>3, <1>4, <1>7, SearchIsRight
<1> QED BY <1>1, <1>4, <1>5, <1>6, <1>7 DEF g

(* A reloaded game is over exactly if the rules say so.                    *)
LEMMA RecomputeKnowsTheEnd ==
    ASSUME NEW b \in Board, Settled(b)
    PROVE  Over(Recompute(b)) <=> Lines!Result(b) # 0
<1>1. Lines!Result(b) = 0 <=> NoLine(b) /\ ~Lines!Full(b)
  BY DEF Lines!Result, NoLine
<1>2. /\ Recompute(b).winner = Nobody <=> NoLine(b)
      /\ Recompute(b).is_draw <=> NoLine(b) /\ CheckDraw(b)
  BY RecomputeFindsLines
<1>3. CheckDraw(b) <=> Lines!Full(b)
  BY TopRowIsEnough
<1> QED BY <1>1, <1>2, <1>3 DEF Over

(* A drop on a board without a line is a move of the rules, and what the   *)
(* search around the dropped piece and the draw test on the top row tell   *)
(* is what the rules say of the new board (game.py:67-75).                 *)
LEMMA DropPlaysByTheRules ==
    ASSUME NEW b \in Board, Settled(b), NoLine(b), NEW p \in Player, NEW c \in Col,
           EmptyRows(b, c) # {}
    PROVE  LET cell  == <<LowestEmptyRow(b, c), c>>
               after == Place(b, c, p)
           IN  /\ cell \in Lines!Cells /\ b[cell] = 0 /\ Lines!Supported(b, cell)
               /\ after \in Board /\ after = [b EXCEPT ![cell] = p] /\ after[cell] = p
               /\ Settled(after)
               /\ FindWinningCells(after, cell, p) # {} <=> Lines!HasLine(after, p)
               /\ \A q \in Player : q # p => ~Lines!HasLine(after, q)
               /\ CheckDraw(after) <=> Lines!Full(after)
<1> DEFINE low   == LowestEmptyRow(b, c)
           cell  == <<low, c>>
           after == Place(b, c, p)
<1>1. /\ cell \in Cell /\ b[cell] = Empty
      /\ after = [b EXCEPT ![cell] = p] /\ after \in Board
  BY PlaceFillsOneCell
<1>2. after[cell] = p /\ \A x \in Cell : x # cell => after[x] = b[x]
  BY <1>1 DEF Board
<1>3. low \in EmptyRows(b, c) /\ \A s \in EmptyRows(b, c) : s <= low
  BY LowestEmptyRowIsLowest
<1>4. Settled(after)
  BY PlaceSettles
<1>5. CheckDraw(after) <=> Lines!Full(after)
  BY <1>1, <1>4, TopRowIsEnough
<1> HIDE DEF low, after
<1>6. low \in Row /\ (low = Rows - 1 \/ low + 1 \in Row)
  BY <1>3 DEF EmptyRows, Row
<1>7. low + 1 \in Row => b[<<low + 1, c>>] # 0
  BY <1>3, <1>6 DEF EmptyRows, Empty, Row
<1>8. cell \in Lines!Cells /\ b[cell] = 0 /\ Lines!Supported(b, cell)
  BY <1>1, <1>6, <1>7 DEF Lines!Cells, Lines!Supported, Cell, Row, Col, Empty
<1> HIDE DEF cell
<1>9. ASSUME NEW q \in Player, NEW s \in Lines!Segments, \A x \in s : after[x] = q
      PROVE  cell \in s
  <2> SUFFICES ASSUME cell \notin s PROVE FALSE
    OBVIOUS
  <2>1. \A x \in s : b[x] = q
    BY <1>2, <1>9, SegmentsHaveCells
  <2> QED BY <2>1 DEF NoLine, Lines!HasLine, Player
<1>10. FindWinningCells(after, cell, p) # {} <=> Lines!HasLine(after, p)
  <2>1. FindWinningCells(after, cell, p) # {} => Lines!HasLine(after, p)
    BY <1>1, <1>2, SearchIsRight
  <2>2. ASSUME NEW s \in Lines!Segments, \A x \in s : after[x] = p
        PROVE  FindWinningCells(after, cell, p) # {}
    <3>1. cell \in s
      BY <1>9, <2>2
    <3> QED BY <1>1, <1>2, <2>2, <3>1, SearchIsRight
  <2> QED BY <2>1, <2>2 DEF Lines!HasLine
<1>11. ASSUME NEW q \in Player, q # p PROVE ~Lines!HasLine(after, q)
  BY <1>2, <1>9, <1>11 DEF Lines!HasLine
<1> QED BY <1>1, <1>2, <1>4, <1>5, <1>8, <1>10, <1>11 DEF after, cell, low

(* The object that drop leaves and the one that is later made from the     *)
(* board it leaves report the same result (game.py:67-75, 122-137).        *)
LEMMA DropAndReloadAgree ==
    ASSUME NEW b \in Board, Settled(b), NEW p \in Player, NEW c, CanDrop(Recompute(b), p, c)
    PROVE  LET g == Drop(Recompute(b), p, c)
           IN  /\ g.board = Place(b, c, p) /\ g \in Game /\ Settled(g.board)
               /\ Recompute(g.board).winner = g.winner
               /\ Recompute(g.board).is_draw = g.is_draw
<1> DEFINE old   == Recompute(b)
           g     == Drop(old, p, c)
           after == Place(b, c, p)
           new   == Recompute(after)
           cell  == <<LowestEmptyRow(b, c), c>>
           line  == FindWinningCells(after, cell, p)
<1>1. old \in Game /\ old.board = b
  BY RecomputeType
<1>2. c \in Col /\ EmptyRows(b, c) # {} /\ old.winner = Nobody
  BY <1>1 DEF CanDrop, Over
<1>3. NoLine(b)
  BY <1>2, RecomputeFindsLines
<1>4. g \in Game /\ g.board = after
  BY <1>1, DropType
<1>5. /\ g.winner = IF line # {} THEN p ELSE Nobody
      /\ g.is_draw = (line = {} /\ CheckDraw(after))
  BY <1>1, <1>2 DEF Drop
<1>6. /\ after \in Board /\ Settled(after)
      /\ line # {} <=> Lines!HasLine(after, p)
      /\ \A q \in Player : q # p => ~Lines!HasLine(after, q)
  BY <1>2, <1>3, DropPlaysByTheRules
<1>7. /\ new.winner = Nobody <=> NoLine(after)
      /\ new.winner # Nobody => Lines!HasLine(after, new.winner)
      /\ new.is_draw <=> NoLine(after) /\ CheckDraw(after)
  BY <1>6, RecomputeFindsLines
<1>8. new \in Game
  BY <1>6, RecomputeType
<1> HIDE DEF g, after, new, line
<1>9. NoLine(after) <=> line = {}
  BY <1>6 DEF NoLine, Player
<1>10. new.winner = g.winner
  <2>1. new.winner \in Player \cup {Nobody}
    BY <1>8 DEF Game
  <2> QED BY <1>5, <1>6, <1>7, <1>9, <2>1
<1>11. new.is_draw = g.is_draw
  <2>1. new.is_draw \in BOOLEAN /\ g.is_draw \in BOOLEAN
    BY <1>4, <1>8 DEF Game
  <2>2. new.is_draw <=> g.is_draw
    BY <1>5, <1>7, <1>9
  <2> QED BY <2>1, <2>2
<1> QED BY <1>4, <1>6, <1>10, <1>11 DEF g, after, new

=============================================================================
