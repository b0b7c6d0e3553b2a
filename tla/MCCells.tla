------------------------------ MODULE MCCells ------------------------------
(***************************************************************************)
(* Builders of three bytes of three bits (eight bits can be used), words   *)
(* of two bytes.  All contents are reached bit by bit; the values stored   *)
(* at once are a few patterns.                                             *)
(***************************************************************************)
EXTENDS CellReaders

CONSTANTS cellX, cellY

Pattern(n, k) == [i \in 1..n |-> IF (i - 1) % k = 0 THEN 1 ELSE 0]
MCRefCells == {cellX, cellY}
MCValues == {Zeros(WORD_BITS), Ones(WORD_BITS), Pattern(WORD_BITS, 2), Pattern(WORD_BITS, 5),
             ToBits(1, WORD_BITS)}
MCRaw == {<<>>, Pattern(BYTE, 2), Ones(2 * BYTE), Pattern(CAPACITY * BYTE, 3), Ones(CAPACITY * BYTE)}
MCNumbers == {-65, -64, -33, -32, -5, -4, -1, 0, 1, 3, 4, 31, 32, 63, 64, 100, 255}
=============================================================================
