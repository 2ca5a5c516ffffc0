------------------------------ MODULE TiledLayout ------------------------------
(***************************************************************************)
(* The HTP0-REPACK layout of a Q4_0 embedding table and the address        *)
(* arithmetic with which get_rows_thread_q4_0_tiled reads one row of it    *)
(* back (patches/0001, htp/get-rows-ops.c).                                *)
(*                                                                         *)
(* The table has Vocab rows of NKTiles * TileCols elements.  It is stored  *)
(* as tiles of TileRows x TileCols elements (32 x 32 in the code); tile    *)
(* (col_tile, k_tile) is number col_tile * NKTiles + k_tile.  A tile holds *)
(* 4-bit quants, two to a byte and packed column-major, followed by one    *)
(* scale per row.  Element values are abstracted to the coordinates of the *)
(* element they belong to, so reading the wrong nibble, byte, scale or     *)
(* tile yields the wrong coordinates.                                      *)
(***************************************************************************)
EXTENDS Integers

CONSTANTS
  Vocab,     \* ne01: number of rows of the table
  NKTiles,   \* n_k_tiles, packed by the host in kernel_params[1]
  TileRows,  \* rows per tile (32)
  TileCols   \* elements of a row per tile (32)

ASSUME LayoutAssumption ==
  /\ Vocab \in Nat \ {0}
  /\ NKTiles \in Nat \ {0}
  /\ TileRows \in Nat \ {0}
  /\ TileCols \in Nat \ {0}
  /\ TileCols % 2 = 0

Rows   == 0 .. Vocab - 1
KTiles == 0 .. NKTiles - 1
Elems  == 0 .. TileCols - 1

--------------------------------------------------------------------------------
(***************************************************************************)
(* What the buffer holds.  The repacking itself is done by the Hexagon     *)
(* buffer's set_tensor, which is not in this repository; the layout is the *)
(* one the kernel's comment states and the host's kernel_params assume.    *)
(***************************************************************************)

\* The table element <<row, column>> whose quant is nibble nib of a byte.
QuantCell(tile, byte, nib) ==
  << (tile \div NKTiles) * TileRows + (byte % TileRows),
     (tile % NKTiles) * TileCols + 2 * (byte \div TileRows) + nib >>

\* The <<row, k_tile>> whose scale is the s-th fp16 after the quants of a tile.
ScaleCell(tile, s) ==
  << (tile \div NKTiles) * TileRows + s, tile % NKTiles >>

--------------------------------------------------------------------------------
(***************************************************************************)
(* How the kernel reads it.                                                *)
(***************************************************************************)

\* Mutant of TileIndex: tiles numbered k-tile first, with n_col_tiles as stride.
TileIndexTransposed(i01, kt) == kt * ((Vocab + TileRows - 1) \div TileRows) + i01 \div TileRows

\* (ct * n_k_tiles + kt), the tile of row i01 at k-tile kt.
TileIndex(i01, kt) == (i01 \div TileRows) * NKTiles + kt

RowInTile(i01) == i01 % TileRows

\* cp * 32 + row_in_tile with cp = e >> 1.
QuantByte(i01, e) == (e \div 2) * TileRows + RowInTile(i01)

\* (e & 1) ? byte >> 4 : byte & 0xF
QuantNibble(e) == e % 2

\* What the inner loop writes to out[0..31] for one k-tile: every element is a
\* quant times the scale read once for the tile.  (A scale below the normal range of
\* fp16 counts as zero; the cell says which scale it is, not its value.)
DecodeBlock(i01, kt) ==
  [e \in Elems |->
     [quant |-> QuantCell(TileIndex(i01, kt), QuantByte(i01, e), QuantNibble(e)),
      scale |-> ScaleCell(TileIndex(i01, kt), RowInTile(i01))]]

\* The reference: k-tile kt of row r, element by element.
TableBlock(r, kt) ==
  [e \in Elems |-> [quant |-> <<r, kt * TileCols + e>>, scale |-> <<r, kt>>]]

TableRow(r) == [kt \in KTiles |-> TableBlock(r, kt)]
================================================================================
