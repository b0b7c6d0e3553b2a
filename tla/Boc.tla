-------------------------------- MODULE Boc --------------------------------
(***************************************************************************)
(* The bag of cells of src/boc: BocHeader of ser.rs, which lays the cells  *)
(* of several roots out, and BocHeader of de.rs, which reads them back.    *)
(*                                                                         *)
(* An encoded BOC is the record of its header fields and raw cells with    *)
(* its length in bytes: the fields are numbers of their own, and every     *)
(* size is the number of bytes the encoder writes and the decoder skips.   *)
(* A cell that was itself decoded from a BOC with stored hashes has        *)
(* store_hashes in its descriptor; Flagged is the set of these cells.      *)
(***************************************************************************)
EXTENDS CellTree, TLC

CONSTANTS Flagged,         \* hashes of the cells with store_hashes in d1
          WriterChunk,     \* CELLS_CHUNK_SIZE of encode_to_writer (1000)
          RayonChunk       \* CELLS_CHUNK_SIZE of encode_rayon (5000)

MAX_ROOTS == 32

\* The bytes of a number: 8 - leading_zeros / 8.
number_of_bytes_to_fit(l) == Min({n \in 0..4 : n = 4 \/ l < 2^(8 * n)})

-----------------------------------------------------------------------------
(* ser::BocHeader                                                           *)

EmptyHeader ==
  [root_rev_indices |-> <<>>, rev_indices |-> <<>>, rev_cells |-> <<>>, total_data_size |-> 0,
   reference_count |-> 0, cell_count |-> 0, without_hashes |-> FALSE, include_crc |-> FALSE]

store_hashes(cell) == repr_hash(cell) \in Flagged
hashes_len(cell) == (level_of(cell.mask) + 1) * (32 + 2)
byte_len_full(cell, without) ==
  byte_len(cell.bits) + (IF ~without /\ store_hashes(cell) THEN hashes_len(cell) ELSE 0)

\* fill_recursive, and fill_deep, which keeps the same order on a stack of its own.
RECURSIVE fill_cells(_, _)
fill_cells(h, cell) ==
  LET step(acc, child) == IF repr_hash(child) \in DOMAIN acc.rev_indices THEN acc ELSE fill_cells(acc, child)
      b == FoldLeft(step, h, cell.refs)
  IN [b EXCEPT !.rev_indices = @ @@ (repr_hash(cell) :> b.cell_count),
               !.rev_cells = Append(@, cell),
               !.total_data_size = @ + byte_len_full(cell, b.without_hashes),
               !.reference_count = @ + Len(cell.refs),
               !.cell_count = @ + 1]

\* A root that is there already gets the index it has.
add_root(h, root) ==
  IF repr_hash(root) \in DOMAIN h.rev_indices
    THEN [h EXCEPT !.root_rev_indices = Append(@, h.rev_indices[repr_hash(root)])]
  ELSE LET b == fill_cells(h, root) IN [b EXCEPT !.root_rev_indices = Append(@, b.cell_count - 1)]

with_crc(h, on) == [h EXCEPT !.include_crc = on]
without_hashes(h, on) == [h EXCEPT !.without_hashes = on]
\* The options stay.
clear(h) ==
  [EmptyHeader EXCEPT !.without_hashes = h.without_hashes, !.include_crc = h.include_crc]
\* into_cache empties the maps and with_root_and_cache starts over with them.
with_root_and_cache(root) == add_root(EmptyHeader, root)

compute_stats(h) ==
  LET ref_size == number_of_bytes_to_fit(h.cell_count)
      total_cells_size == h.total_data_size + 2 * h.cell_count + ref_size * h.reference_count
      offset_size == number_of_bytes_to_fit(total_cells_size)
  IN [ref_size |-> ref_size, offset_size |-> offset_size, total_cells_size |-> total_cells_size,
      total_size |-> 4 + 2 + ref_size * (3 + Len(h.root_rev_indices)) + offset_size + total_cells_size
                     + (IF h.include_crc THEN 4 ELSE 0)]

\* compute_d2 and the end of the data: the tag bit after the last bit of data.
d2(bits) == 2 * (bits \div 8) + (IF bits % 8 = 0 THEN 0 ELSE 1)
trailing_zeros(bits) == IF bits % 8 = 0 THEN 0 ELSE 7 - (bits % 8)

\* Mutant: references are written as the encoder numbers the cells.
MutRawCell(h, cell) ==
  [exotic |-> is_exotic(cell.type), mask |-> cell.mask, d2 |-> d2(cell.bits), tz |-> trailing_zeros(cell.bits),
   data |-> cell.data, stored |-> cell.stored, hashed |-> store_hashes(cell) /\ ~h.without_hashes,
   refs |-> [i \in DOMAIN cell.refs |-> h.rev_indices[repr_hash(cell.refs[i])]]]

\* One round of encode_cells_chunk.
raw_cell(h, cell) ==
  [exotic |-> is_exotic(cell.type), mask |-> cell.mask, d2 |-> d2(cell.bits), tz |-> trailing_zeros(cell.bits),
   data |-> cell.data, stored |-> cell.stored, hashed |-> store_hashes(cell) /\ ~h.without_hashes,
   refs |-> [i \in DOMAIN cell.refs |-> h.cell_count - h.rev_indices[repr_hash(cell.refs[i])] - 1]]

encode_cells_chunk(h, chunk) == [i \in DOMAIN chunk |-> raw_cell(h, chunk[Len(chunk) + 1 - i])]

\* The chunks of a slice from its end, the last one possibly shorter.
RECURSIVE rchunks(_, _)
rchunks(s, n) ==
  IF Len(s) <= n THEN <<s>>
  ELSE <<SubSeq(s, Len(s) - n + 1, Len(s))>> \o rchunks(SubSeq(s, 1, Len(s) - n), n)

\* encode, encode_to_writer and encode_rayon.
encode_cells(h, how) ==
  LET chunks == CASE how = "writer" -> rchunks(h.rev_cells, WriterChunk)
                  [] how = "rayon" /\ Len(h.rev_cells) >= 2 * RayonChunk -> rchunks(h.rev_cells, RayonChunk)
                  [] OTHER -> <<h.rev_cells>>
  IN FlattenSeq([i \in DOMAIN chunks |-> encode_cells_chunk(h, chunks[i])])

data_len(raw) == raw.d2 \div 2 + (raw.d2 % 2)
raw_hashes_len(raw) == IF raw.hashed THEN (level_of(raw.mask) + 1) * (32 + 2) ELSE 0
raw_len(raw, ref_size) == 2 + raw_hashes_len(raw) + data_len(raw) + Len(raw.refs) * ref_size

\* encode_header, the cells and encode_crc.  `counted` is the size that the debug assertion
\* at the end of an encoder compares with total_size: encode and encode_rayon take it from the
\* target, encode_to_writer adds up its chunks and writes the checksum past its counter.
encode(h, how) ==
  LET stats == compute_stats(h)
      cells == encode_cells(h, how)
      body_len == 6 + stats.ref_size * (3 + Len(h.root_rev_indices)) + stats.offset_size
                  + FoldLeft(LAMBDA n, raw : n + raw_len(raw, stats.ref_size), 0, cells)
      len == body_len + (IF h.include_crc THEN 4 ELSE 0)
  IN [encoder |-> how, counted |-> IF how = "writer" THEN body_len ELSE len, len |-> len,
      tag |-> "generic", has_index |-> FALSE, has_crc |-> h.include_crc, has_cache_bits |-> FALSE,
      ref_size |-> stats.ref_size, offset_size |-> stats.offset_size,
      cell_count |-> h.cell_count, root_count |-> Len(h.root_rev_indices), absent_count |-> 0,
      total_cells_size |-> stats.total_cells_size,
      roots |-> [i \in DOMAIN h.root_rev_indices |-> h.cell_count - h.root_rev_indices[i] - 1],
      cells |-> cells]

-----------------------------------------------------------------------------
(* de::BocHeader                                                            *)

\* The checks of decode before the cells, in the order of the code.  `at` is the
\* offset behind the root indices and the index.
header_ok(b, min_roots, max_roots) ==
  LET multi == b.tag = "generic"
      roots_at == 6 + 3 * b.ref_size + b.offset_size
      min_size == b.cell_count * (2 + b.ref_size) - b.root_count * b.ref_size
      max_size == b.cell_count * (2 + 4 * (2 + 32) + 128 + MAX_REF_COUNT * b.ref_size)
      at == roots_at + b.root_count * b.ref_size
  IN /\ b.len >= 6
     /\ ~(b.has_cache_bits /\ ~b.has_index)
     /\ b.ref_size \in 1..4 /\ b.offset_size \in 1..8
     /\ b.len >= roots_at
     /\ b.root_count > 0 /\ (multi \/ b.root_count = 1)
     /\ b.root_count + b.absent_count <= b.cell_count /\ b.absent_count = 0
     /\ b.root_count >= min_roots /\ b.root_count <= max_roots
     /\ b.total_cells_size >= min_size /\ b.total_cells_size <= max_size
     /\ b.len >= at
     /\ multi => \A i \in 1..b.root_count : b.roots[i] < b.cell_count
     /\ b.len >= at + (IF b.has_index THEN b.cell_count * b.offset_size ELSE 0)
                 + b.total_cells_size + (IF b.has_crc THEN 4 ELSE 0)
cells_at(b) ==
  6 + 3 * b.ref_size + b.offset_size + b.root_count * b.ref_size
  + (IF b.has_index THEN b.cell_count * b.offset_size ELSE 0)

\* read_raw_cell_from_ptr: the length of a raw cell, with `left` bytes to go.
raw_ok(raw, left, ref_size) ==
  /\ left >= 2
  /\ Len(raw.refs) <= MAX_REF_COUNT
  /\ ~(raw.hashed /\ raw.exotic /\ raw.refs = <<>> /\ raw.mask # {})
  /\ left >= raw_len(raw, ref_size)
  /\ ~(data_len(raw) > 0 /\ raw.d2 % 2 = 1 /\ raw.tz >= 7)

\* The loop over the cells and the checks of total_cells_size and the checksum.
decode(b, min_roots, max_roots) ==
  LET step(at, raw) ==
        IF at # Err /\ raw_ok(raw, b.len - at, b.ref_size) THEN at + raw_len(raw, b.ref_size) ELSE Err
      end == FoldLeft(step, cells_at(b), b.cells)
  IN IF ~header_ok(b, min_roots, max_roots) \/ Len(b.cells) # b.cell_count THEN Err
     ELSE IF end = Err THEN Err
     ELSE IF cells_at(b) + b.total_cells_size # end THEN Err
     ELSE IF b.has_crc /\ b.len < end + 4 THEN Err
     ELSE [cells |-> b.cells, roots |-> IF b.tag = "generic" THEN b.roots ELSE <<0>>]

\* CellParts::from_raw_cell: the references are cells that come later in the file,
\* built before; the hashes in the file are skipped.
from_raw_cell(raw, built, cell_count) ==
  LET at(i) == cell_count - raw.refs[i] - 1
      refs == [i \in DOMAIN raw.refs |-> built[at(i) + 1]]
      bits == IF raw.d2 % 2 = 0 THEN 8 * data_len(raw)
              ELSE IF data_len(raw) = 0 THEN 0 ELSE 8 * data_len(raw) - raw.tz - 1
  IN IF \E i \in DOMAIN raw.refs : raw.refs[i] >= cell_count \/ at(i) >= Len(built) THEN Err
     ELSE finalize_cell([type |-> cell_type(raw.exotic, Len(raw.refs), raw.mask), data |-> raw.data,
                         bits |-> bits, stored |-> raw.stored, stored_mask |-> raw.mask,
                         mask |-> raw.mask, refs |-> refs])

\* finalize: from the last cell of the file to the first.
push_built(built, cell) == IF built = Err \/ cell = Err THEN Err ELSE Append(built, cell)
finalize(d) ==
  LET n == Len(d.cells)
      step(built, i) ==
        push_built(built, IF built = Err THEN Err ELSE from_raw_cell(d.cells[n + 1 - i], built, n))
  IN FoldLeft(step, <<>>, [i \in 1..n |-> i])

\* Boc::decode_ext and decode_pair_ext: the roots, in the order they were added.
roots_of(d, built) ==
  IF built = Err THEN Err ELSE [i \in DOMAIN d.roots |-> built[Len(built) - d.roots[i]]]
finalized_roots(d) == IF d = Err THEN Err ELSE roots_of(d, finalize(d))
decode_roots(b, min_roots, max_roots) == finalized_roots(decode(b, min_roots, max_roots))
=============================================================================
