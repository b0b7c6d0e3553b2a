------------------------------ MODULE BitCell ------------------------------
(***************************************************************************)
(* What a builder and a slice promise: a builder holds a string of bits    *)
(* and a list of references, and a store appends to both or to neither     *)
(* (only a number with its length leaves the length when the number does   *)
(* not fit); a slice holds what is still to be read of them.  `call` says  *)
(* what the last operation was asked, `got` what it gave back.             *)
(***************************************************************************)
EXTENDS Integers, Sequences

CONSTANTS MaxBits, MaxRefs,
          ByteBits,   \* the unit of the length of a number
          Num(_)      \* the number of a list of bits

VARIABLES written, children,      \* of the builder
          unread, unread_refs,    \* of the slice
          call, got

vars == <<written, children, unread, unread_refs, call, got>>

Init == /\ written = <<>> /\ children = <<>> /\ unread = <<>> /\ unread_refs = <<>>
        /\ call = [op |-> "new"] /\ got = TRUE

First(s, n) == SubSeq(s, 1, n)
Without(s, n) == SubSeq(s, n + 1, Len(s))
Last(s, n) == SubSeq(s, Len(s) - n + 1, Len(s))

\* Everything asked for is stored, or nothing is.
Store(bits, refs) ==
    LET fits == Len(written) + Len(bits) <= MaxBits /\ Len(children) + Len(refs) <= MaxRefs
    IN /\ call' = [op |-> "store", bits |-> bits, refs |-> refs]
       /\ got' = fits
       /\ written' = IF fits THEN written \o bits ELSE written
       /\ children' = IF fits THEN children \o refs ELSE children
       /\ UNCHANGED <<unread, unread_refs>>

\* A number with its length: too long, no room for the length, no room for the
\* number (the length stays), or both are stored.
StoreVar(len, bits, fits_len) ==
    LET len_fits == fits_len /\ Len(written) + Len(len) <= MaxBits
        fits == len_fits /\ Len(written) + Len(len) + Len(bits) <= MaxBits
    IN /\ call' = [op |-> "store_var", len |-> len, bits |-> bits, fits_len |-> fits_len]
       /\ got' = fits
       /\ written' = IF fits THEN written \o len \o bits ELSE IF len_fits THEN written \o len ELSE written
       /\ UNCHANGED <<children, unread, unread_refs>>

Prepend(bits) ==
    /\ call' = [op |-> "prepend", bits |-> bits]
    /\ got' = (Len(written) + Len(bits) <= MaxBits)
    /\ written' = IF got' THEN bits \o written ELSE written
    /\ UNCHANGED <<children, unread, unread_refs>>

Rewind(n) ==
    /\ call' = [op |-> "rewind", bits |-> n]
    /\ got' = (n <= Len(written))
    /\ written' = IF got' THEN First(written, Len(written) - n) ELSE written
    /\ UNCHANGED <<children, unread, unread_refs>>

Replace(refs) ==
    /\ call' = [op |-> "set_references", refs |-> refs] /\ got' = TRUE
    /\ children' = refs
    /\ UNCHANGED <<written, unread, unread_refs>>

\* The builder is used up; all of its contents can be read.
Build ==
    /\ call' = [op |-> "build"] /\ got' = TRUE
    /\ unread' = written /\ unread_refs' = children
    /\ written' = <<>> /\ children' = <<>>

\* n bits and m references are kept or dropped at one end, or given back.
Window(op, n, m) ==
    LET fits == n <= Len(unread) /\ m <= Len(unread_refs)
        rest == Len(unread) - n
        rest_refs == Len(unread_refs) - m
        new_bits == CASE op \in {"skip_first", "split_prefix"} -> Without(unread, n)
                      [] op = "only_first" -> First(unread, n)
                      [] op \in {"skip_last", "split_suffix"} -> First(unread, rest)
                      [] op = "only_last" -> Last(unread, n)
        new_refs == CASE op \in {"skip_first", "split_prefix"} -> Without(unread_refs, m)
                      [] op = "only_first" -> First(unread_refs, m)
                      [] op \in {"skip_last", "split_suffix"} -> First(unread_refs, rest_refs)
                      [] op = "only_last" -> Last(unread_refs, m)
        taken == CASE op = "split_prefix" -> <<First(unread, n), First(unread_refs, m)>>
                   [] op = "split_suffix" -> <<Last(unread, n), Last(unread_refs, m)>>
                   [] OTHER -> TRUE
    IN /\ call' = [op |-> op, bits |-> n, refs |-> m]
       /\ got' = IF fits THEN taken ELSE FALSE
       /\ unread' = IF fits THEN new_bits ELSE unread
       /\ unread_refs' = IF fits THEN new_refs ELSE unread_refs
       /\ UNCHANGED <<written, children>>

\* The next n bits are given back; max is the width of the result.
Load(n, max) ==
    LET fits == n <= Len(unread) /\ n <= max
    IN /\ call' = [op |-> "load", bits |-> n, max |-> max]
       /\ got' = IF fits THEN First(unread, n) ELSE FALSE
       /\ unread' = IF fits THEN Without(unread, n) ELSE unread
       /\ UNCHANGED <<written, children, unread_refs>>

\* A length of n bits, counted in bytes, and that many bits; the length stays
\* read when the rest is missing.
LoadVar(n) ==
    LET len == Num(First(unread, n)) * ByteBits
        after == Without(unread, n)
    IN /\ call' = [op |-> "load_var", bits |-> n]
       /\ UNCHANGED <<written, children, unread_refs>>
       /\ IF n > Len(unread) THEN got' = FALSE /\ UNCHANGED unread
          ELSE IF len > Len(after) THEN got' = FALSE /\ unread' = after
          ELSE got' = First(after, len) /\ unread' = Without(after, len)

LoadReference ==
    /\ call' = [op |-> "load_reference"]
    /\ got' = IF unread_refs = <<>> THEN FALSE ELSE Head(unread_refs)
    /\ unread_refs' = IF unread_refs = <<>> THEN <<>> ELSE Tail(unread_refs)
    /\ UNCHANGED <<written, children, unread>>

\* A number that has no place in the width that is asked for.
Refuse ==
    /\ call' = [op |-> "refuse"] /\ got' = FALSE
    /\ UNCHANGED <<written, children, unread, unread_refs>>

WindowOps == {"skip_first", "only_first", "skip_last", "only_last", "split_prefix", "split_suffix"}

Next ==
    CASE call'.op = "store" -> Store(call'.bits, call'.refs)
      [] call'.op = "store_var" -> StoreVar(call'.len, call'.bits, call'.fits_len)
      [] call'.op = "refuse" -> Refuse
      [] call'.op = "prepend" -> Prepend(call'.bits)
      [] call'.op = "rewind" -> Rewind(call'.bits)
      [] call'.op = "set_references" -> Replace(call'.refs)
      [] call'.op = "build" -> Build
      [] call'.op \in WindowOps -> Window(call'.op, call'.bits, call'.refs)
      [] call'.op = "load" -> Load(call'.bits, call'.max)
      [] call'.op = "load_var" -> LoadVar(call'.bits)
      [] call'.op = "load_reference" -> LoadReference

Spec == Init /\ [][Next]_vars
=============================================================================
