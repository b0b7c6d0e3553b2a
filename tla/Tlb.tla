-------------------------------- MODULE Tlb --------------------------------
(***************************************************************************)
(* How values are written to cells and read back.                          *)
(*                                                                         *)
(* A type is a pair of formats, [st |-> ..., ld |-> ...]: what its         *)
(* `Store::store_into` appends to a `CellBuilder`, and what its            *)
(* `Load::load_from` takes from a `CellSlice`.  A format is a sequence of  *)
(* instructions, one per call of the builder or of the slice, in the order *)
(* of the calls.  `#[derive(Store, Load)]` (proc/src) generates both from  *)
(* the one list of fields; the hand-written impls state them separately.   *)
(*                                                                         *)
(* A cell is a sequence of items and a sequence of cells.  Flags, tags and *)
(* small integers are stored bit by bit, an item <<1, bit>> each; what no  *)
(* format looks into (a hash, a logical time) is one item <<width, token>>,*)
(* where the token names the field it was written from, so that two fields *)
(* read in the wrong order are told apart.                                 *)
(***************************************************************************)
EXTENDS Integers, Sequences, FiniteSets, TLC, SequencesExt, FiniteSetsExt

MAX_BIT_LEN == 1023
MAX_REF_COUNT == 4

----------------------------------------------------------------------------
(* Instructions.                                                           *)

\* A constant of a few bits, and one of 16 or 32 bits nothing reads in parts.
Tag(w, x) == [op |-> "tag", w |-> w, x |-> x]
Mark(w, x) == [op |-> "mark", w |-> w, x |-> x]
\* The contents of such a constant, or of a field, that is zero.
Zero == <<"zero">>
\* A field of w bits that is not looked into, and one that is (with samples).
U(n, w) == [op |-> "uint", n |-> n, w |-> w]
B(n, w, s) == [op |-> "bits", n |-> n, w |-> w, s |-> s]
Flag(n) == B(n, 1, {0, 1})
\* A VarUint: the number of bytes in lw bits, then the bytes.
Var(n, lw, max) == [op |-> "var", n |-> n, lw |-> lw, s |-> {0, max}, unit |-> 8]
\* A bit string with its length in lw bits.
Raw(n, lw, s) == [op |-> "var", n |-> n, lw |-> lw, s |-> s, unit |-> 1]
\* A VarUint whose value is looked at, and data as long as an earlier field says.
VarNum(n, lw, s) == [op |-> "num", n |-> n, lw |-> lw, s |-> s]
Span(n, f) == [op |-> "span", n |-> n, f |-> f]
\* A value of type t: in place; in a cell of its own; behind a presence bit.
Sub(n, t) == [op |-> "sub", n |-> n, t |-> t]
Ref(n, t) == [op |-> "ref", n |-> n, t |-> t]
Opt(n, t) == [op |-> "opt", n |-> n, t |-> t]
\* A value of type t that is there when an earlier field is one of xs.
When(n, f, xs, t) == [op |-> "when", n |-> n, f |-> f, xs |-> xs, t |-> t]
\* Several fields of the same structure in a cell of their own.
Child(t) == [op |-> "child", n |-> "", t |-> t]
\* A cell as it is, and a presence bit before it.
Tree(n) == [op |-> "cell", n |-> n]
OptTree(n) == Opt(n, [st |-> <<Tree("root")>>, ld |-> <<Tree("root")>>])
Dict(n) == OptTree(n)
\* Everything that is left of the cell: <<items, cells>>, of which samples are s.
Rest(n, s) == [op |-> "rest", n |-> n, s |-> s]
\* One of several layouts: vs orders the variants, st gives each one's format
\* and ld the decisions by which `load_from` tells them apart.
Enum(n, vs, st, ld) == [op |-> "enum", n |-> n, vs |-> vs, st |-> st, ld |-> ld]
Node(w, arms) == [w |-> w, skip |-> w, arms |-> arms, mark |-> FALSE]
Peek(w, arms) == [w |-> w, skip |-> 0, arms |-> arms, mark |-> FALSE]
Leaf(v, f) == [w |-> 0, is |-> v, f |-> f]
If(no, yes) == Node(1, (0 :> no) @@ (1 :> yes))
\* A decision by a constant that nothing reads in parts.
Which(w, arms) == [w |-> w, skip |-> 0, arms |-> arms, mark |-> TRUE]
\* The layouts `load_from` accepts for a structure that is no enum.
Switch(ld) == [op |-> "enum", n |-> "", ld |-> ld]
\* A structure with several tags of w bits: fs lists the fields, each with the
\* index of the first tag that has it and the value it has without it.
Versions(w, tags, fs) ==
    [op |-> "versions", n |-> "", w |-> w, tags |-> tags, fs |-> fs, mark |-> FALSE]
Marks(w, tags, fs) == [Versions(w, tags, fs) EXCEPT !.mark = TRUE]
Since(i, k, d) == [i |-> i, k |-> k, d |-> d]
Always(i) == Since(i, 0, <<>>)
All(f) == [j \in DOMAIN f |-> Always(f[j])]
\* A field that is not in the cell: the value `load_from` gives it. And bits of
\* the cell that are in no field of the value.
Put(n, x) == [op |-> "put", n |-> n, x |-> x]
Drop(n) == [op |-> "drop", n |-> n]
\* A field of the value that `store_into` does not write.
Lost(n) == [op |-> "lost", n |-> n]
\* A number that is compared with others: w bits of which the last 4 are looked at.
Small(n, w, s) == <<Mark(w - 4, Zero), B(n, 4, s)>>
\* `tlb(validate_with = ...)` and the checks of hand-written impls.
Check(rel, a, b) == [op |-> "check", n |-> "", rel |-> rel, a |-> a, b |-> b]

Derived(f) == [st |-> f, ld |-> f]
Validated(f, c) == [st |-> <<c>> \o f, ld |-> f \o <<c>>]
Written(s, l) == [st |-> s, ld |-> l]
OneOf(vs, st, ld) == Derived(<<Enum("is", vs, st, ld)>>)

Holds(i, v) ==
    CASE i.rel = "le" -> v[i.a] <= v[i.b]
      [] i.rel = "lt" -> v[i.a] < v[i.b]
      [] i.rel = "atmost" -> v[i.a] <= i.b
      [] i.rel = "atleast" -> v[i.a] >= i.b
      [] i.rel = "zero" -> v[i.a] = 0 \/ v[i.b] = 0
      [] i.rel = "nonzero" -> v[i.a] # Zero
      [] i.rel = "needs" -> v[i.a] = <<>> \/ v[i.b] # Zero
      [] i.rel = "together" -> (v[i.a] = <<>>) = (v[i.b] = <<>>)

----------------------------------------------------------------------------
(* The builder: items, their total width, cells, and the first error.      *)

NewBuilder == [b |-> <<>>, w |-> 0, r |-> <<>>, err |-> "none"]
Fail(p, e) == [p EXCEPT !.err = IF @ = "none" THEN e ELSE @]

store_uint(bld, w, x) ==
    IF bld.err = "none" /\ bld.w + w <= MAX_BIT_LEN
    THEN [bld EXCEPT !.b = IF w = 0 THEN @ ELSE Append(@, <<w, x>>), !.w = @ + w]
    ELSE Fail(bld, "overflow")

store_small_uint(bld, w, x) ==
    IF bld.err = "none" /\ bld.w + w <= MAX_BIT_LEN
    THEN [bld EXCEPT !.b = @ \o [k \in 1..w |-> <<1, (x \div 2^(w - k)) % 2>>], !.w = @ + w]
    ELSE Fail(bld, "overflow")

store_reference(bld, c) ==
    IF bld.err = "none" /\ c.err = "none" /\ Len(bld.r) < MAX_REF_COUNT
    THEN [bld EXCEPT !.r = Append(@, [b |-> c.b, r |-> c.r])]
    ELSE Fail(bld, IF c.err = "none" THEN "overflow" ELSE c.err)

\* The least number of bytes that hold x.
ByteLen(x) == CHOOSE k \in 0..4 : x < 256^k /\ (k = 0 \/ x >= 256^(k - 1))

\* The cell a token stands for.
TreeOf(x) == [NewBuilder EXCEPT !.b = << <<8, x>> >>, !.w = 8]
TokenOf(c) == IF Len(c.b) = 1 /\ c.b[1][1] = 8 THEN c.b[1][2] ELSE <<"another cell">>

\* The highest `since_tag` among the fields that differ from their defaults.
store_tags_versioned(i, v) ==
    Max({0} \union {i.fs[j].k : j \in {j \in DOMAIN i.fs :
                        i.fs[j].k > 0 /\ v[i.fs[j].i.n] # i.fs[j].d}})

RECURSIVE store_op(_, _, _)
build_store(bld, f, v) == FoldLeft(LAMBDA acc, i : store_op(acc, i, v), bld, f)

store_op(bld, i, v) ==
    CASE i.op = "tag" -> store_small_uint(bld, i.w, i.x)
      [] i.op = "mark" -> store_uint(bld, i.w, i.x)
      [] i.op = "uint" -> store_uint(bld, i.w, v[i.n])
      [] i.op = "bits" -> store_small_uint(bld, i.w, v[i.n])
      [] i.op = "var" -> store_uint(store_small_uint(bld, i.lw, v[i.n].len),
                                    i.unit * v[i.n].len, v[i.n].x)
      [] i.op = "num" -> store_small_uint(store_small_uint(bld, i.lw, ByteLen(v[i.n])),
                                          8 * ByteLen(v[i.n]), v[i.n])
      [] i.op = "span" -> store_uint(bld, v[i.f], v[i.n])
      [] i.op = "sub" -> build_store(bld, i.t.st, v[i.n])
      [] i.op = "opt" -> IF v[i.n] = <<>> THEN store_small_uint(bld, 1, 0)
                         ELSE build_store(store_small_uint(bld, 1, 1), i.t.st, v[i.n][1])
      [] i.op = "when" -> IF v[i.n] = <<>> THEN bld ELSE build_store(bld, i.t.st, v[i.n][1])
      [] i.op = "ref" -> store_reference(bld, build_store(NewBuilder, i.t.st, v[i.n]))
      [] i.op = "child" -> store_reference(bld, build_store(NewBuilder, i.t.st, v))
      [] i.op = "cell" -> store_reference(bld, TreeOf(v[i.n]))
      [] i.op = "rest" -> FoldLeft(LAMBDA acc, it : store_uint(acc, it[1], it[2]),
                                   [bld EXCEPT !.r = @ \o v[i.n][2]], v[i.n][1])
      [] i.op = "enum" -> build_store(bld, i.st[v[i.n].is], v[i.n].v)
      [] i.op = "versions" ->
            LET k == store_tags_versioned(i, v)
            IN FoldLeft(LAMBDA acc, s : IF s.k <= k THEN store_op(acc, s.i, v) ELSE acc,
                        IF i.mark THEN store_uint(bld, i.w, i.tags[k + 1])
                        ELSE store_small_uint(bld, i.w, i.tags[k + 1]), i.fs)
      [] i.op \in {"put", "lost"} -> bld
      [] i.op = "check" -> IF Holds(i, v) THEN bld ELSE Fail(bld, "invalid")

Store(t, v) == build_store(NewBuilder, t.st, v)

----------------------------------------------------------------------------
(* The slice: what is left of the cell, the value read so far, the error.  *)
(* "misread" is not an error of the code: a read that does not start and   *)
(* end where writes did, whose result depends on the opaque contents.      *)

NoFields == [n \in {} |-> 0]
SliceOf(c) == [b |-> c.b, r |-> c.r, v |-> NoFields, err |-> "none"]
With(p, n, x) == [p EXCEPT !.v = (n :> x) @@ @]

\* The next w one-bit items as a number; or why they cannot be had.
CanBits(p, w) == Len(p.b) >= w /\ \A k \in 1..w : p.b[k][1] = 1
Num(p, w) == FoldLeft(LAMBDA acc, it : 2 * acc + it[2], 0, SubSeq(p.b, 1, w))
Skip(p, k) == [p EXCEPT !.b = SubSeq(@, k + 1, Len(@))]
NoBits(p, w) == Fail(p, IF \A k \in 1..Len(p.b) : k <= w => p.b[k][1] = 1
                        THEN "underflow" ELSE "misread")

load_uint(p, n, w) ==
    IF w = 0 THEN With(p, n, <<>>)
    ELSE IF p.b = <<>> THEN Fail(p, "underflow")
    ELSE IF p.b[1][1] # w THEN Fail(p, "misread")
    ELSE With(Skip(p, 1), n, p.b[1][2])

load_small_uint(p, n, w) ==
    IF CanBits(p, w) THEN With(Skip(p, w), n, Num(p, w)) ELSE NoBits(p, w)

load_tag(p, w, x) ==
    IF ~CanBits(p, w) THEN NoBits(p, w)
    ELSE IF Num(p, w) # x THEN Fail(p, "tag") ELSE Skip(p, w)

\* A field's value read by itself, then put under its name in the outer value.
Inner(p) == [p EXCEPT !.v = NoFields]
Outer(q, p, n, x) == [q EXCEPT !.v = (n :> x) @@ p.v]

RECURSIVE load_op(_, _), load_variant(_, _, _)
build_load(p, f) == FoldLeft(LAMBDA acc, i : IF acc.err = "none" THEN load_op(acc, i) ELSE acc, p, f)

\* The decisions of an enum's `load_from`; a pattern with no arm is InvalidTag.
load_variant(p, n, d) ==
    IF d.w = 0 /\ n = "" THEN build_load(p, d.f)
    ELSE IF d.w = 0 THEN LET q == build_load(Inner(p), d.f)
                         IN Outer(q, p, n, [is |-> d.is, v |-> q.v])
    ELSE IF d.mark THEN
        LET q == load_uint(p, "", d.w)
        IN IF q.err # "none" THEN q
           ELSE IF q.v[""] \notin DOMAIN d.arms THEN Fail(p, "tag")
           ELSE load_variant(Skip(p, 1), n, d.arms[q.v[""]])
    ELSE IF ~CanBits(p, d.w) THEN NoBits(p, d.w)
    ELSE IF Num(p, d.w) \notin DOMAIN d.arms THEN Fail(p, "tag")
    ELSE load_variant(Skip(p, d.skip), n, d.arms[Num(p, d.w)])

load_present(p, i) == LET q == build_load(Inner(p), i.t.ld) IN Outer(q, p, i.n, <<q.v>>)

load_reference(p, n) ==
    IF p.r = <<>> THEN Fail(p, "underflow") ELSE With([p EXCEPT !.r = Tail(@)], n, TokenOf(p.r[1]))

\* Mutant: a presence bit that is missing says no.
MutLoadOptionDefault(p, i) ==
    IF p.b = <<>> \/ Num(p, 1) = 0 THEN With(Skip(p, 1), i.n, <<>>) ELSE load_present(Skip(p, 1), i)

load_option(p, i) ==
    IF ~CanBits(p, 1) THEN NoBits(p, 1)
    ELSE IF Num(p, 1) = 0 THEN With(Skip(p, 1), i.n, <<>>)
    ELSE load_present(Skip(p, 1), i)

load_child(p, i) ==
    IF p.r = <<>> THEN Fail(p, "underflow")
    ELSE LET q == build_load(SliceOf(p.r[1]), i.t.ld)
             p1 == [p EXCEPT !.r = Tail(@), !.err = q.err]
         IN IF i.op = "child" THEN [p1 EXCEPT !.v = q.v @@ @] ELSE With(p1, i.n, q.v)

load_op(p, i) ==
    CASE i.op = "tag" -> load_tag(p, i.w, i.x)
      [] i.op = "mark" -> LET q == load_uint(p, "", i.w)
                          IN IF q.err # "none" THEN q
                             ELSE IF q.v[""] # i.x THEN Fail(p, "tag") ELSE Skip(p, 1)
      [] i.op = "uint" -> load_uint(p, i.n, i.w)
      [] i.op = "bits" -> load_small_uint(p, i.n, i.w)
      [] i.op = "var" ->
            IF ~CanBits(p, i.lw) THEN NoBits(p, i.lw)
            ELSE LET k == Num(p, i.lw)
                     q == load_uint(Skip(p, i.lw), i.n, i.unit * k)
                 IN IF q.err # "none" THEN q ELSE With(q, i.n, [len |-> k, x |-> q.v[i.n]])
      [] i.op = "num" -> IF ~CanBits(p, i.lw) THEN NoBits(p, i.lw)
                         ELSE load_small_uint(Skip(p, i.lw), i.n, 8 * Num(p, i.lw))
      [] i.op = "span" -> load_uint(p, i.n, p.v[i.f])
      [] i.op = "sub" -> LET q == build_load(Inner(p), i.t.ld) IN Outer(q, p, i.n, q.v)
      [] i.op = "opt" -> load_option(p, i)
      [] i.op = "when" -> IF p.v[i.f] \in i.xs THEN load_present(p, i) ELSE With(p, i.n, <<>>)
      [] i.op \in {"ref", "child"} -> load_child(p, i)
      [] i.op = "cell" -> load_reference(p, i.n)
      [] i.op = "rest" -> With([p EXCEPT !.b = <<>>, !.r = <<>>], i.n, <<p.b, p.r>>)
      [] i.op = "enum" -> load_variant(p, i.n, i.ld)
      [] i.op = "versions" ->
            LET q == IF i.mark THEN load_uint(p, "", i.w) ELSE load_small_uint(p, "", i.w)
            IN IF q.err # "none" THEN q
               ELSE IF q.v[""] \notin Range(i.tags) THEN Fail(p, "tag")
               ELSE LET k == (CHOOSE j \in DOMAIN i.tags : i.tags[j] = q.v[""]) - 1
                    IN FoldLeft(LAMBDA acc, s : IF acc.err # "none" THEN acc
                                                ELSE IF s.k <= k THEN load_op(acc, s.i)
                                                ELSE With(acc, s.i.n, s.d),
                                [q EXCEPT !.v = p.v], i.fs)
      [] i.op = "put" -> With(p, i.n, i.x)
      [] i.op = "drop" -> [p EXCEPT !.v = Restrict(@, DOMAIN @ \ {i.n})]
      [] i.op = "check" -> IF Holds(i, p.v) THEN p ELSE Fail(p, "invalid")

Load(t, c) == build_load(SliceOf(c), t.ld)

----------------------------------------------------------------------------
(* Sample values of a format.  To depth d every combination of what the    *)
(* fields can be; below it the two extremes, nothing present and           *)
(* everything present, each at its longest.                                *)

Bytes(k, x) == [len |-> k, x |-> IF k = 0 THEN <<>> ELSE x]

RECURSIVE FieldValues(_, _, _, _), ExtremeFrom(_, _, _, _)
Fields(f, path, d, v0) ==
    FoldLeft(LAMBDA S, i : UNION {
                 IF i.op \in {"tag", "mark", "check"} THEN {v}
                 ELSE IF i.op \in {"child", "versions"} THEN FieldValues(i, v, path, d)
                 ELSE {(i.n :> x) @@ v : x \in FieldValues(i, v, path, d)} : v \in S},
             {v0}, f)

Extreme(f, path, hi) == ExtremeFrom(f, path, hi, NoFields)
Samples(f, path, d) ==
    IF d > 0 THEN Fields(f, path, d, NoFields) ELSE {Extreme(f, path, hi) : hi \in BOOLEAN}

FieldValues(i, v, path, d) ==
    CASE i.op \in {"uint", "lost"} -> {Append(path, i.n)}
      [] i.op \in {"bits", "num", "rest"} -> i.s
      [] i.op = "put" -> {i.x}
      [] i.op = "span" -> {IF v[i.f] = 0 THEN <<>> ELSE Append(path, i.n)}
      [] i.op = "var" -> {Bytes(k, Append(path, i.n)) : k \in i.s}
      [] i.op = "cell" -> {Append(path, i.n)}
      [] i.op \in {"sub", "ref"} -> Samples(i.t.st, Append(path, i.n), d - 1)
      [] i.op = "opt" -> {<<>>} \union {<<x>> : x \in Samples(i.t.st, Append(path, i.n), d - 1)}
      [] i.op = "when" -> IF v[i.f] \notin i.xs THEN {<<>>}
                          ELSE {<<x>> : x \in Samples(i.t.st, Append(path, i.n), d - 1)}
      [] i.op = "child" -> Fields(i.t.st, path, d, v)
      [] i.op = "enum" -> UNION {{[is |-> a, v |-> x] :
                                    x \in Samples(i.st[a], Append(path, i.n), d)} : a \in Range(i.vs)}
      [] i.op = "versions" ->
            FoldLeft(LAMBDA S, s : UNION {
                        Fields(<<s.i>>, path, d, w)
                            \union (IF s.k > 0 THEN {(s.i.n :> s.d) @@ w} ELSE {}) : w \in S},
                     {v}, i.fs)

\* All fields at their least (hi = FALSE) or at their most.
ExtremeFrom(f, path, hi, v0) ==
    FoldLeft(LAMBDA v, i :
        IF i.op \in {"tag", "mark", "check"} THEN v
        ELSE IF i.op = "child" THEN ExtremeFrom(i.t.st, path, hi, v)
        ELSE IF i.op = "versions" THEN
            FoldLeft(LAMBDA w, s : IF s.k > 0 /\ ~hi THEN (s.i.n :> s.d) @@ w
                                   ELSE ExtremeFrom(<<s.i>>, path, hi, w), v, i.fs)
        ELSE (i.n :> CASE i.op \in {"uint", "cell", "lost"} -> Append(path, i.n)
                       [] i.op = "put" -> i.x
                       [] i.op = "rest" -> CHOOSE x \in i.s : TRUE
                       [] i.op = "span" -> IF v[i.f] = 0 THEN <<>> ELSE Append(path, i.n)
                       [] i.op \in {"bits", "num"} -> IF hi THEN Max(i.s) ELSE Min(i.s)
                       [] i.op = "var" -> Bytes(IF hi THEN Max(i.s) ELSE Min(i.s), Append(path, i.n))
                       [] i.op \in {"sub", "ref"} -> Extreme(i.t.st, Append(path, i.n), hi)
                       [] i.op = "opt" -> IF hi THEN <<Extreme(i.t.st, Append(path, i.n), hi)>> ELSE <<>>
                       [] i.op = "when" -> IF v[i.f] \notin i.xs THEN <<>>
                                           ELSE <<Extreme(i.t.st, Append(path, i.n), hi)>>
                       [] i.op = "enum" ->
                            LET a == IF hi THEN i.vs[Len(i.vs)] ELSE i.vs[1]
                            IN [is |-> a, v |-> Extreme(i.st[a], Append(path, i.n), hi)]) @@ v,
        v0, f)
=============================================================================
