--------------------------- MODULE ListConversion ---------------------------
(***************************************************************************)
(* Postgres arrays and DuckDB lists (pgduckdb_types.cpp).  A Postgres      *)
(* array is a sequence of dimensions and its elements, row by row; a list  *)
(* is a sequence of lists or of elements.  A list vector keeps for every   *)
(* depth the entries written so far and the size of the vector below.      *)
(***************************************************************************)
EXTENDS Integers, Sequences, SequencesExt, FiniteSets

CONSTANTS
  Null,
  Garbage,     \* what a cell that was never written holds
  MaxDatums    \* datums that one palloc can hold: MaxAllocSize / 8

-----------------------------------------------------------------------------
(* The reference: the list an array stands for *)

NestOf(dims, elems) ==
  LET nd == Len(dims)
      Group(s, n) == [i \in 1..(Len(s) \div n) |-> SubSeq(s, (i - 1) * n + 1, i * n)]
      level[k \in 0..(nd - 1)] == IF k = 0 THEN elems ELSE Group(level[k - 1], dims[nd - k + 1])
  IN  IF nd = 0 THEN elems ELSE level[nd - 1]

\* The lists at each depth of a list, with the lengths on the way to them.
ListsAt(list, depth) ==
  LET at[k \in 1..depth] ==
        IF k = 1 THEN {<< <<Len(list)>>, list >>}
        ELSE UNION {{<<p[1] \o <<Len(c)>>, c>> : c \in Range(p[2]) \ {Null}} : p \in at[k - 1]}
  IN  at

\* The elements of a list of some depth.
Elements(list, depth) == UNION {Range(p[2]) : p \in ListsAt(list, depth)[depth]}

\* The dimensions that occur in a list of some depth.
Shapes(list, depth) == {p[1] : p \in ListsAt(list, depth)[depth]}
InnerNull(list, depth) ==
  \E k \in 1..(depth - 1) : \E p \in ListsAt(list, depth)[k] : Null \in Range(p[2])

Rectangular(list, depth) == Cardinality(Shapes(list, depth)) <= 1
NoElements(list, depth) == \A s \in Shapes(list, depth) : \E i \in 1..depth : s[i] = 0

-----------------------------------------------------------------------------
(* Postgres to DuckDB: the LIST case of ConvertPostgresToDuckValue *)

EmptyVector(depth) == [lists |-> [d \in 1..depth |-> [entry |-> <<>>, size |-> 0]],
                       leaf |-> <<>>, invalid |-> {}]

\* Data of a vector, of which some cells are written.
Overwrite(cells, new) ==
  [i \in DOMAIN cells \cup DOMAIN new |-> IF i \in DOMAIN new THEN new[i] ELSE cells[i]]

\* Lists written at a depth: the length of the dimension above.
ListsWrittenOnce(dims, d) == 1
ListsWritten(dims, d) == IF d = 1 THEN 1 ELSE dims[d - 1]

\* Where the entries of a depth go: behind what the depth above has.
WriteOffset(vec, offset, d) == IF d = 1 THEN offset ELSE vec.lists[d - 1].size

DimensionsMatch(vec, array) == Len(array.dims) \in {0, Len(vec.lists)}

\* The entries of an array at an offset, and the cells of its elements.
AppendArray(vec, array, cells, offset) ==
  LET nd == Len(array.dims)
      size(d) == vec.lists[d].size
      written(d) == [i \in {WriteOffset(vec, offset, d) + e : e \in 0..(ListsWritten(array.dims, d) - 1)} |->
                       [at |-> size(d) + array.dims[d] * (i - WriteOffset(vec, offset, d)),
                        len |-> array.dims[d]]]
  IN  IF nd = 0
      THEN [vec EXCEPT !.lists[1].entry = Overwrite(@, [i \in {offset} |-> [at |-> size(1), len |-> 0]])]
      ELSE [vec EXCEPT
              !.lists = [d \in 1..nd |->
                 [entry |-> Overwrite(vec.lists[d].entry, written(d)),
                  size |-> size(d) + array.dims[d] * ListsWritten(array.dims, d)]],
              !.leaf = Overwrite(@, cells)]

\* Where the elements of the next array go: behind those of the last.
ElementOffset(vec) == vec.lists[Len(vec.lists)].size

\* What DuckDB reads in a cell, and the list that it reads at an offset.
ReadCell(cells, i) == IF i \in DOMAIN cells THEN cells[i] ELSE Garbage
ReadList(vec, i) ==
  LET n == Len(vec.lists)
      level[d \in 1..(n + 1)] ==
        IF d > n THEN vec.leaf
        ELSE [j \in DOMAIN vec.lists[d].entry |->
                LET e == vec.lists[d].entry[j]
                    list == [k \in 1..e.len |-> ReadCell(level[d + 1], e.at + k - 1)]
                IN  IF Garbage \in Range(list) THEN Garbage ELSE list]
  IN  ReadCell(level[1], i)

-----------------------------------------------------------------------------
(* DuckDB to Postgres: PostgresArrayAppendState *)

\* expected_values, which is multiplied by the number of values twice.
ExpectedValues(expected, n) == expected * n * n
ExpectedAt(dims, depth) ==
  LET expected[d \in 0..depth] == IF d = 0 THEN 1 ELSE ExpectedValues(expected[d - 1], dims[d])
  IN  expected[depth]

\* nest[d] is "LIST" or "ARRAY"; only a LIST below is descended into.
DepthReached(nest) ==
  CHOOSE d \in 1..Len(nest) : /\ d = Len(nest) \/ nest[d + 1] # "LIST"
                              /\ \A e \in 2..d : nest[e] = "LIST"

\* The lists that AppendValueAtDimension meets at each dimension, in its order.
ListsMet(value, depth) ==
  LET met[d \in 1..depth] ==
        IF d = 1 THEN <<value>>
        ELSE FlattenSeq([i \in DOMAIN met[d - 1] |-> SelectSeq(met[d - 1][i], LAMBDA c : c # Null)])
  IN  met

\* construct_md_array: without elements there are no dimensions.
ConstructArray(dims, elems) ==
  IF \E i \in 1..Len(dims) : dims[i] = 0
  THEN [dims |-> <<>>, elems |-> <<>>]
  ELSE [dims |-> dims, elems |-> elems]

\* AppendValueAtDimension for the whole value: the first list at a dimension
\* sets its size, and the memory is allocated at the first list of elements.
ConvertDuckToPostgresArray(value, nest, text, raised) ==
  LET depth == DepthReached(nest)
      met == ListsMet(value, depth)
      dims == [d \in 1..Len(nest) |-> IF d > depth \/ met[d] = <<>> THEN 0 ELSE Len(met[d][1])]
      SizesDiffer == \E d \in 1..depth : \E i \in DOMAIN met[d] : Len(met[d][i]) # dims[d]
      NullBetween == \E d \in 1..(depth - 1) : \E i \in DOMAIN met[d] : Null \in Range(met[d][i])
      TooLarge == met[depth] # <<>> /\ ExpectedAt(dims, depth) > MaxDatums
      \* an ARRAY cannot be converted to an element, unless it is printed
      ArrayInside == depth < Len(nest) /\ ~text /\ \E i \in DOMAIN met[depth] : met[depth][i] # <<>>
  IN  IF SizesDiffer \/ NullBetween \/ TooLarge \/ ArrayInside THEN raised
      ELSE ConstructArray(dims, FlattenSeq(met[depth]))

=============================================================================
