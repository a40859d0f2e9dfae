---------------------------- MODULE SimDataSource ----------------------------
(***************************************************************************)
(* The stereo images of src/datasource/SimDataSource.cpp: what load makes  *)
(* of the files of a directory, and next_stereo, which hands the pairs out *)
(* in turn.  The synthetic payloads depend on nothing but their arguments  *)
(* and are left out.                                                       *)
(*                                                                         *)
(* A file is one whose name load accepts: it has a side, an index and a    *)
(* name, which sets apart two files of the same side and index.            *)
(***************************************************************************)
EXTENDS Integers, Sequences, FiniteSets

CONSTANT Directories      \* what stereo_image_dir may hold: sets of files

ASSUME DirectoriesAssumption ==
    \A files \in Directories :
        /\ IsFiniteSet(files)
        /\ \A f \in files :
              f.index \in Nat /\ f.side \in {"l", "r"} /\ f.readable \in BOOLEAN

VARIABLES dir,            \* the directory that was read
          pairs,          \* pairs_
          cursor          \* cursor_

sourceVars == <<dir, pairs, cursor>>

Indexes(files) == {f.index : f \in files}

\* A side is the last of its files that directory_iterator, which promises no
\* order, comes to; it is empty when there is none.
Side(files, i, s) ==
    LET named == {f \in files : f.index = i /\ f.side = s}
    IN  IF named = {} THEN {{}} ELSE {{f} : f \in named}

\* read_file fails without a word, and the side stays blank.
Image(side) == {f \in side : f.readable}

\* Faulty variant: a side that is missing is not mirrored.
PairOf_Unmirrored(i, l, r) == [index |-> i, left |-> Image(l), right |-> Image(r)]

PairOf(i, l, r) ==
    [index |-> i, left |-> Image(IF l = {} THEN r ELSE l),
                  right |-> Image(IF r = {} THEN l ELSE r)]

\* The pairs that load may make of one index, and the sequences it may make of
\* all of them, by index.
PairsOf(files, i) ==
    {PairOf(i, l, r) : l \in Side(files, i, "l"), r \in Side(files, i, "r")}

Loaded(files) ==
    LET made == UNION {PairsOf(files, i) : i \in Indexes(files)}
    IN  {p \in [1 .. Cardinality(Indexes(files)) -> made] :
            /\ Indexes(files) = {p[n].index : n \in DOMAIN p}
            /\ \A m, n \in DOMAIN p : m < n => p[m].index < p[n].index}

SourceInit ==
    /\ dir \in Directories
    /\ pairs \in Loaded(dir)
    /\ cursor = 0

HasPairs == pairs # <<>>

NextPair == pairs[(cursor % Len(pairs)) + 1]
=============================================================================
