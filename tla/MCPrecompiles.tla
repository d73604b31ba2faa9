--------------------------- MODULE MCPrecompiles ---------------------------
(***************************************************************************)
(* Precompiles with lengths about those each takes, batches to well past   *)
(* the discount tables, and for MODEXP every input of a few bits.          *)
(***************************************************************************)
EXTENDS Precompiles

Some(lens) == [len : lens, kinds : {{"subgroup"}, {"infinity", "curve"}, {"subgroup", "bad"}}, rounds : {0, 12}]

Strings(n) == UNION {[1 .. i -> 0 .. Base - 1] : i \in 0 .. n}

Exact == [id \in {9, 10, 11, 13, 16, 17} |->
            CASE id = 9 -> 213 [] id = 10 -> 192 [] id = 11 -> 256 [] id = 13 -> 512
              [] id = 16 -> 64 [] id = 17 -> 128]

MCInputs == [id \in Ids |->
  CASE id = 5 -> [b : {0, 1, 4, MaxU + 1}, e : {0, 1, 3, 4, MaxU}, m : {0, 1, 2, MaxU}, data : Strings(7)]
    [] id \in DOMAIN Item -> Some({k * Item[id] : k \in 0 .. 150} \cup {1, Item[id] + 1})
    [] id \in DOMAIN Exact -> Some({0, Exact[id] - 1, Exact[id], Exact[id] + 1})
    [] OTHER -> Some({0, 1, 32, 33, 160})]
=============================================================================
