------------------------------ MODULE MCFSSKey ------------------------------
(***************************************************************************)
(* Keys for TLC: trees of three levels (eight points), seeds of two bits   *)
(* and words modulo 8.  The generator is a small polynomial; six pairs of  *)
(* roots are tried, two of them with equal seeds.                          *)
(***************************************************************************)
EXTENDS FSSWindow

Number(seed) == (IF 1 \in seed THEN 1 ELSE 0) + (IF 2 \in seed THEN 2 ELSE 0)
SeedOf(n) == (IF n % 2 = 1 THEN {1} ELSE {}) \cup (IF (n \div 2) % 2 = 1 THEN {2} ELSE {})

Block(seed, b) == (Number(seed) * Number(seed) * 5 + 3 * Number(seed) + 7 * b + 6 * b * Number(seed)) % 16

MCExpand ==
  [seed \in Seed |-> [b \in Bit |->
     [seed |-> SeedOf(Block(seed, b) \div 4), t |-> Block(seed, b) % 2]]]

MCValueOf ==
  [seed \in Seed |-> [b \in Bit |-> (3 * Number(seed) * Number(seed) + 5 * b + Number(seed) + 2) % 11]]

MCRootSeeds ==
  {<<SeedOf(0), SeedOf(0)>>, <<SeedOf(0), SeedOf(3)>>, <<SeedOf(1), SeedOf(2)>>,
   <<SeedOf(2), SeedOf(1)>>, <<SeedOf(3), SeedOf(1)>>, <<SeedOf(3), SeedOf(3)>>}

MCConvert == [seed \in Seed |-> 4 * Number(seed)]

=============================================================================
