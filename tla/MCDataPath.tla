------------------------------ MODULE MCDataPath ------------------------------
(* A small instance of UbbdDataPath: a request with one bio, and one with  *)
(* three bio_vecs in two bios, so that a page index goes to pi.            *)
EXTENDS UbbdDataPath, TLC

Seg(o, l) == [off |-> o, len |-> l]

MCBios == {<< <<Seg(1, 1)>> >>, << <<Seg(1, 1), Seg(0, 2)>>, <<Seg(0, 1)>> >>}

Symmetry == Permutations(Phys) \cup Permutations(Reqs)

===============================================================================
