------------------------- MODULE MCEncryptedIoQueue -------------------------
(* Instances of EncryptedIoQueue for TLC. *)
EXTENDS EncryptedIoQueue, TLC

CONSTANTS i1, i2, v1, v2, A, B

OneIrp == {i1}
TwoIrps == {i1, i2}
TwoValues == {v1, v2}
TwoBuffers == {A, B}
TwoSectors == 0 .. 1
ThreeSectors == 0 .. 2

\* The sectors hold different values; one of them is encrypted.
Stores(sectors) == {[s \in sectors |-> IF s = 0 THEN v1 ELSE v2]}
TwoStored == Stores(TwoSectors)
ThreeStored == Stores(ThreeSectors)

Op(kind, sectors, value) == [kind |-> kind, sectors |-> sectors, value |-> value]

\* Requests of up to three fragments: reads that read ahead or find what was read ahead, a
\* write of all, a request that is not aligned, and one of another kind.
Transfers ==
  {Op("read", {0, 1}, v1), Op("read", {1, 2}, v1), Op("write", {0, 1, 2}, v1),
   Op("misaligned", {1}, v1), Op("invalid", {}, v1)}

\* Reads that read ahead or find what was read ahead, and a write in between.
ReadsAndWrite ==
  {Op("read", {0}, v1), Op("read", {1}, v1), Op("write", {1}, v1)}

FlushOnly == {Op("flush", {}, v1)}

\* Requests without data, one of which is refused.
Controls == {Op("flush", {}, v1), Op("invalid", {}, v1)}

Symmetry == Permutations(Irps) \cup Permutations(Buffers)

=============================================================================
