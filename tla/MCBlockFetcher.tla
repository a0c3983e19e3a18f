--------------------------- MODULE MCBlockFetcher ---------------------------
(* Small instances of BlockFetcher for TLC. *)
EXTENDS BlockFetcher, TLC

AccountSymmetry == Permutations(OnChain)

=============================================================================
