--------------------------- MODULE MCGenesisInit ---------------------------
(***************************************************************************)
(* Instances of GenesisInit for TLC.                                       *)
(***************************************************************************)
EXTENDS GenesisInit

CONSTANTS a1, a2, MaxAllocations

(* Every list of at most MaxAllocations allocations, with amounts that     *)
(* reach zero, the largest uint64 and a wrapped sum of zero.               *)
MCAlloc == [Address : Addr \cup {Undecodable}, Balance : {0, 1, Word - 1}]

MCAllocations == UNION {[1 .. n -> MCAlloc] : n \in 0 .. MaxAllocations}
=============================================================================
