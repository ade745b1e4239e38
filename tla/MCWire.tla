------------------------------- MODULE MCWire -------------------------------
(***************************************************************************)
(* Instances of Wire for TLC: two bytes of eight values to the word.       *)
(***************************************************************************)
EXTENDS Wire

(* The shortest market, one of the largest record that can be stored, one  *)
(* of the largest size that Bytes accepts, and one with every text at      *)
(* Execute's limit.                                                        *)
MCText ==
    {[Description |-> 1, OracleSource |-> 0, OracleParameters |-> 0],
     [Description |-> 256, OracleSource |-> 256, OracleParameters |-> 428],
     [Description |-> 256, OracleSource |-> 256, OracleParameters |-> 486],
     [Description |-> 256, OracleSource |-> 256, OracleParameters |-> 512]}

MCGenesis == [a \in Addr |-> NotFound]

MCSeeds == {[m \in MarketID |-> NotFound]}
=============================================================================
