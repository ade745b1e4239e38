-------------------------------- MODULE Wire --------------------------------
(***************************************************************************)
(* The way of a transaction's actions from a client to a node: Bytes of    *)
(* each action when the client builds the transaction (NewTxData), the     *)
(* TypeParser that vm.init fills when the node parses it (UnmarshalTx).    *)
(*                                                                         *)
(* A uint64 is packed big-endian into LongLen bytes of Base values (8 of   *)
(* 256 in the code).  A packed CreateMarket is its type ID followed by its *)
(* fields, which are not spelled out; its size is.                         *)
(***************************************************************************)
EXTENDS Actions, Sequences

CONSTANTS
    Base,        \* values of a byte
    LongLen,     \* bytes of a uint64
    MaxActions   \* bound on the actions of a transaction

(* The weight of a byte that has k bytes behind it.                        *)
Weight[k \in 0 .. LongLen] == IF k = 0 THEN 1 ELSE Weight[k - 1] * Base

ASSUME WireAssumption ==
    /\ Base \in Nat /\ Base > 6
    /\ LongLen \in Nat \ {0}
    /\ Word = Weight[LongLen]
    /\ MarketID \subseteq U64
    /\ MaxActions \in Nat \ {0}

VARIABLES
    phase,   \* what has become of the transaction
    sent,    \* the actions the client put into it
    wire,    \* the bytes of each of them
    got      \* the actions the node has parsed

vars == <<phase, sent, wire, got>>

-----------------------------------------------------------------------------
(* Type IDs: CreateMarketID is the fifth constant of its block.            *)
CreateMarketID == 4
BuyYesID == 5
BuyNoID == 6

(* Packer.PackLong and UnpackLong.                                         *)
PackLong(n) == [j \in 1 .. LongLen |-> (n \div Weight[LongLen - j]) % Base]

UnpackLong(bytes, offset) ==
    LET upTo[j \in 0 .. LongLen] ==
            IF j = 0 THEN 0 ELSE upTo[j - 1] * Base + bytes[offset + j]
    IN  upTo[LongLen]

(* BuyYes.Bytes and BuyNo.Bytes: three words and no type ID.               *)
BuyBytes(b) == PackLong(b.MarketID) \o PackLong(b.Amount) \o PackLong(b.MaxPrice)

(* Mutant: room for the longest parameters only.                           *)
MaxCreateMarketSizeShort == 512

MaxCreateMarketSize == 1024

(* The type ID, a byte, two int64 and the three texts with their length    *)
(* prefixes.                                                               *)
CreateMarketSize(cm) ==
    26 + cm.text.Description + cm.text.OracleSource + cm.text.OracleParameters

CreateMarketBytes(cm) == <<CreateMarketID, cm>>

(* CreateMarket.Bytes panics when the packer refuses the size.             *)
BytesPanic(action) ==
    action.type = "CreateMarket" /\ CreateMarketSize(action.proposal) > MaxCreateMarketSize

Bytes(action) ==
    IF action.type = "CreateMarket" THEN CreateMarketBytes(action.proposal)
                                    ELSE BuyBytes(action.order)

-----------------------------------------------------------------------------
(* Mutant: a reader that takes the first byte for the type ID and goes on  *)
(* behind it.                                                              *)
UnmarshalBuyYesStripped(bytes) ==
    LET rest == Tail(bytes) \o <<0>> IN
    [type |-> "BuyYes",
     order |-> [MarketID |-> UnpackLong(rest, 0), Amount |-> UnpackLong(rest, LongLen),
                MaxPrice |-> UnpackLong(rest, 2 * LongLen)]]

UnmarshalBuyYes(bytes) ==
    [type |-> "BuyYes",
     order |-> [MarketID |-> UnpackLong(bytes, 0), Amount |-> UnpackLong(bytes, LongLen),
                MaxPrice |-> UnpackLong(bytes, 2 * LongLen)]]

(* Mutant: the registration of BuyNo that is commented out, with the       *)
(* unmarshaler at hand.                                                    *)
RegisteredBoth == {BuyYesID, BuyNoID}

(* The type IDs that vm.init registers a decoder for.                      *)
Registered == {BuyYesID}

(* TypeParser.Unmarshal: the first byte selects the decoder, which is      *)
(* given the whole slice.  The only decoder fails on a slice of less than  *)
(* three words.                                                            *)
ParseErr(bytes) == Head(bytes) \notin Registered \/ Len(bytes) < 3 * LongLen

Parse(bytes) == UnmarshalBuyYes(bytes)

-----------------------------------------------------------------------------
(* NewTxData packs the actions of a transaction one by one.                *)
NewTxData ==
    /\ phase = "build"
    /\ \E n \in 1 .. MaxActions : sent' \in [1 .. n -> Action]
    /\ IF \E j \in DOMAIN sent' : BytesPanic(sent'[j])
       THEN phase' = "panic" /\ wire' = <<>>
       ELSE phase' = "sent" /\ wire' = [j \in DOMAIN sent' |-> Bytes(sent'[j])]
    /\ got' = <<>>

(* UnmarshalTx: the first action that does not parse fails the whole       *)
(* transaction.                                                            *)
UnmarshalTx ==
    /\ phase = "sent"
    /\ IF \E j \in DOMAIN wire : ParseErr(wire[j])
       THEN phase' = "rejected" /\ got' = <<>>
       ELSE phase' = "parsed" /\ got' = [j \in DOMAIN wire |-> Parse(wire[j])]
    /\ UNCHANGED <<sent, wire>>

(* The next transaction.                                                   *)
Reset ==
    /\ phase \in {"rejected", "parsed", "panic"}
    /\ phase' = "build" /\ sent' = <<>> /\ wire' = <<>> /\ got' = <<>>

Init == phase = "build" /\ sent = <<>> /\ wire = <<>> /\ got = <<>>

Next == NewTxData \/ UnmarshalTx \/ Reset

Spec == Init /\ [][Next]_vars

-----------------------------------------------------------------------------
(* Properties.                                                             *)

(* What a node executes of an accepted transaction: every purchase that    *)
(* the client signed, in its place, with its market, amount and price, and *)
(* each of them as a BuyYes: the side that was signed is lost on the wire. *)
(* The parser's comment has Unmarshal(Bytes(T)) == T, which is not so of a *)
(* BuyNo on a market whose ID starts with BuyYes's type ID.                *)
ParsedAsBuyYes ==
    phase = "parsed" =>
        got = [j \in DOMAIN sent |-> [type |-> "BuyYes", order |-> sent[j].order]]

TopByte(n) == n \div Weight[LongLen - 1]

(* A node accepts a transaction exactly when all its actions are purchases *)
(* on markets whose ID starts with the byte that happens to be BuyYes's    *)
(* type ID; one action of any other kind takes the rest down with it.      *)
AcceptedExactly ==
    phase \in {"parsed", "rejected"} =>
        (phase = "parsed" <=>
            \A j \in DOMAIN sent : /\ sent[j].type # "CreateMarket"
                                   /\ TopByte(sent[j].order.MarketID) = BuyYesID)

(* Bytes panics on texts that Execute's own limits allow, but only on a    *)
(* market that no node could have stored: its record would be larger than  *)
(* SetMarket can write.                                                    *)
PanicsOnlyOnUnstorable ==
    phase = "panic" =>
        \E j \in DOMAIN sent :
            /\ sent[j].type = "CreateMarket"
            /\ \A a \in Addr, id \in MarketID :
                  SetMarketErr(NewMarket(a, sent[j].proposal, id))
=============================================================================
