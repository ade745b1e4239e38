----------------------------- MODULE Wire_proofs -----------------------------
(***************************************************************************)
(* What a node parses of the bytes that a client signed, for every size of *)
(* a byte and of a word and transactions of any length.                    *)
(***************************************************************************)
EXTENDS Wire, Ledger_proofs

-----------------------------------------------------------------------------
(* Recursion over the bytes of a word: the weight of a byte and the value  *)
(* of the bytes read so far have the same form, that of Horner's rule.     *)

Horner(g, a, c, m) ==
    /\ g \in [0 .. m -> Nat]
    /\ g[0] = a
    /\ \A k \in 1 .. m : g[k] = g[k - 1] * Base + c[k]

(* There is such a function for every length: by the least m without one.  *)
LEMMA HornerExists ==
    ASSUME NEW a \in Nat, NEW c, \A k \in 1 .. LongLen : c[k] \in Nat
    PROVE  \E g : Horner(g, a, c, LongLen)
  <1> DEFINE T == {m \in 0 .. LongLen : ~ \E g : Horner(g, a, c, m)}
  <1>1. T = {}
    <2> SUFFICES ASSUME T # {} PROVE FALSE
      OBVIOUS
    <2>1. T \subseteq Nat
      OBVIOUS
    <2>2. PICK m \in T : \A k \in T : m <= k
      <3> HIDE DEF T
      <3> QED
        BY <2>1, LeastNat
    <2>3. m \in 0 .. LongLen /\ LongLen \in Nat
      BY WireAssumption
    <2>4. m - 1 \notin T
      <3> HIDE DEF T
      <3> QED
        BY <2>2, <2>3
    <2>5. CASE m = 0
      <3>1. Horner([k \in 0 .. 0 |-> a], a, c, 0)
        BY DEF Horner
      <3> QED
        BY <2>5, <3>1
    <2>6. CASE m # 0
      <3>1. m - 1 \in 0 .. LongLen
        BY <2>6, <2>3
      <3>2. PICK g : Horner(g, a, c, m - 1)
        BY <2>4, <3>1
      <3>3. g[m - 1] \in Nat /\ c[m] \in Nat
        BY <2>3, <2>6, <3>2 DEF Horner
      <3> DEFINE v == g[m - 1] * Base + c[m]
                 h == [k \in 0 .. m |-> IF k = m THEN v ELSE g[k]]
      <3>4. v \in Nat
        BY <3>3, WireAssumption
      <3>5. h[m] = v /\ \A k \in 0 .. (m - 1) : h[k] = g[k]
        BY <2>3, <2>6
      <3>6. h \in [0 .. m -> Nat]
        <4> HIDE DEF v
        <4> QED
          BY <2>3, <2>6, <3>2, <3>4 DEF Horner
      <3> HIDE DEF h
      <3>7. Horner(h, a, c, m)
        <4>1. h[0] = a
          BY <2>3, <2>6, <3>2, <3>5 DEF Horner
        <4>2. ASSUME NEW k \in 1 .. m PROVE h[k] = h[k - 1] * Base + c[k]
          <5>1. CASE k = m
            BY <2>3, <2>6, <3>5, <5>1
          <5>2. CASE k # m
            <6>1. k \in 1 .. (m - 1) /\ k \in 0 .. (m - 1) /\ k - 1 \in 0 .. (m - 1)
              BY <2>3, <5>2
            <6>2. g[k] = g[k - 1] * Base + c[k]
              BY <3>2, <6>1 DEF Horner
            <6> QED
              BY <3>5, <6>1, <6>2
          <5> QED
            BY <5>1, <5>2
        <4> QED
          BY <3>6, <4>1, <4>2 DEF Horner
      <3> QED
        BY <3>7
    <2> QED
      BY <2>5, <2>6
  <1>2. LongLen \in 0 .. LongLen
    BY WireAssumption
  <1> QED
    BY <1>1, <1>2

(* The weights of the bytes of a word, from the last byte on.              *)
LEMMA WeightUnfold ==
    /\ Weight[0] = 1
    /\ \A k \in 1 .. LongLen : Weight[k] = Weight[k - 1] * Base
  <1> DEFINE c == [k \in 1 .. LongLen |-> 0]
  <1>0. \A k \in 1 .. LongLen : c[k] = 0
    OBVIOUS
  <1> HIDE DEF c
  <1>1. PICK g : Horner(g, 1, c, LongLen)
    BY <1>0, HornerExists
  <1>2. ASSUME NEW k \in 1 .. LongLen PROVE g[k] = g[k - 1] * Base
    <2>1. g[k - 1] \in Nat /\ Base \in Nat /\ c[k] = 0
      BY <1>0, <1>1, WireAssumption DEF Horner
    <2>2. g[k - 1] * Base \in Nat
      BY <2>1
    <2>3. g[k] = g[k - 1] * Base + c[k]
      BY <1>1 DEF Horner
    <2> QED
      BY <2>1, <2>2, <2>3
  <1>3. g = [k \in 0 .. LongLen |-> IF k = 0 THEN 1 ELSE g[k - 1] * Base]
    <2>1. g = [k \in 0 .. LongLen |-> g[k]]
      BY <1>1 DEF Horner
    <2>2. \A k \in 0 .. LongLen : g[k] = IF k = 0 THEN 1 ELSE g[k - 1] * Base
      BY <1>1, <1>2, WireAssumption DEF Horner
    <2> QED
      BY <2>1, <2>2
  <1>4. Weight = [k \in 0 .. LongLen |-> IF k = 0 THEN 1 ELSE Weight[k - 1] * Base]
    BY <1>3, Zenon DEF Weight
  <1> QED
    BY <1>4, WireAssumption

(* Weights are positive.                                                   *)
LEMMA WeightType == \A k \in 0 .. LongLen : Weight[k] \in Nat \ {0}
  <1> DEFINE T == {k \in 0 .. LongLen : Weight[k] \notin Nat \ {0}}
  <1> SUFFICES ASSUME T # {} PROVE FALSE
    OBVIOUS
  <1>1. T \subseteq Nat
    OBVIOUS
  <1>2. PICK k \in T : \A m \in T : k <= m
    <2> HIDE DEF T
    <2> QED
      BY <1>1, LeastNat
  <1>3. k # 0
    BY WeightUnfold
  <1>4. k \in 1 .. LongLen /\ k - 1 \in 0 .. LongLen /\ k - 1 \notin T
    BY <1>2, <1>3, WireAssumption
  <1>5. Weight[k - 1] \in Nat \ {0} /\ Weight[k] = Weight[k - 1] * Base
    BY <1>4, WeightUnfold
  <1>6. Weight[k - 1] * Base \in Nat \ {0}
    BY <1>5, WireAssumption
  <1> QED
    BY <1>5, <1>6

-----------------------------------------------------------------------------
(* Words.                                                                  *)

(* Dividing by a product is dividing twice.                                *)
LEMMA DivTwice ==
    ASSUME NEW n \in Nat, NEW p \in Nat \ {0}, NEW b \in Nat \ {0}
    PROVE  (n \div p) = ((n \div (p * b)) * b) + ((n \div p) % b)
  <1>1. n \div (p * b) = (n \div p) \div b
    OBVIOUS
  <1>2. n \div p \in Nat
    OBVIOUS
  <1> QED
    BY <1>1, <1>2

(* The bytes of a word are bytes.                                          *)
LEMMA PackLongType ==
    ASSUME NEW n \in U64
    PROVE  /\ PackLong(n) \in [1 .. LongLen -> 0 .. (Base - 1)]
           /\ PackLong(n) \in Seq(Nat)
           /\ Len(PackLong(n)) = LongLen
           /\ \A j \in 1 .. LongLen :
                 PackLong(n)[j] = (n \div Weight[LongLen - j]) % Base
  <1>1. n \in Nat
    BY WordAssumption DEF U64
  <1>2. \A j \in 1 .. LongLen : (n \div Weight[LongLen - j]) % Base \in 0 .. (Base - 1)
    <2> TAKE j \in 1 .. LongLen
    <2>1. LongLen - j \in 0 .. LongLen
      BY WireAssumption
    <2>2. Weight[LongLen - j] \in Nat \ {0}
      BY <2>1, WeightType
    <2>3. n \div Weight[LongLen - j] \in Nat
      BY <1>1, <2>2
    <2> QED
      BY <2>3, WireAssumption
  <1>3. PackLong(n) \in [1 .. LongLen -> 0 .. (Base - 1)]
    BY <1>2 DEF PackLong
  <1>4. \A j \in 1 .. LongLen : PackLong(n)[j] = (n \div Weight[LongLen - j]) % Base
    BY DEF PackLong
  <1> HIDE DEF PackLong
  <1>5. PackLong(n) \in [1 .. LongLen -> Nat]
    BY <1>3, WireAssumption
  <1> QED
    BY <1>3, <1>4, <1>5, WireAssumption

(* UnpackLong reads the word that PackLong has put at an offset.           *)
LEMMA UnpackPacked ==
    ASSUME NEW n \in U64, NEW bytes, NEW offset \in Nat,
           \A j \in 1 .. LongLen : bytes[offset + j] = PackLong(n)[j]
    PROVE  UnpackLong(bytes, offset) = n
  <1> DEFINE upTo == CHOOSE g : g = [j \in 0 .. LongLen |->
                        IF j = 0 THEN 0 ELSE g[j - 1] * Base + bytes[offset + j]]
             c == [j \in 1 .. LongLen |-> bytes[offset + j]]
             T == {j \in 0 .. LongLen : upTo[j] # n \div Weight[LongLen - j]}
  <1>0. n \in Nat /\ n < Weight[LongLen] /\ Base \in Nat \ {0} /\ LongLen \in Nat \ {0}
    BY WordAssumption, WireAssumption DEF U64
  <1>1. \A j \in 1 .. LongLen : bytes[offset + j] \in Nat
    <2>1. \A j \in 1 .. LongLen : PackLong(n)[j] \in 0 .. (Base - 1)
      BY PackLongType
    <2> QED
      BY <1>0, <2>1
  <1>2. \A j \in 1 .. LongLen : c[j] = bytes[offset + j]
    OBVIOUS
  <1> HIDE DEF c
  <1>3. PICK f : Horner(f, 0, c, LongLen)
    BY <1>1, <1>2, HornerExists
  <1>4. \E g : g = [j \in 0 .. LongLen |->
                        IF j = 0 THEN 0 ELSE g[j - 1] * Base + bytes[offset + j]]
    <2>1. f = [j \in 0 .. LongLen |-> f[j]]
      BY <1>3 DEF Horner
    <2>2. \A j \in 0 .. LongLen :
             f[j] = IF j = 0 THEN 0 ELSE f[j - 1] * Base + bytes[offset + j]
      BY <1>0, <1>2, <1>3 DEF Horner
    <2>3. f = [j \in 0 .. LongLen |->
                 IF j = 0 THEN 0 ELSE f[j - 1] * Base + bytes[offset + j]]
      BY <2>1, <2>2
    <2> QED
      BY <2>3
  <1>5. upTo = [j \in 0 .. LongLen |->
                        IF j = 0 THEN 0 ELSE upTo[j - 1] * Base + bytes[offset + j]]
    BY <1>4, Zenon
  <1>6. UnpackLong(bytes, offset) = upTo[LongLen]
    BY Zenon DEF UnpackLong
  <1> HIDE DEF upTo
  <1>7. T = {}
    <2> SUFFICES ASSUME T # {} PROVE FALSE
      OBVIOUS
    <2>1. T \subseteq Nat
      OBVIOUS
    <2>2. PICK j \in T : \A m \in T : j <= m
      <3> HIDE DEF T
      <3> QED
        BY <2>1, LeastNat
    <2>3. CASE j = 0
      <3>1. n \div Weight[LongLen] = 0
        BY <1>0, WeightType
      <3>2. upTo[0] = 0
        BY <1>0, <1>5
      <3> QED
        BY <1>0, <2>2, <2>3, <3>1, <3>2
    <2>4. CASE j # 0
      <3>1. j \in 1 .. LongLen /\ j - 1 \in 0 .. LongLen /\ j - 1 \notin T
        BY <1>0, <2>2, <2>4
      <3> DEFINE p == Weight[LongLen - j]
      <3>2. LongLen - j \in 0 .. LongLen /\ LongLen - (j - 1) \in 1 .. LongLen
              /\ LongLen - (j - 1) - 1 = LongLen - j
        BY <1>0, <3>1
      <3>3. p \in Nat \ {0} /\ Weight[LongLen - (j - 1)] = p * Base
        BY <3>2, WeightType, WeightUnfold
      <3>4. upTo[j - 1] = n \div (p * Base)
        BY <3>1, <3>3
      <3>5. bytes[offset + j] = (n \div p) % Base
        BY <3>1, PackLongType
      <3>6. upTo[j] = upTo[j - 1] * Base + bytes[offset + j]
        BY <1>5, <3>1, <2>4
      <3> HIDE DEF p
      <3>7. upTo[j] = n \div p
        <4>1. (n \div p) = ((n \div (p * Base)) * Base) + ((n \div p) % Base)
          BY <1>0, <3>3, DivTwice
        <4> QED
          BY <3>4, <3>5, <3>6, <4>1
      <3> QED
        BY <2>2, <3>7 DEF p
    <2> QED
      BY <2>3, <2>4
  <1>8. upTo[LongLen] = n \div Weight[0]
    BY <1>0, <1>7
  <1> QED
    BY <1>0, <1>6, <1>8, WeightUnfold

-----------------------------------------------------------------------------
(* Actions.                                                                *)

Purchase == [type : {"BuyYes", "BuyNo"}, order : Order]
Creation == [type : {"CreateMarket"}, proposal : Proposal]

(* An action is one or the other, with fields in range.                    *)
LEMMA ActionCases ==
    /\ Action = Purchase \cup Creation
    /\ \A x \in Purchase :
          /\ x.type # "CreateMarket"
          /\ x.order \in Order
          /\ x.order.MarketID \in U64 /\ x.order.Amount \in U64 /\ x.order.MaxPrice \in U64
          /\ Bytes(x) = BuyBytes(x.order)
    /\ \A x \in Creation :
          /\ x.type = "CreateMarket"
          /\ x.proposal \in Proposal
          /\ Bytes(x) = <<CreateMarketID, x.proposal>>
  <1>1. Action = Purchase \cup Creation
    BY DEF Action, Purchase, Creation
  <1>2. \A b \in Order : b.MarketID \in U64 /\ b.Amount \in U64 /\ b.MaxPrice \in U64
    BY WireAssumption, TradeAssumption DEF Order
  <1>3. ASSUME NEW x \in Purchase
        PROVE  x.type # "CreateMarket" /\ x.order \in Order /\ Bytes(x) = BuyBytes(x.order)
    BY DEF Purchase, Bytes
  <1>4. ASSUME NEW x \in Creation
        PROVE  /\ x.type = "CreateMarket" /\ x.proposal \in Proposal
               /\ Bytes(x) = <<CreateMarketID, x.proposal>>
    BY DEF Creation, Bytes, CreateMarketBytes
  <1> QED
    BY <1>1, <1>2, <1>3, <1>4

(* Positions in a concatenation.                                           *)
LEMMA Behind ==
    ASSUME NEW s \in Seq(Nat), NEW t \in Seq(Nat)
    PROVE  /\ s \o t \in Seq(Nat)
           /\ Len(s \o t) = Len(s) + Len(t)
           /\ \A j \in 1 .. Len(s) : (s \o t)[j] = s[j]
           /\ \A j \in 1 .. Len(t) : (s \o t)[Len(s) + j] = t[j]
  OBVIOUS

(* The bytes of a purchase are its three words, one behind the other.      *)
LEMMA BuyBytesLayout ==
    ASSUME NEW b \in Order, b.MarketID \in U64, b.Amount \in U64, b.MaxPrice \in U64
    PROVE  /\ Len(BuyBytes(b)) = 3 * LongLen
           /\ Head(BuyBytes(b)) = BuyBytes(b)[1]
           /\ \A j \in 1 .. LongLen :
                 /\ BuyBytes(b)[0 + j] = PackLong(b.MarketID)[j]
                 /\ BuyBytes(b)[LongLen + j] = PackLong(b.Amount)[j]
                 /\ BuyBytes(b)[2 * LongLen + j] = PackLong(b.MaxPrice)[j]
  <1> DEFINE u == PackLong(b.MarketID)
             v == PackLong(b.Amount)
             w == PackLong(b.MaxPrice)
  <1>1. u \in Seq(Nat) /\ v \in Seq(Nat) /\ w \in Seq(Nat)
    BY PackLongType
  <1>2. Len(u) = LongLen /\ Len(v) = LongLen /\ Len(w) = LongLen
    BY PackLongType
  <1>3. LongLen \in Nat \ {0}
    BY WireAssumption
  <1>4. BuyBytes(b) = (u \o v) \o w
    BY DEF BuyBytes
  <1> HIDE DEF u, v, w
  <1> DEFINE uv == u \o v
  <1>5. /\ uv \in Seq(Nat) /\ Len(uv) = Len(u) + Len(v)
        /\ \A j \in 1 .. Len(u) : uv[j] = u[j]
        /\ \A j \in 1 .. Len(v) : uv[Len(u) + j] = v[j]
    BY <1>1, Behind, Zenon
  <1> HIDE DEF uv
  <1>6. /\ uv \in Seq(Nat) /\ Len(uv) = 2 * LongLen
        /\ \A j \in 1 .. LongLen : uv[j] = u[j] /\ uv[LongLen + j] = v[j]
    BY <1>2, <1>3, <1>5
  <1> DEFINE uvw == uv \o w
  <1>7. /\ uvw \in Seq(Nat) /\ Len(uvw) = Len(uv) + Len(w)
        /\ \A j \in 1 .. Len(uv) : uvw[j] = uv[j]
        /\ \A j \in 1 .. Len(w) : uvw[Len(uv) + j] = w[j]
    BY <1>1, <1>6, Behind, Zenon
  <1> HIDE DEF uvw
  <1>8. /\ uvw \in Seq(Nat) /\ Len(uvw) = 3 * LongLen
        /\ \A j \in 1 .. (2 * LongLen) : uvw[j] = uv[j]
        /\ \A j \in 1 .. LongLen : uvw[2 * LongLen + j] = w[j]
    BY <1>2, <1>3, <1>6, <1>7
  <1>9. \A j \in 1 .. LongLen :
           j \in 1 .. (2 * LongLen) /\ LongLen + j \in 1 .. (2 * LongLen) /\ 0 + j = j
    BY <1>3
  <1>10. Head(uvw) = uvw[1]
    BY <1>3, <1>8
  <1>11. BuyBytes(b) = uvw
    BY <1>4 DEF uv, uvw
  <1> QED
    BY <1>6, <1>8, <1>9, <1>10, <1>11 DEF u, v, w

(* A purchase that is parsed is a BuyYes of the order that was signed.     *)
LEMMA ParsedOrder ==
    ASSUME NEW x \in Purchase
    PROVE  Parse(Bytes(x)) = [type |-> "BuyYes", order |-> x.order]
  <1> DEFINE b == x.order
             bytes == Bytes(x)
  <1>1. /\ b \in Order /\ b.MarketID \in U64 /\ b.Amount \in U64 /\ b.MaxPrice \in U64
        /\ bytes = BuyBytes(b)
    BY ActionCases
  <1>2. 0 \in Nat /\ LongLen \in Nat /\ 2 * LongLen \in Nat
    BY WireAssumption
  <1> HIDE DEF b, bytes
  <1>3. UnpackLong(bytes, 0) = b.MarketID
    BY <1>1, <1>2, BuyBytesLayout, UnpackPacked
  <1>4. UnpackLong(bytes, LongLen) = b.Amount
    BY <1>1, <1>2, BuyBytesLayout, UnpackPacked
  <1>5. UnpackLong(bytes, 2 * LongLen) = b.MaxPrice
    BY <1>1, <1>2, BuyBytesLayout, UnpackPacked
  <1>6. b = [MarketID |-> b.MarketID, Amount |-> b.Amount, MaxPrice |-> b.MaxPrice]
    BY <1>1 DEF Order
  <1>7. Parse(bytes) = [type |-> "BuyYes", order |-> b]
    BY <1>3, <1>4, <1>5, <1>6 DEF Parse, UnmarshalBuyYes
  <1> QED
    BY <1>7 DEF b, bytes

(* The first byte of a packed word is the topmost one.                     *)
LEMMA FirstByte ==
    ASSUME NEW n \in U64
    PROVE  PackLong(n)[1] = TopByte(n)
  <1> DEFINE p == Weight[LongLen - 1]
  <1>1. LongLen \in Nat \ {0} /\ Base \in Nat \ {0} /\ Word = Weight[LongLen]
    BY WireAssumption
  <1>2. p \in Nat \ {0} /\ Word = p * Base
    BY <1>1, WeightType, WeightUnfold
  <1>3. n \in Nat /\ n < p * Base
    BY <1>2, WordAssumption DEF U64
  <1>4. PackLong(n)[1] = (n \div p) % Base
    BY <1>1, PackLongType
  <1> HIDE DEF p
  <1>5. n \div p \in Nat /\ n \div p < Base
    BY <1>1, <1>2, <1>3
  <1>6. (n \div p) % Base = n \div p
    BY <1>1, <1>5
  <1> QED
    BY <1>4, <1>6 DEF TopByte, p

(* What TypeParser.Unmarshal refuses.                                      *)
LEMMA RefusedExactly ==
    ASSUME NEW x \in Action
    PROVE  ~ParseErr(Bytes(x)) <=>
              x \in Purchase /\ x.type # "CreateMarket" /\ TopByte(x.order.MarketID) = BuyYesID
  <1>1. CASE x \in Purchase
    <2>1. /\ Head(Bytes(x)) = TopByte(x.order.MarketID)
          /\ Len(Bytes(x)) = 3 * LongLen
      <3>1. /\ x.order \in Order /\ x.order.MarketID \in U64 /\ x.order.Amount \in U64
            /\ x.order.MaxPrice \in U64 /\ Bytes(x) = BuyBytes(x.order)
        BY <1>1, ActionCases
      <3>2. 1 \in 1 .. LongLen /\ 0 + 1 = 1
        BY WireAssumption
      <3>3. Head(Bytes(x)) = PackLong(x.order.MarketID)[1]
        BY <3>1, <3>2, BuyBytesLayout
      <3> QED
        BY <3>1, <3>3, BuyBytesLayout, FirstByte
    <2>2. x.type # "CreateMarket"
      BY <1>1, ActionCases
    <2>3. ~(Len(Bytes(x)) < 3 * LongLen)
      BY <2>1, WireAssumption
    <2> QED
      BY <1>1, <2>1, <2>2, <2>3 DEF ParseErr, Registered
  <1>2. CASE x \in Creation
    <2>1. x.type = "CreateMarket" /\ Head(Bytes(x)) = CreateMarketID
      BY <1>2, ActionCases
    <2> QED
      BY <2>1 DEF ParseErr, Registered, CreateMarketID, BuyYesID
  <1> QED
    BY <1>1, <1>2, ActionCases

(* A market that does not fit into a packed action does not fit into a     *)
(* market record.                                                          *)
LEMMA PanicUnstorable ==
    ASSUME NEW x \in Action, BytesPanic(x), NEW a \in Addr, NEW id \in MarketID
    PROVE  x.type = "CreateMarket" /\ SetMarketErr(NewMarket(a, x.proposal, id))
  <1> DEFINE text == x.proposal.text
  <1>1. x.type = "CreateMarket" /\ x \in Creation
    BY ActionCases DEF BytesPanic
  <1>2. text \in Text
    BY <1>1, ActionCases DEF Proposal
  <1>3. text.Description \in Nat /\ text.OracleSource \in Nat /\ text.OracleParameters \in Nat
    BY <1>2, TextAssumption
  <1>4. 26 + text.Description + text.OracleSource + text.OracleParameters > 1024
    BY DEF BytesPanic, CreateMarketSize, MaxCreateMarketSize
  <1>5. NewMarket(a, x.proposal, id).text
           = text.Description + text.OracleSource + text.OracleParameters
    BY DEF NewMarket
  <1> HIDE DEF text
  <1> QED
    BY <1>1, <1>3, <1>4, <1>5
    DEF SetMarketErr, MarketSize, MarketFixedSize, MaxMarketDataSize

-----------------------------------------------------------------------------
(* The invariant: how far each phase has brought the transaction.          *)

Packed ==
    /\ \A j \in DOMAIN sent : sent[j] \in Action
    /\ phase \in {"sent", "parsed", "rejected"} =>
          wire = [j \in DOMAIN sent |-> Bytes(sent[j])]

Decided ==
    /\ phase = "parsed" =>
          /\ \A j \in DOMAIN wire : ~ParseErr(wire[j])
          /\ got = [j \in DOMAIN wire |-> Parse(wire[j])]
    /\ phase = "rejected" => \E j \in DOMAIN wire : ParseErr(wire[j])
    /\ phase = "panic" => \E j \in DOMAIN sent : BytesPanic(sent[j])

WireInv == Packed /\ Decided

(* Nothing is packed at first.                                             *)
LEMMA InitWireInv == Init => WireInv
  BY DEF Init, WireInv, Packed, Decided

(* Packing and parsing keep the invariant.                                 *)
LEMMA NextWireInv == WireInv /\ [Next]_vars => WireInv'
  <1> SUFFICES ASSUME WireInv, [Next]_vars PROVE WireInv'
    OBVIOUS
  <1> USE DEF WireInv, Packed, Decided
  <1>1. CASE NewTxData
    <2>1. \A j \in DOMAIN sent' : sent'[j] \in Action
      BY <1>1 DEF NewTxData
    <2>2. CASE \E j \in DOMAIN sent' : BytesPanic(sent'[j])
      BY <1>1, <2>1, <2>2 DEF NewTxData
    <2>3. CASE ~ \E j \in DOMAIN sent' : BytesPanic(sent'[j])
      BY <1>1, <2>1, <2>3 DEF NewTxData
    <2> QED
      BY <2>2, <2>3
  <1>2. CASE UnmarshalTx
    <2>1. CASE \E j \in DOMAIN wire : ParseErr(wire[j])
      BY <1>2, <2>1 DEF UnmarshalTx
    <2>2. CASE ~ \E j \in DOMAIN wire : ParseErr(wire[j])
      BY <1>2, <2>2 DEF UnmarshalTx
    <2> QED
      BY <2>1, <2>2
  <1>3. CASE Reset
    BY <1>3 DEF Reset
  <1>4. CASE UNCHANGED vars
    BY <1>4 DEF vars
  <1> QED
    BY <1>1, <1>2, <1>3, <1>4 DEF Next

(* The invariant of every behaviour.                                       *)
LEMMA Invariance == Spec => []WireInv
  BY InitWireInv, NextWireInv, PTL DEF Spec

(* Whatever the actions of a transaction, what a node has parsed of it are *)
(* the orders that were signed, all of them as BuyYes (transaction.go      *)
(* UnmarshalTx, UnmarshalBuyYes, the Bytes of BuyYes and BuyNo).           *)
THEOREM ParsedSafe == Spec => []ParsedAsBuyYes
  <1>1. WireInv => ParsedAsBuyYes
    <2> SUFFICES ASSUME WireInv, phase = "parsed"
                 PROVE  got = [j \in DOMAIN sent |->
                                  [type |-> "BuyYes", order |-> sent[j].order]]
      BY DEF ParsedAsBuyYes
    <2>1. /\ \A j \in DOMAIN sent : sent[j] \in Action
          /\ wire = [j \in DOMAIN sent |-> Bytes(sent[j])]
          /\ \A j \in DOMAIN wire : ~ParseErr(wire[j])
          /\ got = [j \in DOMAIN wire |-> Parse(wire[j])]
      BY DEF WireInv, Packed, Decided
    <2>2. DOMAIN wire = DOMAIN sent /\ DOMAIN got = DOMAIN sent
      BY <2>1
    <2>3. ASSUME NEW j \in DOMAIN sent
          PROVE  got[j] = [type |-> "BuyYes", order |-> sent[j].order]
      <3>1. wire[j] = Bytes(sent[j]) /\ got[j] = Parse(Bytes(sent[j]))
        BY <2>1, <2>2
      <3>2. sent[j] \in Purchase
        BY <2>1, <2>2, <3>1, RefusedExactly
      <3> QED
        BY <3>1, <3>2, ParsedOrder
    <2>4. got = [j \in DOMAIN sent |-> got[j]]
      BY <2>1, <2>2
    <2> QED
      BY <2>3, <2>4
  <1> QED
    BY <1>1, Invariance, PTL

(* Whatever the sizes of bytes and words, a node accepts exactly the       *)
(* transactions of purchases on markets whose ID starts with BuyYes's type *)
(* ID (vm.go init, type_parser.go Unmarshal).                              *)
THEOREM AcceptedSafe == Spec => []AcceptedExactly
  <1>1. WireInv => AcceptedExactly
    <2> SUFFICES ASSUME WireInv, phase \in {"parsed", "rejected"}
                 PROVE  phase = "parsed" <=>
                          \A j \in DOMAIN sent : /\ sent[j].type # "CreateMarket"
                                                 /\ TopByte(sent[j].order.MarketID) = BuyYesID
      BY DEF AcceptedExactly
    <2>1. /\ \A j \in DOMAIN sent : sent[j] \in Action
          /\ wire = [j \in DOMAIN sent |-> Bytes(sent[j])]
      BY DEF WireInv, Packed
    <2>2. phase = "parsed" <=> \A j \in DOMAIN sent : ~ParseErr(Bytes(sent[j]))
      BY <2>1 DEF WireInv, Decided
    <2>3. ASSUME NEW j \in DOMAIN sent
          PROVE  ~ParseErr(Bytes(sent[j])) <=>
                    /\ sent[j].type # "CreateMarket"
                    /\ TopByte(sent[j].order.MarketID) = BuyYesID
      <3>1. sent[j].type # "CreateMarket" => sent[j] \in Purchase
        BY <2>1, ActionCases
      <3> QED
        BY <2>1, <3>1, RefusedExactly
    <2> QED
      BY <2>2, <2>3
  <1> QED
    BY <1>1, Invariance, PTL

(* Whatever the lengths of its texts, a CreateMarket on which Bytes panics *)
(* is one that SetMarket would have refused (create_market_action.go       *)
(* Bytes, storage/market.go SetMarket).                                    *)
THEOREM PanicSafe == Spec => []PanicsOnlyOnUnstorable
  <1>1. WireInv => PanicsOnlyOnUnstorable
    <2> SUFFICES ASSUME WireInv, phase = "panic"
                 PROVE  \E j \in DOMAIN sent :
                          /\ sent[j].type = "CreateMarket"
                          /\ \A a \in Addr, id \in MarketID :
                                SetMarketErr(NewMarket(a, sent[j].proposal, id))
      BY DEF PanicsOnlyOnUnstorable
    <2>1. PICK j \in DOMAIN sent : sent[j] \in Action /\ BytesPanic(sent[j])
      BY DEF WireInv, Packed, Decided
    <2>2. sent[j].type = "CreateMarket"
      BY <2>1 DEF BytesPanic
    <2>3. \A a \in Addr, id \in MarketID : SetMarketErr(NewMarket(a, sent[j].proposal, id))
      BY <2>1, PanicUnstorable
    <2> QED
      BY <2>2, <2>3
  <1> QED
    BY <1>1, Invariance, PTL
=============================================================================
