---------------------------- MODULE Ledger_proofs ----------------------------
(***************************************************************************)
(* The facts that the proofs about the chain state share, for all          *)
(* constants: uint64 arithmetic, the key layout and the accessors of       *)
(* Storage, sums over finite sets, the state that genesis leaves, single   *)
(* transactions (Transactions) and the order of the executor's queue       *)
(* (Executor).                                                             *)
(***************************************************************************)
EXTENDS Executor, FiniteSetTheorems, WellFoundedInduction, TLAPS

-----------------------------------------------------------------------------
(* Machine words, keys and writes.                                         *)

(* uint64 arithmetic stays in range (Wrap, Go's uint64 operators).         *)
LEMMA WrapInU64 == ASSUME NEW n \in Int PROVE Wrap(n) \in U64
  BY WordAssumption DEF Wrap, U64

(* uint64 addition wraps at most once (Go's + on uint64).                  *)
LEMMA WrapOnce ==
    ASSUME NEW n \in U64
    PROVE  Wrap(n) = n /\ Wrap(n + Word) = n /\ Wrap(n - Word) = n
  <1>1. Wrap(n) = n
    BY WordAssumption DEF Wrap, U64
  <1>2. Wrap(n + Word) = n
    BY WordAssumption DEF Wrap, U64
  <1>3. Wrap(n - Word) = n
    BY WordAssumption DEF Wrap, U64
  <1> QED
    BY <1>1, <1>2, <1>3

(* What was added to a uint64 can be recovered from the sum, wrapped or    *)
(* not.                                                                    *)
LEMMA WrapDifference ==
    ASSUME NEW x \in U64, NEW n \in U64
    PROVE  Wrap(Wrap(x + n) - x) = n
  <1>1. CASE x + n < Word
    <2>1. x + n \in U64
      BY <1>1, WordAssumption DEF U64
    <2>2. Wrap(x + n) = x + n
      BY <2>1, WrapOnce
    <2>3. (x + n) - x = n
      BY WordAssumption DEF U64
    <2> QED
      BY <2>2, <2>3, WrapOnce
  <1>2. CASE x + n >= Word
    <2>1. (x + n) - Word \in U64 /\ ((x + n) - Word) + Word = x + n
      BY <1>2, WordAssumption DEF U64
    <2>2. Wrap(x + n) = (x + n) - Word
      BY <2>1, WrapOnce
    <2>3. ((x + n) - Word) - x = n - Word
      BY WordAssumption DEF U64
    <2> QED
      BY <2>2, <2>3, WrapOnce
  <1>3. x + n \in Int /\ Word \in Int
    BY WordAssumption DEF U64
  <1> QED
    BY <1>1, <1>2, <1>3

(* An integer and its uint64 value differ by a multiple of the word.       *)
LEMMA WrapQuotient ==
    ASSUME NEW n \in Int
    PROVE  \E q \in Int : n = Word * q + Wrap(n)
  <1>1. Word \in Int /\ Word > 0
    BY WordAssumption
  <1>2. n \div Word \in Int /\ n % Word = n - Word * (n \div Word)
    BY <1>1
  <1> QED
    BY <1>1, <1>2 DEF Wrap

(* Multiples of the word do not show in a uint64.                          *)
LEMMA WrapOfMultiple ==
    ASSUME NEW q \in Int, NEW r \in U64
    PROVE  Wrap(Word * q + r) = r
  BY WordAssumption DEF Wrap, U64

(* A sum may be wrapped term by term.                                      *)
LEMMA WrapSum ==
    ASSUME NEW n \in Int, NEW k \in U64
    PROVE  Wrap(n - Word) = Wrap(n) /\ Wrap(Wrap(n) + k) = Wrap(n + k)
  <1> DEFINE r == Wrap(n)
  <1>1. PICK q \in Int : n = Word * q + r
    BY WrapQuotient
  <1>2. r \in U64 /\ r \in Int /\ k \in Int /\ Word \in Int
    BY WrapInU64, WordAssumption DEF U64
  <1> HIDE DEF r
  <1>3. Wrap(n - Word) = r
    <2>1. n - Word = Word * (q - 1) + r
      BY <1>1, <1>2
    <2>2. q - 1 \in Int
      OBVIOUS
    <2>3. Wrap(Word * (q - 1) + r) = r
      BY <1>2, <2>2, WrapOfMultiple, Zenon
    <2> QED
      BY <2>1, <2>3
  <1>4. CASE r + k < Word
    <2>1. r + k \in U64
      BY <1>2, <1>4, WordAssumption DEF U64
    <2>2. n + k = Word * q + (r + k)
      BY <1>1, <1>2
    <2>3. Wrap(n + k) = r + k
      BY <2>1, <2>2, WrapOfMultiple
    <2> QED
      BY <1>3, <2>1, <2>3, WrapOnce DEF r
  <1>5. CASE r + k >= Word
    <2>1. (r + k) - Word \in U64 /\ ((r + k) - Word) + Word = r + k
      BY <1>2, <1>5, WordAssumption DEF U64
    <2>2. n + k = Word * (q + 1) + ((r + k) - Word)
      BY <1>1, <1>2
    <2>3. Wrap(n + k) = (r + k) - Word
      BY <2>1, <2>2, WrapOfMultiple
    <2>4. Wrap(r + k) = (r + k) - Word
      BY <2>1, WrapOnce
    <2> QED
      BY <1>3, <2>3, <2>4 DEF r
  <1> QED
    BY <1>2, <1>4, <1>5

(* A total and a sum of holdings that are both raised by n in uint64       *)
(* arithmetic stay as far apart as they were.                              *)
LEMMA WrapPace ==
    ASSUME NEW old \in U64, NEW x \in U64, NEW n \in U64, NEW h \in Int
    PROVE  Wrap(Wrap(old + n) - (h + (Wrap(x + n) - x))) = Wrap(old - h)
  <1> DEFINE d == old - h
  <1>1. /\ Word \in Int /\ old \in Int /\ x \in Int /\ n \in Int /\ d \in Int
        /\ n < Word /\ old < Word /\ x < Word
    BY WordAssumption DEF U64
  <1>2. ASSUME NEW y \in U64
        PROVE  Wrap(y + n) = y + n \/ Wrap(y + n) = (y + n) - Word
    <2>1. CASE y + n < Word
      <3>1. y + n \in U64
        BY <2>1, WordAssumption DEF U64
      <3> QED
        BY <3>1, WrapOnce
    <2>2. CASE y + n >= Word
      <3>1. (y + n) - Word \in U64 /\ ((y + n) - Word) + Word = y + n
        BY <2>2, WordAssumption DEF U64
      <3> QED
        BY <3>1, WrapOnce
    <2> QED
      BY <1>1, <2>1, <2>2 DEF U64
  <1>3. Wrap(d - Word) = Wrap(d)
    <2>1. 0 \in U64
      BY WordAssumption DEF U64
    <2> QED
      BY <1>1, <2>1, WrapSum
  <1>4. Wrap(d + Word) = Wrap(d)
    <2>1. 0 \in U64 /\ d + Word \in Int
      BY <1>1, WordAssumption DEF U64
    <2>2. Wrap((d + Word) - Word) = Wrap(d + Word)
      BY <2>1, WrapSum
    <2>3. (d + Word) - Word = d
      BY <1>1
    <2> QED
      BY <2>2, <2>3
  <1> DEFINE e == Wrap(old + n) - (h + (Wrap(x + n) - x))
  <1>5. e = d \/ e = d - Word \/ e = d + Word
    <2>1. Wrap(old + n) = old + n \/ Wrap(old + n) = (old + n) - Word
      BY <1>2
    <2>2. Wrap(x + n) = x + n \/ Wrap(x + n) = (x + n) - Word
      BY <1>2
    <2> QED
      BY <1>1, <2>1, <2>2
  <1> HIDE DEF d, e
  <1>6. Wrap(e) = Wrap(d)
    BY <1>3, <1>4, <1>5
  <1> QED
    BY <1>6 DEF d, e

(* Keys of the four families are well formed.                              *)
LEMMA KeysInKey ==
    /\ \A a \in Addr : BalanceKey(a) \in Key /\ StateKeysBalance(a) \in Key
    /\ \A m \in MarketID : MarketKey(m) \in Key
    /\ \A m \in MarketID, a \in Addr, t \in ShareType :
          ShareBalanceKey(m, a, t) \in Key
  BY DEF Key

(* The layout of storage/state.go, market.go and storage.go keeps the four *)
(* families of records apart.                                              *)
LEMMA FamiliesDisjoint ==
    ASSUME NEW a, NEW b, NEW m, NEW n, NEW t
    PROVE  /\ BalanceKey(a) # StateKeysBalance(b)
           /\ BalanceKey(a) # MarketKey(m)
           /\ BalanceKey(a) # ShareBalanceKey(m, b, t)
           /\ StateKeysBalance(a) # MarketKey(m)
           /\ StateKeysBalance(a) # ShareBalanceKey(m, b, t)
           /\ MarketKey(n) # ShareBalanceKey(m, b, t)
  BY DEF BalanceKey, StateKeysBalance, MarketKey, ShareBalanceKey,
         ConstsBalancePrefix, BalanceChunks, StorageBalancePrefix,
         MarketPrefix, ShareBalancePrefix

(* Within a family, a key determines what it was made from.                *)
LEMMA KeysInjective ==
    /\ \A a, b : BalanceKey(a) = BalanceKey(b) => a = b
    /\ \A a, b : StateKeysBalance(a) = StateKeysBalance(b) => a = b
    /\ \A m, n : MarketKey(m) = MarketKey(n) => m = n
    /\ \A m, n, a, b, t, u :
          ShareBalanceKey(m, a, t) = ShareBalanceKey(n, b, u)
              => m = n /\ a = b /\ t = u
  BY DEF BalanceKey, StateKeysBalance, MarketKey, ShareBalanceKey

(* s is st after state.Mutable.Insert has put v under k.                   *)
Puts(st, s, k, v) ==
    /\ s = [j \in Key |-> s[j]]
    /\ s[k] = v
    /\ \A j \in Key : j # k => s[j] = st[j]

(* Writing one record leaves every other one alone.                        *)
LEMMA InsertPuts ==
    ASSUME NEW st, StoreOK(st), NEW k \in Key, NEW v, NEW s, s = [st EXCEPT ![k] = v]
    PROVE  Puts(st, s, k, v)
  BY DEF StoreOK, Puts

(* A write that puts under a key what records of that family hold keeps    *)
(* the store well formed.                                                  *)
LEMMA PutsOK ==
    ASSUME NEW st, StoreOK(st), NEW k \in Key, NEW v, NEW s, Puts(st, s, k, v),
           \A a \in Addr : k = BalanceKey(a) => v \in U64 \cup {NotFound},
           \A a \in Addr : k = StateKeysBalance(a) => v \in U64 \cup {NotFound},
           \A m \in MarketID : k = MarketKey(m) => v \in Market \cup {NotFound},
           \A m \in MarketID, a \in Addr, t \in ShareType :
              k = ShareBalanceKey(m, a, t) => v \in U64 \cup {NotFound}
    PROVE  StoreOK(s)
  <1>1. \A a \in Addr : s[BalanceKey(a)] \in U64 \cup {NotFound}
    BY KeysInKey DEF StoreOK, Puts
  <1>2. \A a \in Addr : s[StateKeysBalance(a)] \in U64 \cup {NotFound}
    BY KeysInKey DEF StoreOK, Puts
  <1>3. \A m \in MarketID : s[MarketKey(m)] \in Market \cup {NotFound}
    BY KeysInKey DEF StoreOK, Puts
  <1>4. \A m \in MarketID, a \in Addr, t \in ShareType :
           s[ShareBalanceKey(m, a, t)] \in U64 \cup {NotFound}
    BY KeysInKey DEF StoreOK, Puts
  <1> QED
    BY <1>1, <1>2, <1>3, <1>4 DEF StoreOK, Puts

(* Writing an account's balance record (SetBalance, and the debit of a     *)
(* purchase) keeps the store well formed.                                  *)
LEMMA PutsBalanceOK ==
    ASSUME NEW st, StoreOK(st), NEW a \in Addr, NEW v \in U64, NEW s,
           Puts(st, s, BalanceKey(a), v)
    PROVE  StoreOK(s)
  BY PutsOK, KeysInKey, FamiliesDisjoint

(* Writing a share record (SetShareBalance) keeps the store well formed.   *)
LEMMA PutsSharesOK ==
    ASSUME NEW st, StoreOK(st), NEW m \in MarketID, NEW a \in Addr,
           NEW t \in ShareType, NEW v \in U64, NEW s,
           Puts(st, s, ShareBalanceKey(m, a, t), v)
    PROVE  StoreOK(s)
  <1> DEFINE k == ShareBalanceKey(m, a, t)
  <1>1. k \in Key
    BY KeysInKey
  <1>2. /\ \A c \in Addr : k # BalanceKey(c) /\ k # StateKeysBalance(c)
        /\ \A n \in MarketID : k # MarketKey(n)
    BY FamiliesDisjoint
  <1> HIDE DEF k
  <1>3. Puts(st, s, k, v)
    BY DEF k
  <1> QED
    BY <1>1, <1>2, <1>3, PutsOK

(* Writing a market record (SetMarket) keeps the store well formed.        *)
LEMMA PutsMarketOK ==
    ASSUME NEW st, StoreOK(st), NEW m \in MarketID, NEW v \in Market, NEW s,
           Puts(st, s, MarketKey(m), v)
    PROVE  StoreOK(s)
  <1> DEFINE k == MarketKey(m)
  <1>1. k \in Key
    BY KeysInKey
  <1>2. /\ \A c \in Addr : k # BalanceKey(c) /\ k # StateKeysBalance(c)
        /\ \A n \in MarketID, c \in Addr, u \in ShareType : k # ShareBalanceKey(n, c, u)
    BY FamiliesDisjoint
  <1> HIDE DEF k
  <1>3. Puts(st, s, k, v)
    BY DEF k
  <1> QED
    BY <1>1, <1>2, <1>3, PutsOK

(* GetShareBalance yields a uint64 for every well-formed record.           *)
LEMMA GetShareBalanceType ==
    ASSUME NEW st, StoreOK(st), NEW m \in MarketID, NEW a \in Addr, NEW t \in ShareType
    PROVE  GetShareBalance(st, m, a, t) \in U64
  BY WordAssumption DEF StoreOK, GetShareBalance, ZeroIfNotFound, U64

-----------------------------------------------------------------------------
(* The store genesis leaves, record by record.                             *)
LEMMA GenesisRecords ==
    ASSUME NEW seed \in Seeds, NEW st, st = GenesisStore(seed)
    PROVE  /\ st = [k \in Key |-> st[k]]
           /\ \A a \in Addr : st[BalanceKey(a)] = Genesis[a]
           /\ \A a \in Addr : st[StateKeysBalance(a)] = NotFound
           /\ \A m \in MarketID : st[MarketKey(m)] = seed[m]
           /\ \A m \in MarketID, a \in Addr, t \in ShareType :
                 st[ShareBalanceKey(m, a, t)] = NotFound
  <1>1. st = [k \in Key |-> st[k]]
    BY DEF GenesisStore
  <1>2. ASSUME NEW a \in Addr
        PROVE  st[BalanceKey(a)] = Genesis[a] /\ st[StateKeysBalance(a)] = NotFound
    <2>1. BalanceKey(a) \in Key /\ StateKeysBalance(a) \in Key
      BY KeysInKey
    <2>2. /\ BalanceKey(a)[1] = 3 /\ BalanceKey(a)[2] = a
          /\ StateKeysBalance(a)[1] = 0
      BY DEF BalanceKey, StateKeysBalance, ConstsBalancePrefix, StorageBalancePrefix
    <2> QED
      BY <2>1, <2>2 DEF GenesisStore, ConstsBalancePrefix, MarketPrefix
  <1>3. ASSUME NEW m \in MarketID
        PROVE  st[MarketKey(m)] = seed[m]
    <2>1. MarketKey(m) \in Key
      BY KeysInKey
    <2>2. MarketKey(m)[1] = 1 /\ MarketKey(m)[2] = m
      BY DEF MarketKey, MarketPrefix
    <2> QED
      BY <2>1, <2>2 DEF GenesisStore, ConstsBalancePrefix, MarketPrefix
  <1>4. ASSUME NEW m \in MarketID, NEW a \in Addr, NEW t \in ShareType
        PROVE  st[ShareBalanceKey(m, a, t)] = NotFound
    <2>1. ShareBalanceKey(m, a, t) \in Key
      BY KeysInKey
    <2>2. ShareBalanceKey(m, a, t)[1] = 2
      BY DEF ShareBalanceKey, ShareBalancePrefix
    <2> QED
      BY <2>1, <2>2 DEF GenesisStore, ConstsBalancePrefix, MarketPrefix
  <1> QED
    BY <1>1, <1>2, <1>3, <1>4
-----------------------------------------------------------------------------
(* Induction, as the choice of a least counterexample, and sums.           *)

(* A set of natural numbers has a least element.                           *)
LEMMA LeastNat ==
    ASSUME NEW T, T \subseteq Nat, T # {}
    PROVE  \E n \in T : \A m \in T : n <= m
  <1>1. PICK n \in T : \A m \in T : ~ (<<m, n>> \in OpToRel(<, Nat))
    BY WFMin, NatLessThanWellFounded
  <1>2. \A m \in T : <<m, n>> \in OpToRel(<, Nat) <=> m < n
    BY DEF OpToRel
  <1>3. \A m \in T : ~(m < n)
    BY <1>1, <1>2, Zenon
  <1> HIDE <1>1, <1>2
  <1> QED
    BY <1>3

(* A set of subsets of a finite set has a minimal one.                     *)
LEMMA MinimalSubset ==
    ASSUME NEW S, IsFiniteSet(S), NEW T, T \subseteq SUBSET S, T # {}
    PROVE  \E u \in T : \A v \in T : v \subseteq u => v = u
  <1>1. T \subseteq FiniteSubsetsOf(S)
    BY FS_Subset DEF FiniteSubsetsOf
  <1>2. PICK x \in T : \A y \in T : ~(<<y, x>> \in StrictSubsetOrdering(S))
    BY <1>1, WFMin, FS_StrictSubsetOrderingWellFounded, Zenon
  <1>3. \A y \in T : y \subseteq x /\ y # x => <<y, x>> \in StrictSubsetOrdering(S)
    BY DEF StrictSubsetOrdering
  <1>4. \A y \in T : y \subseteq x => y = x
    BY <1>2, <1>3, Zenon
  <1> QED
    BY <1>4, Zenon

(* The element that MapThenSumSet takes next.                              *)
Some(s) == CHOOSE x \in s : TRUE

(* g sums f over every subset of S, element by element.                    *)
IsSum(g, f, S) ==
    g = [s \in SUBSET S |-> IF s = {} THEN 0 ELSE f[Some(s)] + g[s \ {Some(s)}]]

(* The sum over a subset, by the element that is taken next.               *)
LEMMA SumAt ==
    ASSUME NEW g, NEW f, NEW S, IsSum(g, f, S), NEW s \in SUBSET S
    PROVE  /\ s = {} => g[s] = 0
           /\ s # {} => /\ g[s] = f[Some(s)] + g[s \ {Some(s)}]
                        /\ Some(s) \in s /\ s \ {Some(s)} \in SUBSET S
  <1>1. s # {} => Some(s) \in s
    BY DEF Some
  <1> QED
    BY <1>1 DEF IsSum

(* Over a finite set there is such a function: by the size of the subsets. *)
LEMMA SumExists ==
    ASSUME NEW S, IsFiniteSet(S), NEW f
    PROVE  \E g : IsSum(g, f, S)
  <1> DEFINE K == Cardinality(S)
             Step(g, s) == IF s = {} THEN 0 ELSE f[Some(s)] + g[s \ {Some(s)}]
             Upto(g, n) == \A s \in SUBSET S : Cardinality(s) <= n => g[s] = Step(g, s)
             T == {n \in 0 .. K : ~ \E g : Upto(g, n)}
  <1>1. K \in Nat
    BY FS_CardinalityType
  <1>2. \A s \in SUBSET S : /\ Cardinality(s) \in 0 .. K
                            /\ Cardinality(s) = 0 <=> s = {}
    <2> SUFFICES ASSUME NEW s \in SUBSET S
                 PROVE  Cardinality(s) \in 0 .. K /\ (Cardinality(s) = 0 <=> s = {})
      OBVIOUS
    <2>1. IsFiniteSet(s) /\ Cardinality(s) <= K
      BY FS_Subset
    <2> QED
      BY <1>1, <2>1, FS_CardinalityType, FS_EmptySet
  <1>3. \A s \in SUBSET S : s # {} => /\ s \ {Some(s)} \in SUBSET S
                                      /\ Cardinality(s \ {Some(s)}) = Cardinality(s) - 1
    <2> SUFFICES ASSUME NEW s \in SUBSET S, s # {}
                 PROVE  Cardinality(s \ {Some(s)}) = Cardinality(s) - 1
      OBVIOUS
    <2>1. IsFiniteSet(s)
      BY FS_Subset
    <2>2. Some(s) \in s
      BY DEF Some
    <2> QED
      BY <2>1, <2>2, FS_RemoveElement
  <1>4. T = {}
    <2> SUFFICES ASSUME T # {} PROVE FALSE
      OBVIOUS
    <2>1. T \subseteq Nat
      BY <1>1
    <2> HIDE DEF T
    <2>2. PICK n \in T : \A m \in T : n <= m
      BY <2>1, LeastNat
    <2>3. n \in 0 .. K /\ ~ \E g : Upto(g, n)
      BY DEF T
    <2>4. n - 1 \notin T
      BY <1>1, <2>2, <2>3
    <2>5. CASE n = 0
      <3>1. Upto([s \in SUBSET S |-> 0], 0)
        BY <1>2
      <3> QED
        BY <2>3, <2>5, <3>1
    <2>6. CASE n # 0
      <3>1. n - 1 \in 0 .. K
        BY <1>1, <2>3, <2>6
      <3>2. PICK g : Upto(g, n - 1)
        BY <2>4, <3>1 DEF T
      <3> DEFINE h == [s \in SUBSET S |-> IF Cardinality(s) <= n - 1 THEN g[s] ELSE Step(g, s)]
      <3>3. Upto(h, n)
        <4> SUFFICES ASSUME NEW s \in SUBSET S, Cardinality(s) <= n PROVE h[s] = Step(h, s)
          OBVIOUS
        <4>1. CASE s = {}
          <5>1. h[s] = 0
            BY <1>2, <2>3, <3>2, <4>1
          <5> QED
            BY <4>1, <5>1
        <4>2. CASE s # {}
          <5> DEFINE r == s \ {Some(s)}
          <5>1. r \in SUBSET S /\ Cardinality(r) = Cardinality(s) - 1
            BY <1>3, <4>2
          <5>2. Cardinality(r) <= n - 1
            BY <1>2, <2>3, <5>1
          <5>3. h[r] = g[r]
            BY <5>1, <5>2
          <5>4. g[s] = Step(g, s) \/ ~(Cardinality(s) <= n - 1)
            BY <3>2
          <5>5. h[s] = Step(g, s)
            BY <5>4
          <5> HIDE DEF h
          <5> QED
            BY <4>2, <5>3, <5>5
        <4> QED
          BY <4>1, <4>2
      <3> HIDE DEF h
      <3> QED
        BY <2>3, <3>3
    <2> QED
      BY <2>5, <2>6
  <1>5. \E g : Upto(g, K)
    <2>1. K \in 0 .. K
      BY <1>1
    <2> HIDE DEF K, Upto
    <2> QED
      BY <1>4, <2>1, Zenon
  <1>6. PICK g : Upto(g, K)
    BY <1>5
  <1> DEFINE h == [s \in SUBSET S |-> g[s]]
  <1>7. \A s \in SUBSET S : h[s] = Step(h, s)
    <2> SUFFICES ASSUME NEW s \in SUBSET S PROVE h[s] = Step(h, s)
      OBVIOUS
    <2>1. Cardinality(s) <= K
      BY <1>1, <1>2
    <2>2. g[s] = Step(g, s)
      BY <1>6, <2>1
    <2>3. h[s] = g[s] /\ (s # {} => h[s \ {Some(s)}] = g[s \ {Some(s)}])
      BY <1>3
    <2> HIDE DEF h
    <2> QED
      BY <2>2, <2>3
  <1>8. h = [s \in SUBSET S |-> h[s]]
    OBVIOUS
  <1> HIDE DEF h
  <1>9. h = [s \in SUBSET S |-> Step(h, s)]
    BY <1>7, <1>8
  <1> QED
    BY <1>9 DEF IsSum

(* Sums of integers are integers, and a change of one summand moves the    *)
(* sum by as much.                                                         *)
LEMMA SumMoves ==
    ASSUME NEW S, IsFiniteSet(S), NEW a \in S,
           NEW f \in [S -> Int], NEW e \in [S -> Int], \A x \in S \ {a} : e[x] = f[x],
           NEW g, IsSum(g, f, S), NEW h, IsSum(h, e, S)
    PROVE  g[S] \in Int /\ h[S] = g[S] + (e[a] - f[a])
  <1> DEFINE d(s) == IF a \in s THEN e[a] - f[a] ELSE 0
             OK(s) == g[s] \in Int /\ h[s] = g[s] + d(s)
             T == {s \in SUBSET S : ~OK(s)}
  <1>1. T = {}
    <2> SUFFICES ASSUME T # {} PROVE FALSE
      OBVIOUS
    <2>1. T \subseteq SUBSET S
      OBVIOUS
    <2> HIDE DEF T
    <2>2. PICK s \in T : \A v \in T : v \subseteq s => v = s
      BY <2>1, MinimalSubset
    <2>3. s \in SUBSET S /\ ~OK(s)
      BY DEF T
    <2>4. CASE s = {}
      <3>1. g[s] = 0
        BY <2>3, <2>4 DEF IsSum
      <3>2. h[s] = 0
        BY <2>3, <2>4 DEF IsSum
      <3> QED
        BY <2>3, <2>4, <3>1, <3>2
    <2>5. CASE s # {}
      <3> DEFINE x == Some(s)
                 r == s \ {x}
      <3>1. x \in s /\ r \in SUBSET S /\ g[s] = f[x] + g[r] /\ h[s] = e[x] + h[r]
        BY <2>3, <2>5, SumAt
      <3> HIDE DEF x
      <3>2. r # s /\ r \subseteq s /\ x \in S
        BY <2>3, <3>1
      <3>3. r \notin T
        BY <2>2, <3>2
      <3>4. OK(r)
        BY <3>1, <3>3 DEF T
      <3>5. f[x] \in Int /\ e[x] \in Int /\ f[a] \in Int /\ e[a] \in Int
        BY <3>2
      <3>6. CASE x = a
        <4>1. d(r) = 0 /\ d(s) = e[a] - f[a]
          BY <3>1, <3>6
        <4> QED
          BY <2>3, <3>1, <3>4, <3>5, <3>6, <4>1
      <3>7. CASE x # a
        <4>1. d(r) = d(s) /\ e[x] = f[x] /\ d(s) \in Int
          BY <3>2, <3>5, <3>7
        <4> QED
          BY <2>3, <3>1, <3>4, <3>5, <4>1
      <3> QED
        BY <3>6, <3>7
    <2> QED
      BY <2>4, <2>5
  <1>2. OK(S)
    BY <1>1
  <1> QED
    BY <1>2

(* A sum of zeros.                                                         *)
LEMMA SumZero ==
    ASSUME NEW S, IsFiniteSet(S), NEW f, \A x \in S : f[x] = 0, NEW g, IsSum(g, f, S)
    PROVE  g[S] = 0
  <1> DEFINE T == {s \in SUBSET S : g[s] # 0}
  <1>1. T = {}
    <2> SUFFICES ASSUME T # {} PROVE FALSE
      OBVIOUS
    <2>1. T \subseteq SUBSET S
      OBVIOUS
    <2> HIDE DEF T
    <2>2. PICK s \in T : \A v \in T : v \subseteq s => v = s
      BY <2>1, MinimalSubset
    <2>3. s \in SUBSET S /\ g[s] # 0
      BY DEF T
    <2>4. s # {}
      BY <2>3, SumAt
    <2> DEFINE x == Some(s)
               r == s \ {x}
    <2>5. x \in s /\ r \in SUBSET S /\ g[s] = f[x] + g[r]
      BY <2>3, <2>4, SumAt
    <2> HIDE DEF x
    <2>6. r \notin T
      BY <2>2, <2>5
    <2>7. g[r] = 0 /\ f[x] = 0
      BY <2>3, <2>5, <2>6 DEF T
    <2> QED
      BY <2>3, <2>5, <2>7
  <1> QED
    BY <1>1

(* What the accounts hold of one side of a market, each of them.           *)
SharesOf(st, m, t) == [c \in Addr |-> GetShareBalance(st, m, c, t)]

(* MapThenSumSet is a sum in the sense of IsSum.                           *)
LEMMA HeldIsSum ==
    ASSUME NEW st, NEW m, NEW t
    PROVE  \E g : IsSum(g, SharesOf(st, m, t), Addr) /\ Held(st, m, t) = g[Addr]
  <1> DEFINE f == SharesOf(st, m, t)
             Body(g) == [s \in SUBSET Addr |->
                            IF s = {} THEN 0
                            ELSE GetShareBalance(st, m, Some(s), t) + g[s \ {Some(s)}]]
  <1>1. \E g : IsSum(g, f, Addr)
    BY AddrAssumption, SumExists
  <1>2. \A s \in SUBSET Addr : s # {} => f[Some(s)] = GetShareBalance(st, m, Some(s), t)
    BY DEF Some, SharesOf
  <1>3. \A g : IsSum(g, f, Addr) <=> g = Body(g)
    BY <1>2 DEF IsSum
  <1> DEFINE iter == CHOOSE g : g = Body(g)
  <1>4. iter = Body(iter)
    <2> HIDE DEF Body
    <2> QED
      BY <1>1, <1>3
  <1>5. Held(st, m, t) = iter[Addr]
    BY Zenon DEF Held, MapThenSumSet, MapThenFoldSet, Some
  <1> HIDE DEF iter, Body, f
  <1>6. IsSum(iter, f, Addr)
    BY <1>3, <1>4
  <1> QED
    BY <1>5, <1>6 DEF f

(* SharesOf are functions to integers.                                     *)
LEMMA SharesOfType ==
    ASSUME NEW st, StoreOK(st), NEW m \in MarketID, NEW t \in ShareType
    PROVE  /\ SharesOf(st, m, t) \in [Addr -> Int]
           /\ \A c \in Addr : SharesOf(st, m, t)[c] = GetShareBalance(st, m, c, t)
  <1>1. \A c \in Addr : GetShareBalance(st, m, c, t) \in Int
    BY GetShareBalanceType, WordAssumption DEF U64
  <1> QED
    BY <1>1 DEF SharesOf

(* When one account's holding changes, the sum changes by as much.         *)
LEMMA HeldMoves ==
    ASSUME NEW st, StoreOK(st), NEW s, StoreOK(s),
           NEW m \in MarketID, NEW t \in ShareType, NEW a \in Addr,
           \A c \in Addr \ {a} : GetShareBalance(s, m, c, t) = GetShareBalance(st, m, c, t)
    PROVE  /\ Held(st, m, t) \in Int
           /\ Held(s, m, t) = Held(st, m, t)
                 + (GetShareBalance(s, m, a, t) - GetShareBalance(st, m, a, t))
  <1>1. PICK g : IsSum(g, SharesOf(st, m, t), Addr) /\ Held(st, m, t) = g[Addr]
    BY HeldIsSum
  <1>2. PICK h : IsSum(h, SharesOf(s, m, t), Addr) /\ Held(s, m, t) = h[Addr]
    BY HeldIsSum
  <1> DEFINE f == SharesOf(st, m, t)
             e == SharesOf(s, m, t)
  <1>3. /\ f \in [Addr -> Int]
        /\ \A c \in Addr : f[c] = GetShareBalance(st, m, c, t)
    BY SharesOfType
  <1>4. /\ e \in [Addr -> Int]
        /\ \A c \in Addr : e[c] = GetShareBalance(s, m, c, t)
    BY SharesOfType
  <1>5. IsSum(g, f, Addr) /\ IsSum(h, e, Addr)
    BY <1>1, <1>2
  <1> HIDE DEF f, e
  <1>6. \A c \in Addr \ {a} : e[c] = f[c]
    BY <1>3, <1>4
  <1>7. g[Addr] \in Int /\ h[Addr] = g[Addr] + (e[a] - f[a])
    BY <1>3, <1>4, <1>5, <1>6, AddrAssumption, SumMoves
  <1> QED
    BY <1>1, <1>2, <1>3, <1>4, <1>7

(* When nobody holds anything, the sum is zero.                            *)
LEMMA HeldZero ==
    ASSUME NEW st, NEW m, NEW t, \A c \in Addr : GetShareBalance(st, m, c, t) = 0
    PROVE  Held(st, m, t) = 0
  <1>1. PICK g : IsSum(g, SharesOf(st, m, t), Addr) /\ Held(st, m, t) = g[Addr]
    BY HeldIsSum
  <1>2. \A c \in Addr : SharesOf(st, m, t)[c] = 0
    BY DEF SharesOf
  <1> QED
    BY <1>1, <1>2, AddrAssumption, SumZero

(* When no holding changes, neither does the sum.                          *)
LEMMA HeldKept ==
    ASSUME NEW st, StoreOK(st), NEW s, StoreOK(s),
           NEW m \in MarketID, NEW t \in ShareType,
           \A c \in Addr : GetShareBalance(s, m, c, t) = GetShareBalance(st, m, c, t)
    PROVE  Held(s, m, t) = Held(st, m, t)
  <1>1. CASE Addr = {}
    BY <1>1, HeldZero
  <1>2. ASSUME NEW a \in Addr PROVE Held(s, m, t) = Held(st, m, t)
    <2>1. GetShareBalance(s, m, a, t) \in Int /\ GetShareBalance(st, m, a, t) \in Int
      BY <1>2, GetShareBalanceType, WordAssumption DEF U64
    <2>2. /\ Held(st, m, t) \in Int
          /\ Held(s, m, t) = Held(st, m, t)
                + (GetShareBalance(s, m, a, t) - GetShareBalance(st, m, a, t))
      BY <1>2, HeldMoves
    <2> QED
      BY <1>2, <2>1, <2>2
  <1> QED
    BY <1>1, <1>2

(* Any element of the set may be taken first.                              *)
LEMMA SumRemove ==
    ASSUME NEW S, IsFiniteSet(S), NEW f \in [S -> Int], NEW g, IsSum(g, f, S),
           NEW s \in SUBSET S, NEW x \in s, NEW r, r = s \ {x}
    PROVE  g[r] \in Int /\ g[s] = f[x] + g[r]
  <1> DEFINE OK(u) == /\ g[u] \in Int
                      /\ \A y \in u : g[u] = f[y] + g[u \ {y}]
             T == {u \in SUBSET S : ~OK(u)}
  <1>1. T = {}
    <2> SUFFICES ASSUME T # {} PROVE FALSE
      OBVIOUS
    <2>1. T \subseteq SUBSET S
      OBVIOUS
    <2> HIDE DEF T
    <2>2. PICK u \in T : \A v \in T : v \subseteq u => v = u
      BY <2>1, MinimalSubset
    <2>3. u \in SUBSET S /\ ~OK(u)
      BY DEF T
    <2>4. u # {}
      <3>1. u = {} => g[u] = 0
        BY <2>3, SumAt
      <3> QED
        BY <2>3, <3>1
    <2> DEFINE z == Some(u)
    <2>5. z \in u /\ g[u] = f[z] + g[u \ {z}]
      BY <2>3, <2>4, SumAt
    <2> HIDE DEF z
    <2>6. ASSUME NEW y \in u PROVE OK(u \ {y})
      <3>1. u \ {y} \in SUBSET S /\ u \ {y} \subseteq u /\ u \ {y} # u
        BY <2>3, <2>6
      <3> QED
        BY <2>2, <3>1 DEF T
    <2>7. \A y \in u : f[y] \in Int
      BY <2>3
    <2>8. g[u] \in Int
      <3>1. g[u \ {z}] \in Int
        BY <2>5, <2>6
      <3>2. f[z] \in Int
        BY <2>5, <2>7
      <3> QED
        BY <2>5, <3>1, <3>2
    <2>9. ASSUME NEW y \in u PROVE g[u] = f[y] + g[u \ {y}]
      <3>1. CASE y = z
        BY <2>5, <3>1
      <3>2. CASE y # z
        <4> DEFINE w == (u \ {z}) \ {y}
        <4>1. w = (u \ {y}) \ {z}
          OBVIOUS
        <4>2. y \in u \ {z} /\ z \in u \ {y}
          BY <2>5, <3>2
        <4>3. g[u \ {z}] \in Int /\ g[u \ {z}] = f[y] + g[w]
          BY <2>5, <2>6, <4>2
        <4>4. g[u \ {y}] \in Int /\ g[u \ {y}] = f[z] + g[w]
          BY <2>6, <4>1, <4>2
        <4>5. w \in SUBSET S /\ w \subseteq u /\ w # u
          BY <2>3, <4>2
        <4>6. g[w] \in Int
          BY <2>2, <4>5 DEF T
        <4> HIDE DEF w
        <4> QED
          BY <2>5, <2>7, <2>9, <4>3, <4>4, <4>6
      <3> QED
        BY <3>1, <3>2
    <2> QED
      BY <2>3, <2>8, <2>9
  <1>2. s \ {x} \in SUBSET S
    OBVIOUS
  <1>3. OK(s) /\ OK(s \ {x})
    BY <1>1, <1>2
  <1> QED
    BY <1>3

(* Sums of natural numbers grow with the set.                              *)
LEMMA SumGrows ==
    ASSUME NEW S, IsFiniteSet(S), NEW f \in [S -> Nat], NEW g, IsSum(g, f, S),
           NEW v \in SUBSET S
    PROVE  g[v] \in Nat /\ g[S] \in Nat /\ g[v] <= g[S]
  <1>0. f \in [S -> Int]
    OBVIOUS
  <1> DEFINE OK(u) == /\ g[u] \in Nat
                      /\ \A w \in SUBSET u : g[w] <= g[u]
             T == {u \in SUBSET S : ~OK(u)}
  <1>1. T = {}
    <2> SUFFICES ASSUME T # {} PROVE FALSE
      OBVIOUS
    <2>1. T \subseteq SUBSET S
      OBVIOUS
    <2> HIDE DEF T
    <2>2. PICK u \in T : \A w \in T : w \subseteq u => w = u
      BY <2>1, MinimalSubset
    <2>3. u \in SUBSET S /\ ~OK(u)
      BY DEF T
    <2>4. ASSUME NEW x \in u
          PROVE  OK(u \ {x}) /\ g[u] = f[x] + g[u \ {x}] /\ f[x] \in Nat
      <3>1. u \ {x} \in SUBSET S /\ u \ {x} \subseteq u /\ u \ {x} # u
        BY <2>3, <2>4
      <3>2. OK(u \ {x})
        BY <2>2, <3>1 DEF T
      <3>3. g[u] = f[x] + g[u \ {x}]
        BY <1>0, <2>3, <2>4, SumRemove
      <3> QED
        BY <2>3, <2>4, <3>2, <3>3
    <2>5. g[u] \in Nat
      <3>1. CASE u = {}
        <4>1. g[u] = 0
          BY <2>3, <3>1, SumAt
        <4> QED
          BY <4>1
      <3>2. ASSUME NEW x \in u PROVE g[u] \in Nat
        <4>1. g[u \ {x}] \in Nat /\ g[u] = f[x] + g[u \ {x}] /\ f[x] \in Nat
          BY <2>4, <3>2
        <4> QED
          BY <4>1
      <3> QED
        BY <3>1, <3>2
    <2>6. ASSUME NEW w \in SUBSET u PROVE g[w] <= g[u]
      <3>1. CASE w = u
        BY <2>5, <3>1
      <3>2. CASE w # u
        <4>1. PICK x \in u : x \notin w
          BY <3>2
        <4>2. w \in SUBSET (u \ {x})
          BY <4>1
        <4>3. g[w] <= g[u \ {x}] /\ g[u \ {x}] \in Nat
          BY <2>4, <4>2
        <4>4. g[w] \in Nat
          <5>1. w \in SUBSET S /\ w \subseteq u /\ w # u
            BY <2>3, <3>2
          <5> QED
            BY <2>2, <5>1 DEF T
        <4> QED
          BY <2>4, <4>3, <4>4
      <3> QED
        BY <3>1, <3>2
    <2> QED
      BY <2>3, <2>5, <2>6
  <1>2. OK(S) /\ OK(v)
    BY <1>1
  <1> QED
    BY <1>2

-----------------------------------------------------------------------------
(* Transactions and the executor's queue.                                  *)

(* A bounded set of natural numbers has a greatest element.                *)
LEMMA GreatestNat ==
    ASSUME NEW b \in Nat, NEW T, T \subseteq 0 .. b, T # {}
    PROVE  \E n \in T : \A m \in T : m <= n
  <1> DEFINE U == {b - n : n \in T}
  <1>1. U \subseteq Nat /\ U # {}
    <2>1. PICK n : n \in T
      OBVIOUS
    <2>2. b - n \in U
      BY <2>1
    <2>3. ASSUME NEW v \in U PROVE v \in Nat
      <3>1. PICK t \in T : v = b - t
        BY <2>3
      <3>2. t \in 0 .. b
        OBVIOUS
      <3> QED
        BY <3>1, <3>2
    <2> QED
      BY <2>2, <2>3
  <1> HIDE DEF U
  <1>2. PICK u \in U : \A v \in U : u <= v
    BY <1>1, LeastNat
  <1>3. PICK n \in T : u = b - n
    BY DEF U
  <1>4. \A m \in T : b - m \in U
    BY DEF U
  <1>5. \A m \in T : b - n <= b - m
    BY <1>2, <1>3, <1>4
  <1> QED
    BY <1>5

-----------------------------------------------------------------------------
(* The order of a queue.                                                   *)

(* Two transactions of a queue conflict when they touch a key that one of  *)
(* them needs to itself.                                                   *)
Conflict(q, i, j) ==
    /\ Queued(q, i) /\ Queued(q, j)
    /\ \E k \in KeysOf(q, i) \cap KeysOf(q, j) : Exclusive(q, i, k) \/ Exclusive(q, j, k)

(* Once a key has been touched it has a node (the executor's nodes map).   *)
LEMMA NodeExists ==
    ASSUME NEW q, NEW j \in Nat, NEW i \in 1 .. (j - 1), NEW k, Touches(q, i, k)
    PROVE  \E n \in 1 .. (j - 1) : n \in Node(q, j, k)
  <1> DEFINE own == {h \in 1 .. (j - 1) : Exclusive(q, h, k)}
             any == {h \in 1 .. (j - 1) : Touches(q, h, k)}
  <1>0. \A h : Exclusive(q, h, k) => Touches(q, h, k)
    BY DEF Exclusive, Touches, KeysOf
  <1>1. CASE own # {}
    <2>1. own \subseteq 0 .. j
      OBVIOUS
    <2> HIDE DEF own
    <2>2. PICK n \in own : \A h \in own : h <= n
      BY <1>1, <2>1, GreatestNat
    <2>3. n \in 1 .. (j - 1) /\ Exclusive(q, n, k)
      BY DEF own
    <2>4. \A h \in (n + 1) .. (j - 1) : ~Exclusive(q, h, k)
      BY <2>2, <2>3 DEF own
    <2> QED
      BY <1>0, <2>3, <2>4 DEF Node
  <1>2. CASE own = {}
    <2>1. any \subseteq Nat /\ any # {}
      OBVIOUS
    <2> HIDE DEF any
    <2>2. PICK n \in any : \A h \in any : n <= h
      BY <2>1, LeastNat
    <2>3. n \in 1 .. (j - 1) /\ Touches(q, n, k)
      BY DEF any
    <2>4. \A h \in 1 .. (n - 1) : ~Touches(q, h, k)
      BY <2>2, <2>3 DEF any
    <2>5. \A h \in (n + 1) .. (j - 1) : ~Exclusive(q, h, k)
      BY <1>2, <2>3
    <2> QED
      BY <2>3, <2>4, <2>5 DEF Node
  <1> QED
    BY <1>1, <1>2

(* The dependencies that Executor.Run counts are enough: when they have    *)
(* all ended, so has every earlier transaction that conflicts, although    *)
(* only the node of a key and its readers are waited for.                  *)
LEMMA DependenciesSettle ==
    ASSUME NEW q, NEW ended, NEW j \in Nat,
           Dependencies(q, j) \subseteq ended,
           \A n \in 1 .. (j - 1) : n \in ended =>
              \A i \in 1 .. (n - 1) : Conflict(q, i, n) => i \in ended,
           NEW i \in 1 .. (j - 1), Conflict(q, i, j)
    PROVE  i \in ended
  <1>1. PICK k \in KeysOf(q, i) \cap KeysOf(q, j) : Exclusive(q, i, k) \/ Exclusive(q, j, k)
    BY DEF Conflict
  <1>2. Queued(q, i) /\ Queued(q, j) /\ Touches(q, i, k)
    BY DEF Conflict, Touches
  <1>3. PICK n \in 1 .. (j - 1) : n \in Node(q, j, k)
    BY <1>2, NodeExists
  <1>4. n \in ended
    BY <1>3 DEF Dependencies
  <1>5. CASE i = n
    BY <1>4, <1>5
  <1>6. CASE i < n
    <2>1. Touches(q, n, k) /\ Exclusive(q, n, k)
      BY <1>2, <1>3, <1>6 DEF Node
    <2>2. Conflict(q, i, n)
      BY <1>2, <2>1 DEF Conflict, Touches
    <2> QED
      BY <1>4, <1>6, <2>2
  <1>7. CASE n < i
    <2>1. ~Exclusive(q, i, k)
      BY <1>3, <1>7 DEF Node
    <2>2. n \in Node(q, i, k)
      BY <1>3, <1>7 DEF Node
    <2>3. Reads(q, i, n)
      BY <1>2, <2>1, <2>2 DEF Reads
    <2>4. i \in Dependencies(q, j)
      BY <1>1, <1>3, <2>1, <2>3 DEF Dependencies
    <2> QED
      BY <2>4
  <1> QED
    BY <1>5, <1>6, <1>7

-----------------------------------------------------------------------------
(* The keys of a transaction.                                              *)

(* A BuyYes or BuyNo action, with whatever amounts.                        *)
Buy ==
    [type : {"BuyYes", "BuyNo"},
     order : [MarketID : MarketID, Amount : U64, MaxPrice : U64]]

(* An action of a transaction is a purchase or a CreateMarket.             *)
LEMMA ActionKinds ==
    ASSUME NEW tx \in Transaction
    PROVE  /\ tx.actor \in Addr
           /\ Len(tx.actions) \in Nat /\ DOMAIN tx.actions = 1 .. Len(tx.actions)
           /\ \A j \in DOMAIN tx.actions :
                 tx.actions[j] \in Buy \/ tx.actions[j].type = "CreateMarket"
  <1> DEFINE Create == [type : {"CreateMarket"}, proposal :
                [text : [Description : Nat, OracleSource : Nat, OracleParameters : Nat],
                 EndTime : Int, ResolutionTime : Int]]
  <1>1. tx.actor \in Addr /\ tx.actions \in Seq(Buy \cup Create)
    BY DEF Transaction, Buy
  <1>2. \A action \in Create : action.type = "CreateMarket"
    OBVIOUS
  <1> HIDE DEF Create
  <1> QED
    BY <1>1, <1>2

(* The fields of a purchase.                                               *)
LEMMA BuyFields ==
    ASSUME NEW action \in Buy
    PROVE  /\ action.type \in {"BuyYes", "BuyNo"}
           /\ action.order.MarketID \in MarketID
           /\ action.order.Amount \in U64
           /\ action.order.MaxPrice \in U64
           /\ Cost(action.order) \in U64
  <1>1. /\ action.type \in {"BuyYes", "BuyNo"}
        /\ action.order.MarketID \in MarketID
        /\ action.order.Amount \in U64
        /\ action.order.MaxPrice \in U64
    BY DEF Buy
  <1>2. action.order.Amount * action.order.MaxPrice \in Int
    BY <1>1, WordAssumption DEF U64
  <1> QED
    BY <1>1, <1>2, WrapInU64 DEF Cost

(* The side a purchase is on.                                              *)
Side(action) == IF action.type = "BuyYes" THEN YesShareType ELSE NoShareType

(* The keys a purchase declares: the three records it reads and writes.    *)
LEMMA BuyKeys ==
    ASSUME NEW action \in Buy, NEW a
    PROVE  ActionKeys(a, action) =
              WriteKey(BalanceKey(a)) \cup WriteKey(MarketKey(action.order.MarketID)) \cup
              WriteKey(ShareBalanceKey(action.order.MarketID, a, Side(action)))
  BY BuyFields DEF ActionKeys, BuyYesStateKeys, BuyNoStateKeys, Side

(* The keys a CreateMarket declares, the malformed one among them.         *)
LEMMA CreateKeys ==
    ASSUME NEW action, action.type = "CreateMarket", NEW a
    PROVE  ActionKeys(a, action) =
              WriteKey(StateKeysBalance(a)) \cup WriteKey(<<MarketPrefix>>)
  BY DEF ActionKeys, CreateMarketStateKeys

(* Keys.Add rejects exactly the transactions that carry a CreateMarket.    *)
LEMMA MalformedExactly ==
    ASSUME NEW tx \in Transaction
    PROVE  StateKeysErr(tx) <=> \E j \in DOMAIN tx.actions : tx.actions[j].type = "CreateMarket"
  <1>1. ASSUME NEW j \in DOMAIN tx.actions, tx.actions[j].type = "CreateMarket"
        PROVE  StateKeysErr(tx)
    <2>1. <<<<MarketPrefix>>, "read">> \in ActionKeys(tx.actor, tx.actions[j])
      BY <1>1, CreateKeys DEF WriteKey
    <2>2. <<<<MarketPrefix>>, "read">> \in StateKeys(tx)
      BY <2>1 DEF StateKeys
    <2>3. Len(<<<<MarketPrefix>>, "read">>[1]) < 2
      OBVIOUS
    <2> QED
      BY <2>2, <2>3 DEF StateKeysErr
  <1>2. ASSUME \A j \in DOMAIN tx.actions : tx.actions[j].type # "CreateMarket",
               NEW entry \in StateKeys(tx)
        PROVE  ~(Len(entry[1]) < 2)
    <2>1. CASE entry \in SponsorStateKeys(tx.actor)
      BY <2>1 DEF SponsorStateKeys, ReadKey, StateKeysBalance
    <2>2. ASSUME NEW j \in DOMAIN tx.actions, entry \in ActionKeys(tx.actor, tx.actions[j])
          PROVE  ~(Len(entry[1]) < 2)
      <3>1. tx.actions[j] \in Buy
        BY <1>2, ActionKinds
      <3> QED
        BY <2>2, <3>1, BuyKeys DEF WriteKey, BalanceKey, MarketKey, ShareBalanceKey
    <2> QED
      BY <2>1, <2>2 DEF StateKeys
  <1> QED
    BY <1>1, <1>2 DEF StateKeysErr

(* A transaction that is queued carries purchases only, with their keys.   *)
LEMMA QueuedBuys ==
    ASSUME NEW tx \in Transaction, ~StateKeysErr(tx), NEW j \in DOMAIN tx.actions
    PROVE  /\ tx.actions[j] \in Buy
           /\ ActionKeys(tx.actor, tx.actions[j]) \subseteq StateKeys(tx)
  BY MalformedExactly, ActionKinds DEF StateKeys

(* Permissions are coherent: what may be written may be read.              *)
Coherent(scope) == \A k : <<k, "write">> \in scope => <<k, "read">> \in scope

(* The keys of every transaction are coherent (the bit masks of Keys).     *)
LEMMA StateKeysCoherent == ASSUME NEW tx \in Transaction PROVE Coherent(StateKeys(tx))
  <1> SUFFICES ASSUME NEW k, <<k, "write">> \in StateKeys(tx)
               PROVE  <<k, "read">> \in StateKeys(tx)
    BY DEF Coherent
  <1>1. <<k, "write">> \notin SponsorStateKeys(tx.actor)
    BY DEF SponsorStateKeys, ReadKey
  <1>2. PICK j \in DOMAIN tx.actions : <<k, "write">> \in ActionKeys(tx.actor, tx.actions[j])
    BY <1>1 DEF StateKeys
  <1>3. \A x : <<k, "write">> \in WriteKey(x) => <<k, "read">> \in WriteKey(x)
    BY DEF WriteKey
  <1>4. <<k, "read">> \in ActionKeys(tx.actor, tx.actions[j])
    BY <1>2, <1>3, ActionKinds, BuyKeys, CreateKeys
  <1> QED
    BY <1>4 DEF StateKeys

(* The sponsor's balance can be read exactly when there is a purchase to   *)
(* declare its key: SponsorStateKeys declares another one.                 *)
LEMMA SponsorReadable ==
    ASSUME NEW tx \in Transaction, ~StateKeysErr(tx)
    PROVE  /\ CanRead(StateKeys(tx), BalanceKey(tx.actor)) <=> tx.actions # <<>>
           /\ CanRead(StateKeys(tx), BalanceKey(tx.actor)) =>
                 <<BalanceKey(tx.actor), "write">> \in StateKeys(tx)
  <1>1. ASSUME tx.actions # <<>>
        PROVE  /\ <<BalanceKey(tx.actor), "read">> \in StateKeys(tx)
               /\ <<BalanceKey(tx.actor), "write">> \in StateKeys(tx)
    <2>1. 1 \in DOMAIN tx.actions
      BY <1>1 DEF Transaction
    <2> QED
      BY <2>1, QueuedBuys, BuyKeys DEF WriteKey
  <1>2. ASSUME CanRead(StateKeys(tx), BalanceKey(tx.actor)), tx.actions = <<>>
        PROVE  FALSE
    <2>1. <<BalanceKey(tx.actor), "read">> \notin SponsorStateKeys(tx.actor)
      BY FamiliesDisjoint DEF SponsorStateKeys, ReadKey
    <2> QED
      BY <1>2, <2>1 DEF CanRead, StateKeys
  <1> QED
    BY <1>1, <1>2 DEF CanRead

-----------------------------------------------------------------------------
(* One purchase against a view (BuyYes.Execute and BuyNo.Execute).         *)

(* The conditions on its three writes, and the market it writes back.      *)
Admits(v, ts, a, action) ==
    IF action.type = "BuyYes" THEN BuyYesAdmits(v, ts, a, action.order)
                              ELSE BuyNoAdmits(v, ts, a, action.order)

ShareKey(a, action) == ShareBalanceKey(action.order.MarketID, a, Side(action))

AfterDebit(v, a, action) == Debited(v, a, action.order)

AfterCredit(v, a, action) ==
    Credited(AfterDebit(v, a, action), a, action.order, Side(action))

Rewritten(v, action) ==
    Retotalled(GetMarket(v, action.order.MarketID), action.order, Side(action))

Debits(scope, v, ts, a, action) ==
    Admits(v, ts, a, action) /\ CanInsert(scope, v, BalanceKey(a), Uint64Len)

Credits(scope, v, ts, a, action) ==
    /\ Debits(scope, v, ts, a, action)
    /\ ~GetShareBalanceErr(AfterDebit(v, a, action), action.order.MarketID, a, Side(action))
    /\ CanInsert(scope, AfterDebit(v, a, action), ShareKey(a, action), Uint64Len)

Retotals(scope, v, ts, a, action) ==
    /\ Credits(scope, v, ts, a, action)
    /\ ~SetMarketErr(Rewritten(v, action))
    /\ CanInsert(scope, AfterCredit(v, a, action), MarketKey(Rewritten(v, action).ID),
                 MarketSize(Rewritten(v, action)))

(* How far a purchase gets decides what it leaves.                         *)
LEMMA AttemptCases ==
    ASSUME NEW scope, NEW v, NEW ts, NEW a, NEW action
    PROVE  LET run == Attempt(scope, v, ts, a, action) IN
           /\ run = [ok |-> run.ok, view |-> run.view]
           /\ run.ok \in BOOLEAN
           /\ run.ok <=> Retotals(scope, v, ts, a, action)
           /\ Retotals(scope, v, ts, a, action) => Credits(scope, v, ts, a, action)
           /\ Credits(scope, v, ts, a, action) => Debits(scope, v, ts, a, action)
           /\ ~Debits(scope, v, ts, a, action) => run.view = v
           /\ Debits(scope, v, ts, a, action) /\ ~Credits(scope, v, ts, a, action) =>
                 run.view = AfterDebit(v, a, action)
           /\ Credits(scope, v, ts, a, action) /\ ~Retotals(scope, v, ts, a, action) =>
                 run.view = AfterCredit(v, a, action)
           /\ Retotals(scope, v, ts, a, action) =>
                 run.view = SetMarket(AfterCredit(v, a, action), Rewritten(v, action))
  <1> DEFINE debits == Debits(scope, v, ts, a, action)
             credits == Credits(scope, v, ts, a, action)
             retotals == Retotals(scope, v, ts, a, action)
             view == CASE ~debits -> v
                       [] debits /\ ~credits -> AfterDebit(v, a, action)
                       [] credits /\ ~retotals -> AfterCredit(v, a, action)
                       [] retotals -> SetMarket(AfterCredit(v, a, action), Rewritten(v, action))
  <1>1. Attempt(scope, v, ts, a, action) = [ok |-> retotals, view |-> view]
    BY Zenon DEF Attempt, Admits, Debits, Credits, Retotals, ShareKey, AfterDebit, AfterCredit,
                 Rewritten, Side
  <1>2. (retotals => credits) /\ (credits => debits)
    BY DEF Credits, Retotals
  <1> HIDE DEF debits, credits, retotals
  <1>3. /\ ~debits => view = v
        /\ debits /\ ~credits => view = AfterDebit(v, a, action)
        /\ credits /\ ~retotals => view = AfterCredit(v, a, action)
        /\ retotals => view = SetMarket(AfterCredit(v, a, action), Rewritten(v, action))
    BY <1>2
  <1> HIDE DEF view
  <1>4. LET run == Attempt(scope, v, ts, a, action) IN
        run = [ok |-> run.ok, view |-> run.view] /\ run.ok = retotals /\ run.view = view
    BY <1>1
  <1>5. retotals \in BOOLEAN
    BY DEF retotals, Retotals
  <1>6. LET run == Attempt(scope, v, ts, a, action) IN
        run.ok \in BOOLEAN /\ (run.ok <=> retotals)
    BY <1>4, <1>5, Zenon
  <1> QED
    BY <1>2, <1>3, <1>4, <1>6 DEF debits, credits, retotals

(* What an admitted purchase has read: a market, and a balance that covers *)
(* the cost.                                                               *)
LEMMA AdmittedBuy ==
    ASSUME NEW v, StoreOK(v), NEW ts, NEW a \in Addr, NEW action \in Buy,
           Admits(v, ts, a, action)
    PROVE  /\ v[BalanceKey(a)] \in U64
           /\ v[BalanceKey(a)] - Cost(action.order) \in U64
           /\ Rewritten(v, action) \in Market
  <1>1. v[MarketKey(action.order.MarketID)] \in Market
    BY BuyFields DEF Admits, BuyYesAdmits, BuyNoAdmits, GetMarketErr, StoreOK
  <1>2. v[BalanceKey(a)] \in U64 /\ v[BalanceKey(a)] >= Cost(action.order)
    BY DEF Admits, BuyYesAdmits, BuyNoAdmits, Funded, StoreOK
  <1>3. Side(action) \in ShareType
    BY DEF Side, ShareType
  <1>4. v[MarketKey(action.order.MarketID)].TotalShares[Side(action)] + action.order.Amount \in Int
    BY <1>1, <1>3, BuyFields, WordAssumption DEF Market, U64
  <1>5. Rewritten(v, action) \in Market
    BY <1>1, <1>3, <1>4, WrapInU64 DEF Rewritten, Retotalled, GetMarket, Market
  <1> QED
    BY <1>2, <1>5, BuyFields, WordAssumption DEF U64

(* The first two writes of an admitted purchase, record by record.         *)
LEMMA AdmittedWrites ==
    ASSUME NEW v, StoreOK(v), NEW ts, NEW a \in Addr, NEW action \in Buy,
           Admits(v, ts, a, action)
    PROVE  /\ ShareKey(a, action) \in Key /\ ShareKey(a, action) # BalanceKey(a)
           /\ Puts(v, AfterDebit(v, a, action), BalanceKey(a),
                   v[BalanceKey(a)] - Cost(action.order))
           /\ StoreOK(AfterDebit(v, a, action))
           /\ Puts(AfterDebit(v, a, action), AfterCredit(v, a, action), ShareKey(a, action),
                   Wrap(GetShareBalance(v, action.order.MarketID, a, Side(action))
                            + action.order.Amount))
           /\ StoreOK(AfterCredit(v, a, action))
  <1> DEFINE m == action.order.MarketID
             t == Side(action)
             w == AfterDebit(v, a, action)
             held == GetShareBalance(v, m, a, t)
  <1>1. m \in MarketID /\ t \in ShareType /\ action.order.Amount \in U64
    BY BuyFields DEF Side, ShareType
  <1>2. ShareKey(a, action) \in Key /\ ShareKey(a, action) # BalanceKey(a) /\ BalanceKey(a) \in Key
    BY <1>1, KeysInKey, FamiliesDisjoint DEF ShareKey
  <1>3. Wrap(v[BalanceKey(a)] - Cost(action.order)) = v[BalanceKey(a)] - Cost(action.order)
    BY AdmittedBuy, WrapOnce
  <1>4. w = [v EXCEPT ![BalanceKey(a)] = v[BalanceKey(a)] - Cost(action.order)]
    BY <1>2, <1>3 DEF AfterDebit, Debited, StoreOK
  <1>5. Puts(v, w, BalanceKey(a), v[BalanceKey(a)] - Cost(action.order))
    BY <1>2, <1>4, InsertPuts
  <1>6. StoreOK(w)
    BY <1>5, AdmittedBuy, PutsBalanceOK
  <1>7. GetShareBalance(w, m, a, t) = held
    BY <1>2, <1>5 DEF GetShareBalance, Puts, ShareKey
  <1>8. AfterCredit(v, a, action) = [w EXCEPT ![ShareKey(a, action)] = Wrap(held + action.order.Amount)]
    BY <1>7 DEF AfterCredit, Credited, SetShareBalance, ShareKey
  <1>9. Wrap(held + action.order.Amount) \in U64
    <2>1. held \in U64
      BY <1>1, GetShareBalanceType
    <2>2. held + action.order.Amount \in Int
      BY <1>1, <2>1, WordAssumption DEF U64
    <2> QED
      BY <2>2, WrapInU64
  <1>10. Puts(w, AfterCredit(v, a, action), ShareKey(a, action), Wrap(held + action.order.Amount))
    BY <1>2, <1>6, <1>8, InsertPuts
  <1>11. StoreOK(AfterCredit(v, a, action))
    BY <1>1, <1>6, <1>9, <1>10, PutsSharesOK DEF ShareKey
  <1> QED
    BY <1>2, <1>5, <1>6, <1>10, <1>11

CanWrite(scope, k) == <<k, "write">> \in scope

(* w differs from v under writable keys only, and in no account's balance  *)
(* but a's.                                                                *)
KeepsTo(scope, v, w) == \A k \in Key : w[k] # v[k] => CanWrite(scope, k)

OthersKept(a, v, w) == \A c \in Addr \ {a} : w[BalanceKey(c)] = v[BalanceKey(c)]

(* Whatever a purchase comes to, it leaves a well-formed state, has only   *)
(* written what it declared for writing, and has moved no balance but its  *)
(* actor's, by exactly the cost when it goes through.                      *)
LEMMA AttemptEffect ==
    ASSUME NEW scope, NEW v, StoreOK(v), NEW ts, NEW a \in Addr, NEW action \in Buy
    PROVE  LET run == Attempt(scope, v, ts, a, action) IN
           /\ run.ok \in BOOLEAN
           /\ StoreOK(run.view)
           /\ KeepsTo(scope, v, run.view)
           /\ OthersKept(a, v, run.view)
           /\ run.ok => /\ v[BalanceKey(a)] \in U64
                        /\ run.view[BalanceKey(a)] \in U64
                        /\ run.view[BalanceKey(a)] = v[BalanceKey(a)] - Cost(action.order)
  <1> DEFINE run == Attempt(scope, v, ts, a, action)
             debits == Debits(scope, v, ts, a, action)
             credits == Credits(scope, v, ts, a, action)
             retotals == Retotals(scope, v, ts, a, action)
             w == AfterDebit(v, a, action)
             x == AfterCredit(v, a, action)
             market == Rewritten(v, action)
             Good(y) == /\ StoreOK(y)
                        /\ \A k \in Key : y[k] # v[k] => CanWrite(scope, k)
                        /\ \A c \in Addr \ {a} : y[BalanceKey(c)] = v[BalanceKey(c)]
  <1>0. \A c \in Addr : BalanceKey(c) \in Key /\ BalanceKey(c) # ShareKey(a, action)
                            /\ (BalanceKey(c) = BalanceKey(a) => c = a)
    BY KeysInKey, FamiliesDisjoint, KeysInjective DEF ShareKey
  <1>1. CASE ~debits
    <2>1. run.view = v /\ run.ok \in BOOLEAN /\ ~run.ok
      BY <1>1, AttemptCases
    <2> QED
      BY <2>1 DEF KeepsTo, OthersKept
  <1>2. CASE debits
    <2> HIDE DEF run
    <2>0. /\ Admits(v, ts, a, action)
          /\ CanWrite(scope, BalanceKey(a))
      BY <1>2 DEF Debits, CanInsert, CanWrite
    <2>1. /\ Puts(v, w, BalanceKey(a), v[BalanceKey(a)] - Cost(action.order)) /\ StoreOK(w)
          /\ \E n : Puts(w, x, ShareKey(a, action), n)
          /\ StoreOK(x) /\ ShareKey(a, action) \in Key
          /\ v[BalanceKey(a)] \in U64 /\ v[BalanceKey(a)] - Cost(action.order) \in U64
          /\ market \in Market
      BY <2>0, AdmittedWrites, AdmittedBuy
    <2> HIDE DEF w, x, market, debits, credits, retotals
    <2>2. Good(w) /\ w[BalanceKey(a)] = v[BalanceKey(a)] - Cost(action.order)
      BY <1>0, <2>0, <2>1 DEF Puts
    <2>3. credits => Good(x) /\ x[BalanceKey(a)] = w[BalanceKey(a)]
      <3> SUFFICES ASSUME credits PROVE Good(x) /\ x[BalanceKey(a)] = w[BalanceKey(a)]
        OBVIOUS
      <3>1. CanWrite(scope, ShareKey(a, action))
        BY DEF credits, Credits, CanInsert, CanWrite
      <3>2. \A k \in Key : x[k] # v[k] => CanWrite(scope, k)
        BY <2>1, <2>2, <3>1 DEF Puts
      <3> QED
        BY <1>0, <2>1, <2>2, <3>2 DEF Puts
    <2>4. retotals => /\ Good(SetMarket(x, market))
                      /\ SetMarket(x, market)[BalanceKey(a)] = x[BalanceKey(a)]
      <3> SUFFICES ASSUME retotals
                   PROVE  /\ Good(SetMarket(x, market))
                          /\ SetMarket(x, market)[BalanceKey(a)] = x[BalanceKey(a)]
        OBVIOUS
      <3> DEFINE y == SetMarket(x, market)
                 k0 == MarketKey(market.ID)
      <3>1. credits /\ CanWrite(scope, k0)
        BY DEF retotals, credits, market, Retotals, CanInsert, CanWrite
      <3>2. market.ID \in MarketID /\ k0 \in Key /\ \A c \in Addr : k0 # BalanceKey(c)
        BY <2>1, KeysInKey, FamiliesDisjoint DEF Market
      <3>3. Puts(x, y, k0, market)
        BY <2>1, <3>2, InsertPuts DEF SetMarket
      <3>4. StoreOK(y)
        BY <2>1, <3>2, <3>3, PutsMarketOK
      <3> HIDE DEF y, k0
      <3>5. Good(x)
        BY <2>3, <3>1
      <3>6. \A k \in Key : y[k] # v[k] => CanWrite(scope, k)
        BY <3>1, <3>3, <3>5 DEF Puts
      <3>7. \A c \in Addr : y[BalanceKey(c)] = x[BalanceKey(c)]
        BY <1>0, <3>2, <3>3 DEF Puts
      <3>8. Good(y) /\ y[BalanceKey(a)] = x[BalanceKey(a)]
        BY <3>4, <3>5, <3>6, <3>7
      <3> QED
        BY <3>8 DEF y
    <2>5. /\ run.ok \in BOOLEAN /\ (run.ok <=> retotals)
          /\ ~credits => run.view = w
          /\ credits /\ ~retotals => run.view = x
          /\ retotals => credits /\ run.view = SetMarket(x, market)
      BY <1>2, AttemptCases DEF run, debits, credits, retotals, w, x, market
    <2>7. Good(run.view)
      BY <2>2, <2>3, <2>4, <2>5
    <2>8. retotals => run.view[BalanceKey(a)] = v[BalanceKey(a)] - Cost(action.order)
      BY <2>2, <2>3, <2>4, <2>5
    <2> QED
      BY <2>1, <2>5, <2>7, <2>8 DEF run, KeepsTo, OthersKept
  <1> QED
    BY <1>1, <1>2

-----------------------------------------------------------------------------
(* A transaction reads and writes nothing but its declared keys.           *)

(* The state that has v's records under the readable keys, s's elsewhere.  *)
Merge(scope, v, s) == [k \in Key |-> IF CanRead(scope, k) THEN v[k] ELSE s[k]]

(* Two well-formed states merge into one.                                  *)
LEMMA MergeOK ==
    ASSUME NEW scope, NEW v, StoreOK(v), NEW s, StoreOK(s)
    PROVE  StoreOK(Merge(scope, v, s))
  <1>1. \A k \in Key : Merge(scope, v, s)[k] \in {v[k], s[k]}
    BY DEF Merge
  <1>2. Merge(scope, v, s) = [k \in Key |-> Merge(scope, v, s)[k]]
    BY DEF Merge
  <1> HIDE DEF Merge
  <1> QED
    BY <1>1, <1>2, KeysInKey DEF StoreOK

(* A write under a readable key commutes with merging.                     *)
LEMMA MergePut ==
    ASSUME NEW scope, NEW v, NEW s, NEW k \in Key, CanRead(scope, k), NEW n,
           NEW x, Puts(v, x, k, n), NEW y, Puts(Merge(scope, v, s), y, k, n)
    PROVE  y = Merge(scope, x, s)
  <1>1. \A j \in Key : y[j] = IF CanRead(scope, j) THEN x[j] ELSE s[j]
    BY DEF Puts, Merge
  <1>2. y = [j \in Key |-> y[j]]
    BY DEF Puts
  <1> QED
    BY <1>1, <1>2 DEF Merge

(* Insert decides the same way on a merged state.                          *)
LEMMA MergeCanInsert ==
    ASSUME NEW scope, Coherent(scope), NEW v, NEW s, NEW k \in Key, NEW size
    PROVE  CanInsert(scope, Merge(scope, v, s), k, size) = CanInsert(scope, v, k, size)
  BY DEF CanInsert, Coherent, Merge, CanRead

(* A purchase comes to the same on every state that has the same records   *)
(* under its declared keys, and leaves the others alone.                   *)
LEMMA AttemptLocal ==
    ASSUME NEW scope, Coherent(scope), NEW v, StoreOK(v), NEW s, StoreOK(s), NEW ts,
           NEW a \in Addr, NEW action \in Buy, ActionKeys(a, action) \subseteq scope
    PROVE  LET run == Attempt(scope, v, ts, a, action)
               other == Attempt(scope, Merge(scope, v, s), ts, a, action)
           IN  other.ok = run.ok /\ other.view = Merge(scope, run.view, s)
  <1> DEFINE u == Merge(scope, v, s)
             m == action.order.MarketID
             run == Attempt(scope, v, ts, a, action)
             other == Attempt(scope, u, ts, a, action)
  <1>1. /\ m \in MarketID /\ Side(action) \in ShareType
        /\ BalanceKey(a) \in Key /\ MarketKey(m) \in Key /\ ShareKey(a, action) \in Key
    BY BuyFields, KeysInKey DEF Side, ShareType, ShareKey
  <1>2. CanRead(scope, BalanceKey(a)) /\ CanRead(scope, MarketKey(m))
          /\ CanRead(scope, ShareKey(a, action))
    BY BuyKeys DEF WriteKey, CanRead, ShareKey
  <1>3. u[BalanceKey(a)] = v[BalanceKey(a)] /\ u[MarketKey(m)] = v[MarketKey(m)]
          /\ u[ShareKey(a, action)] = v[ShareKey(a, action)]
    BY <1>1, <1>2 DEF Merge
  <1>4. StoreOK(u)
    BY MergeOK
  <1>5. \A k \in Key : \A size : CanInsert(scope, u, k, size) = CanInsert(scope, v, k, size)
    BY MergeCanInsert
  <1>6. Admits(u, ts, a, action) <=> Admits(v, ts, a, action)
    BY <1>3 DEF Admits, BuyYesAdmits, BuyNoAdmits, GetMarketErr, GetMarket, Funded
  <1>7. Debits(scope, u, ts, a, action) <=> Debits(scope, v, ts, a, action)
    BY <1>1, <1>5, <1>6 DEF Debits
  <1>8. Rewritten(u, action) = Rewritten(v, action)
    BY <1>3 DEF Rewritten, GetMarket
  <1>9. CASE ~Debits(scope, v, ts, a, action)
    <2>1. run = [ok |-> FALSE, view |-> v]
      BY <1>9, AttemptCases
    <2>2. other = [ok |-> FALSE, view |-> u]
      BY <1>7, <1>9, AttemptCases
    <2> QED
      BY <2>1, <2>2
  <1>10. CASE Debits(scope, v, ts, a, action)
    <2> DEFINE w == AfterDebit(v, a, action)
               x == AfterCredit(v, a, action)
               market == Rewritten(v, action)
    <2>1. Admits(v, ts, a, action)
      BY <1>10 DEF Debits
    <2>2. StoreOK(w) /\ StoreOK(x) /\ market \in Market
      BY <2>1, AdmittedWrites, AdmittedBuy
    <2>3. AfterDebit(u, a, action) = Merge(scope, w, s)
      <3>1. AfterDebit(u, a, action) =
               [u EXCEPT ![BalanceKey(a)] = Wrap(v[BalanceKey(a)] - Cost(action.order))]
        BY <1>1, <1>3, <1>4 DEF AfterDebit, Debited, StoreOK
      <3>2. w = [v EXCEPT ![BalanceKey(a)] = Wrap(v[BalanceKey(a)] - Cost(action.order))]
        BY <1>1 DEF AfterDebit, Debited, StoreOK
      <3> DEFINE n == Wrap(v[BalanceKey(a)] - Cost(action.order))
      <3> HIDE DEF w
      <3>3. Puts(v, w, BalanceKey(a), n)
        BY <1>1, <3>2, InsertPuts
      <3>4. Puts(u, AfterDebit(u, a, action), BalanceKey(a), n)
        BY <1>1, <1>4, <3>1, InsertPuts
      <3> QED
        BY <1>1, <1>2, <3>3, <3>4, MergePut
    <2> HIDE DEF w
    <2>4. Merge(scope, w, s)[ShareKey(a, action)] = w[ShareKey(a, action)]
      BY <1>1, <1>2 DEF Merge
    <2>5. AfterCredit(u, a, action) = Merge(scope, x, s)
      <3> DEFINE n == Wrap(GetShareBalance(w, m, a, Side(action)) + action.order.Amount)
      <3>1. GetShareBalance(Merge(scope, w, s), m, a, Side(action)) =
               GetShareBalance(w, m, a, Side(action))
        BY <2>4 DEF GetShareBalance, ShareKey
      <3>2. AfterCredit(u, a, action) = [Merge(scope, w, s) EXCEPT ![ShareKey(a, action)] = n]
        BY <2>3, <3>1 DEF AfterCredit, Credited, SetShareBalance, ShareKey
      <3>3. x = [w EXCEPT ![ShareKey(a, action)] = n]
        BY DEF AfterCredit, Credited, SetShareBalance, ShareKey, w
      <3> HIDE DEF n, x
      <3>4. Puts(w, x, ShareKey(a, action), n)
        BY <1>1, <2>2, <3>3, InsertPuts
      <3>5. Puts(Merge(scope, w, s), AfterCredit(u, a, action), ShareKey(a, action), n)
        BY <1>1, <2>2, <3>2, InsertPuts, MergeOK
      <3> QED
        BY <1>1, <1>2, <3>4, <3>5, MergePut
    <2>6. Credits(scope, u, ts, a, action) <=> Credits(scope, v, ts, a, action)
      <3>1. GetShareBalanceErr(AfterDebit(u, a, action), m, a, Side(action)) <=>
               GetShareBalanceErr(w, m, a, Side(action))
        BY <2>3, <2>4 DEF GetShareBalanceErr, UnpackRequiredErr, ShareKey
      <3>2. CanInsert(scope, AfterDebit(u, a, action), ShareKey(a, action), Uint64Len) <=>
               CanInsert(scope, w, ShareKey(a, action), Uint64Len)
        BY <1>1, <2>3, MergeCanInsert
      <3> QED
        BY <1>7, <3>1, <3>2 DEF Credits, w
    <2> HIDE DEF x
    <2>7. market.ID \in MarketID /\ MarketKey(market.ID) \in Key
      BY <2>2, KeysInKey DEF Market
    <2> HIDE DEF market
    <2>8. Retotals(scope, u, ts, a, action) <=> Retotals(scope, v, ts, a, action)
      <3>1. CanInsert(scope, AfterCredit(u, a, action), MarketKey(market.ID), MarketSize(market))
              <=> CanInsert(scope, x, MarketKey(market.ID), MarketSize(market))
        BY <2>5, <2>7, MergeCanInsert
      <3> QED
        BY <1>8, <2>6, <3>1 DEF Retotals, x, market
    <2>9. Retotals(scope, v, ts, a, action) =>
             SetMarket(Merge(scope, x, s), market) = Merge(scope, SetMarket(x, market), s)
      <3> SUFFICES ASSUME Retotals(scope, v, ts, a, action)
                   PROVE  SetMarket(Merge(scope, x, s), market)
                              = Merge(scope, SetMarket(x, market), s)
        OBVIOUS
      <3>1. CanRead(scope, MarketKey(market.ID))
        BY DEF Retotals, CanInsert, Coherent, CanRead, market
      <3>2. Puts(x, SetMarket(x, market), MarketKey(market.ID), market)
        BY <2>2, <2>7, InsertPuts DEF SetMarket
      <3>3. Puts(Merge(scope, x, s), SetMarket(Merge(scope, x, s), market),
                 MarketKey(market.ID), market)
        BY <2>2, <2>7, InsertPuts, MergeOK DEF SetMarket
      <3> QED
        BY <2>7, <3>1, <3>2, <3>3, MergePut
    <2>10. other.view = Merge(scope, run.view, s)
      <3>1. CASE ~Credits(scope, v, ts, a, action)
        <4>1. run.view = w /\ other.view = AfterDebit(u, a, action)
          BY <1>7, <1>10, <2>6, <3>1, AttemptCases DEF w
        <4> QED
          BY <2>3, <4>1
      <3>2. CASE Credits(scope, v, ts, a, action) /\ ~Retotals(scope, v, ts, a, action)
        <4>1. run.view = x /\ other.view = AfterCredit(u, a, action)
          BY <2>6, <2>8, <3>2, AttemptCases DEF x
        <4> QED
          BY <2>5, <4>1
      <3>3. CASE Retotals(scope, v, ts, a, action)
        <4>1. /\ run.view = SetMarket(x, market)
              /\ other.view = SetMarket(AfterCredit(u, a, action), market)
          BY <1>8, <2>8, <3>3, AttemptCases DEF x, market
        <4> QED
          BY <2>5, <2>9, <3>3, <4>1
      <3> QED
        BY <3>1, <3>2, <3>3
    <2>11. other.ok = run.ok
      BY <2>8, AttemptCases
    <2> QED
      BY <2>10, <2>11
  <1> QED
    BY <1>9, <1>10

-----------------------------------------------------------------------------
(* The runs of a transaction.                                              *)

Paid(st, tx) == DeductBalance(st, tx.actor, Fee)

(* The runs of one more action.                                            *)
Continued(ts, tx, runs, n) ==
    UNION {IF run.ok THEN Outcomes(StateKeys(tx), run.view, ts, tx.actor, tx.actions[n])
           ELSE {run} : run \in runs}

(* The recursive definition of Runs defines what it says: there is such a  *)
(* function up to every n, by the least n without one.                     *)
LEMMA RunsUnfold ==
    ASSUME NEW st, NEW ts, NEW tx, Len(tx.actions) \in Nat
    PROVE  /\ Runs(st, ts, tx)[0] = {[ok |-> TRUE, view |-> Paid(st, tx)]}
           /\ \A n \in 1 .. Len(tx.actions) :
                 Runs(st, ts, tx)[n] = Continued(ts, tx, Runs(st, ts, tx)[n - 1], n)
  <1> DEFINE K == Len(tx.actions)
             b == {[ok |-> TRUE, view |-> Paid(st, tx)]}
             F(runs, n) == Continued(ts, tx, runs, n)
             Is(g, m) == g = [n \in 0 .. m |-> IF n = 0 THEN b ELSE F(g[n - 1], n)]
             T == {m \in 0 .. K : ~ \E g : Is(g, m)}
  <1> HIDE DEF b, F
  <1>1. T = {}
    <2> SUFFICES ASSUME T # {} PROVE FALSE
      OBVIOUS
    <2>1. T \subseteq Nat
      OBVIOUS
    <2> HIDE DEF T
    <2>2. PICK m \in T : \A k \in T : m <= k
      BY <2>1, LeastNat
    <2>3. m \in 0 .. K /\ K \in Nat
      BY DEF T
    <2>4. m - 1 \notin T
      BY <2>2, <2>3
    <2> USE DEF T
    <2>5. CASE m = 0
      <3>1. Is([n \in 0 .. 0 |-> b], 0)
        OBVIOUS
      <3> QED
        BY <2>5, <3>1
    <2>6. CASE m # 0
      <3>1. m - 1 \in 0 .. K /\ m - 1 \notin T
        BY <2>6, <2>3, <2>4
      <3>2. PICK g : Is(g, m - 1)
        BY <3>1
      <3> DEFINE h == [n \in 0 .. m |-> IF n = m THEN F(g[m - 1], m) ELSE g[n]]
      <3>3. Is(h, m)
        <4>1. \A n \in 0 .. m : h[n] = IF n = 0 THEN b ELSE F(h[n - 1], n)
          BY <2>6, <3>1, <3>2
        <4> QED
          BY <4>1
      <3> QED
        BY <3>3
    <2> QED
      BY <2>5, <2>6
  <1>2. \E g : Is(g, K)
    BY <1>1
  <1>3. Is(Runs(st, ts, tx), K)
    BY <1>2, Zenon DEF Runs, Paid, Continued, b, F
  <1>4. Runs(st, ts, tx)[0] = b
    BY <1>3
  <1>5. \A n \in 1 .. K : Runs(st, ts, tx)[n] = F(Runs(st, ts, tx)[n - 1], n)
    BY <1>3
  <1> QED
    BY <1>4, <1>5 DEF b, F

(* A fee that CanDeduct allows is taken from the balance, without wrapping.*)
LEMMA PaidFacts ==
    ASSUME NEW tx \in Transaction, NEW scope, NEW st, StoreOK(st),
           CanDeduct(scope, st, tx.actor)
    PROVE  /\ st[BalanceKey(tx.actor)] \in U64 /\ st[BalanceKey(tx.actor)] - Fee \in U64
           /\ Puts(st, Paid(st, tx), BalanceKey(tx.actor), st[BalanceKey(tx.actor)] - Fee)
           /\ StoreOK(Paid(st, tx))
  <1> DEFINE a == tx.actor
             n == st[BalanceKey(a)] - Fee
  <1>1. a \in Addr /\ BalanceKey(a) \in Key
    BY ActionKinds, KeysInKey
  <1>2. st[BalanceKey(a)] \in U64 \cup {NotFound}
    BY <1>1 DEF StoreOK
  <1>3. Fee \in Nat /\ Fee > 0
    BY FeeAssumption, WordAssumption DEF U64
  <1>4. st[BalanceKey(a)] \in U64 /\ GetBalance(st, a) = st[BalanceKey(a)]
          /\ st[BalanceKey(a)] >= Fee
    BY <1>2, <1>3 DEF CanDeduct, GetBalance, ZeroIfNotFound
  <1>5. n \in U64
    BY <1>3, <1>4, WordAssumption DEF U64
  <1>6. Wrap(n) = n
    BY <1>5, WrapOnce
  <1>7. Paid(st, tx) = [st EXCEPT ![BalanceKey(a)] = n]
    BY <1>4, <1>6 DEF Paid, DeductBalance, SetBalance
  <1>8. Puts(st, Paid(st, tx), BalanceKey(a), n)
    BY <1>1, <1>7, InsertPuts
  <1> QED
    BY <1>1, <1>4, <1>5, <1>8, PutsBalanceOK

(* One more action of a queued transaction is one attempt: purchases do    *)
(* not draw lots.                                                          *)
LEMMA BuyOutcomes ==
    ASSUME NEW tx \in Transaction, ~StateKeysErr(tx), NEW ts,
           NEW n \in 1 .. Len(tx.actions)
    PROVE  /\ tx.actions[n] \in Buy
           /\ ActionKeys(tx.actor, tx.actions[n]) \subseteq StateKeys(tx)
           /\ \A v : Outcomes(StateKeys(tx), v, ts, tx.actor, tx.actions[n]) =
                        {Attempt(StateKeys(tx), v, ts, tx.actor, tx.actions[n])}
  <1>1. /\ tx.actions[n] \in Buy
        /\ ActionKeys(tx.actor, tx.actions[n]) \subseteq StateKeys(tx)
    BY ActionKinds, QueuedBuys
  <1>2. \A v : Outcomes(StateKeys(tx), v, ts, tx.actor, tx.actions[n]) =
                   {Attempt(StateKeys(tx), v, ts, tx.actor, tx.actions[n])}
    BY <1>1, BuyFields DEF Outcomes
  <1> QED
    BY <1>1, <1>2

(* A run from st that has kept to the declared keys.                       *)
GoodRun(run, st, scope) ==
    /\ run = [ok |-> run.ok, view |-> run.view]
    /\ run.ok \in BOOLEAN
    /\ StoreOK(run.view)
    /\ KeepsTo(scope, st, run.view)

(* A queued transaction has exactly one run up to every action, and it     *)
(* keeps to the declared keys.                                             *)
LEMMA RunsShape ==
    ASSUME NEW tx \in Transaction, ~StateKeysErr(tx), NEW ts, NEW st, StoreOK(st),
           CanDeduct(StateKeys(tx), st, tx.actor), NEW n \in 0 .. Len(tx.actions)
    PROVE  \E run : Runs(st, ts, tx)[n] = {run} /\ GoodRun(run, st, StateKeys(tx))
  <1> DEFINE K == Len(tx.actions)
             scope == StateKeys(tx)
             P(i) == \E run : Runs(st, ts, tx)[i] = {run} /\ GoodRun(run, st, scope)
             T == {i \in 0 .. K : ~P(i)}
  <1>0. K \in Nat /\ tx.actor \in Addr
    BY ActionKinds
  <1>1. T = {}
    <2> SUFFICES ASSUME T # {} PROVE FALSE
      OBVIOUS
    <2>0. T \subseteq Nat
      OBVIOUS
    <2> HIDE DEF T
    <2>1. PICK i \in T : \A k \in T : i <= k
      BY <2>0, LeastNat
    <2>2. i \in 0 .. K /\ ~P(i)
      BY DEF T
    <2>3. i - 1 \notin T
      BY <2>1, <2>2, <1>0
    <2>4. CASE i = 0
      <3> DEFINE run == [ok |-> TRUE, view |-> Paid(st, tx)]
      <3>1. Runs(st, ts, tx)[0] = {run}
        BY <1>0, RunsUnfold
      <3>2. CanWrite(scope, BalanceKey(tx.actor))
        BY SponsorReadable DEF CanDeduct, CanWrite
      <3>3. GoodRun(run, st, scope)
        <4>1. run.ok \in BOOLEAN /\ run.view = Paid(st, tx)
          BY Zenon
        <4>2. /\ StoreOK(Paid(st, tx))
              /\ Puts(st, Paid(st, tx), BalanceKey(tx.actor), st[BalanceKey(tx.actor)] - Fee)
          BY PaidFacts
        <4>3. KeepsTo(scope, st, Paid(st, tx))
          BY <3>2, <4>2 DEF Puts, KeepsTo
        <4>4. run = [ok |-> run.ok, view |-> run.view]
          OBVIOUS
        <4> HIDE DEF run
        <4> QED
          BY <4>1, <4>2, <4>3, <4>4 DEF GoodRun
      <3> HIDE DEF run
      <3> QED
        BY <2>2, <2>4, <3>1, <3>3
    <2>5. CASE i # 0
      <3>1. i \in 1 .. K /\ i - 1 \in 0 .. K
        BY <1>0, <2>2, <2>5
      <3>2. P(i - 1)
        BY <2>3, <3>1 DEF T
      <3>3. PICK run : Runs(st, ts, tx)[i - 1] = {run} /\ GoodRun(run, st, scope)
        BY <3>2
      <3> DEFINE next == Attempt(scope, run.view, ts, tx.actor, tx.actions[i])
      <3>4. /\ run.ok => Runs(st, ts, tx)[i] = {next}
            /\ ~run.ok => Runs(st, ts, tx)[i] = {run}
        <4>1. Runs(st, ts, tx)[i] = Continued(ts, tx, Runs(st, ts, tx)[i - 1], i)
          BY <1>0, <3>1, RunsUnfold
        <4>2. Runs(st, ts, tx)[i] =
                 IF run.ok THEN Outcomes(scope, run.view, ts, tx.actor, tx.actions[i]) ELSE {run}
          BY <3>3, <4>1 DEF Continued
        <4>3. Outcomes(scope, run.view, ts, tx.actor, tx.actions[i]) = {next}
          BY <3>1, BuyOutcomes
        <4> QED
          BY <4>2, <4>3
      <3>5. GoodRun(next, st, scope)
        <4>1. tx.actions[i] \in Buy
          BY <3>1, BuyOutcomes
        <4>0. StoreOK(run.view)
          BY <3>3 DEF GoodRun
        <4>2. StoreOK(next.view)
          BY <1>0, <4>0, <4>1, AttemptEffect
        <4>5. KeepsTo(scope, run.view, next.view)
          BY <1>0, <4>0, <4>1, AttemptEffect
        <4>6. next.ok \in BOOLEAN
          BY AttemptCases
        <4>3. next = [ok |-> next.ok, view |-> next.view]
          BY AttemptCases
        <4> HIDE DEF next
        <4> QED
          BY <3>3, <4>2, <4>3, <4>5, <4>6 DEF GoodRun, KeepsTo
      <3> HIDE DEF next
      <3> QED
        BY <2>2, <3>3, <3>4, <3>5
    <2> QED
      BY <2>4, <2>5
  <1> QED
    BY <1>1

(* From a state that differs in unreadable records only, the run is the    *)
(* same but for those records.                                             *)
LEMMA RunsLocal ==
    ASSUME NEW tx \in Transaction, ~StateKeysErr(tx), NEW ts, NEW st, StoreOK(st),
           CanDeduct(StateKeys(tx), st, tx.actor), NEW s, StoreOK(s),
           \A k \in Key : CanRead(StateKeys(tx), k) => s[k] = st[k],
           NEW n \in 0 .. Len(tx.actions), NEW run, Runs(st, ts, tx)[n] = {run}
    PROVE  Runs(s, ts, tx)[n] = {[ok |-> run.ok, view |-> Merge(StateKeys(tx), run.view, s)]}
  <1> DEFINE K == Len(tx.actions)
             scope == StateKeys(tx)
             Moved(r) == [ok |-> r.ok, view |-> Merge(scope, r.view, s)]
             P(i) == \A r : Runs(st, ts, tx)[i] = {r} => Runs(s, ts, tx)[i] = {Moved(r)}
             T == {i \in 0 .. K : ~P(i)}
  <1>0. K \in Nat /\ tx.actor \in Addr /\ BalanceKey(tx.actor) \in Key
    BY ActionKinds, KeysInKey
  <1>1. T = {}
    <2> SUFFICES ASSUME T # {} PROVE FALSE
      OBVIOUS
    <2>0. T \subseteq Nat
      OBVIOUS
    <2> HIDE DEF T
    <2>1. PICK i \in T : \A k \in T : i <= k
      BY <2>0, LeastNat
    <2>2. i \in 0 .. K /\ ~P(i)
      BY DEF T
    <2>3. i - 1 \notin T
      BY <2>1, <2>2, <1>0
    <2>4. PICK r : Runs(st, ts, tx)[i] = {r} /\ Runs(s, ts, tx)[i] # {Moved(r)}
      BY <2>2
    <2>5. CASE i = 0
      <3>1. r = [ok |-> TRUE, view |-> Paid(st, tx)]
        BY <1>0, <2>4, <2>5, RunsUnfold
      <3>2. Runs(s, ts, tx)[0] = {[ok |-> TRUE, view |-> Paid(s, tx)]}
        BY <1>0, RunsUnfold
      <3>3. CanRead(scope, BalanceKey(tx.actor))
        BY DEF CanDeduct
      <3>4. CanDeduct(scope, s, tx.actor)
        BY <1>0, <3>3 DEF CanDeduct, GetBalanceErr, GetBalance
      <3>5. Paid(s, tx) = Merge(scope, Paid(st, tx), s)
        <4>1. Puts(s, Paid(s, tx), BalanceKey(tx.actor), st[BalanceKey(tx.actor)] - Fee)
          BY <1>0, <3>3, <3>4, PaidFacts
        <4>2. Puts(st, Paid(st, tx), BalanceKey(tx.actor), st[BalanceKey(tx.actor)] - Fee)
          BY PaidFacts
        <4> HIDE DEF scope
        <4>3. \A k \in Key : Paid(s, tx)[k] = IF CanRead(scope, k) THEN Paid(st, tx)[k] ELSE s[k]
          BY <3>3, <4>1, <4>2 DEF Puts, scope
        <4>4. Paid(s, tx) = [k \in Key |-> Paid(s, tx)[k]]
          BY <4>1 DEF Puts
        <4> QED
          BY <4>3, <4>4 DEF Merge
      <3> QED
        BY <2>4, <2>5, <3>1, <3>2, <3>5
    <2>6. CASE i # 0
      <3>1. i \in 1 .. K /\ i - 1 \in 0 .. K
        BY <1>0, <2>2, <2>6
      <3>2. P(i - 1)
        BY <2>3, <3>1 DEF T
      <3>3. PICK q : Runs(st, ts, tx)[i - 1] = {q} /\ GoodRun(q, st, scope)
        BY <3>1, RunsShape
      <3>10. Runs(s, ts, tx)[i - 1] = {Moved(q)}
        BY <3>2, <3>3
      <3>4. tx.actions[i].type # "CreateMarket"
        BY <3>1, BuyOutcomes, BuyFields
      <3> DEFINE Next(v) == Attempt(scope, v, ts, tx.actor, tx.actions[i])
      <3>5. /\ q.ok => Runs(st, ts, tx)[i] = {Next(q.view)}
            /\ ~q.ok => Runs(st, ts, tx)[i] = {q}
        <4>1. Runs(st, ts, tx)[i] = Continued(ts, tx, Runs(st, ts, tx)[i - 1], i)
          BY <1>0, <3>1, RunsUnfold
        <4>2. Runs(st, ts, tx)[i] =
                 IF q.ok THEN Outcomes(scope, q.view, ts, tx.actor, tx.actions[i]) ELSE {q}
          BY <3>3, <4>1 DEF Continued
        <4>3. Outcomes(scope, q.view, ts, tx.actor, tx.actions[i]) = {Next(q.view)}
          BY <3>4 DEF Outcomes
        <4> QED
          BY <4>2, <4>3
      <3>6. /\ q.ok => Runs(s, ts, tx)[i] = {Next(Merge(scope, q.view, s))}
            /\ ~q.ok => Runs(s, ts, tx)[i] = {Moved(q)}
        <4> DEFINE p == Moved(q)
        <4> HIDE DEF p
        <4>1. Runs(s, ts, tx)[i - 1] = {p}
          BY <3>10 DEF p
        <4>2. Runs(s, ts, tx)[i] = Continued(ts, tx, Runs(s, ts, tx)[i - 1], i)
          BY <1>0, <3>1, RunsUnfold
        <4>3. Runs(s, ts, tx)[i] =
                 IF p.ok THEN Outcomes(scope, p.view, ts, tx.actor, tx.actions[i]) ELSE {p}
          BY <4>1, <4>2 DEF Continued
        <4>4. Outcomes(scope, p.view, ts, tx.actor, tx.actions[i]) = {Next(p.view)}
          BY <3>4 DEF Outcomes
        <4>5. p.ok = q.ok /\ p.view = Merge(scope, q.view, s)
          BY DEF p
        <4> QED
          BY <4>3, <4>4, <4>5 DEF p
      <3>7. Next(Merge(scope, q.view, s)) = Moved(Next(q.view))
        <4>1. /\ tx.actions[i] \in Buy /\ ActionKeys(tx.actor, tx.actions[i]) \subseteq scope
              /\ Coherent(scope) /\ StoreOK(q.view)
          BY <3>1, <3>3, BuyOutcomes, StateKeysCoherent DEF GoodRun
        <4> DEFINE one == Next(q.view)
                   other == Next(Merge(scope, q.view, s))
        <4>2. other.ok = one.ok /\ other.view = Merge(scope, one.view, s)
          BY <1>0, <4>1, AttemptLocal
        <4>3. other = [ok |-> other.ok, view |-> other.view]
          BY AttemptCases
        <4> HIDE DEF one, other
        <4>4. other = Moved(one)
          BY <4>2, <4>3
        <4> QED
          BY <4>4 DEF one, other
      <3> HIDE DEF Next
      <3>8. CASE q.ok
        <4>1. r = Next(q.view)
          BY <2>4, <3>5, <3>8
        <4>2. Runs(s, ts, tx)[i] = {Moved(Next(q.view))}
          BY <3>6, <3>7, <3>8
        <4> QED
          BY <2>4, <4>1, <4>2
      <3>9. CASE ~q.ok
        <4>1. r = q
          BY <2>4, <3>5, <3>9
        <4>2. Runs(s, ts, tx)[i] = {Moved(q)}
          BY <3>6, <3>9
        <4> QED
          BY <2>4, <4>1, <4>2
      <3> QED
        BY <3>8, <3>9
    <2> QED
      BY <2>5, <2>6
  <1> QED
    BY <1>1

(* A run that has failed stays as it is (the early return of Execute).     *)
LEMMA FailedStays ==
    ASSUME NEW tx \in Transaction, NEW ts, NEW st, NEW run, ~run.ok,
           NEW n \in 0 .. Len(tx.actions), Runs(st, ts, tx)[n] = {run},
           NEW m \in n .. Len(tx.actions)
    PROVE  Runs(st, ts, tx)[m] = {run}
  <1> DEFINE K == Len(tx.actions)
             T == {i \in n .. K : Runs(st, ts, tx)[i] # {run}}
  <1>0. K \in Nat
    BY ActionKinds
  <1>1. T = {}
    <2> SUFFICES ASSUME T # {} PROVE FALSE
      OBVIOUS
    <2>0. T \subseteq Nat
      OBVIOUS
    <2> HIDE DEF T
    <2>1. PICK i \in T : \A k \in T : i <= k
      BY <2>0, LeastNat
    <2>2. i \in n .. K /\ Runs(st, ts, tx)[i] # {run}
      BY DEF T
    <2>3. i - 1 \notin T
      BY <1>0, <2>1, <2>2
    <2>4. i # n /\ i - 1 \in n .. K /\ i \in 1 .. K
      BY <1>0, <2>2
    <2>5. Runs(st, ts, tx)[i - 1] = {run}
      BY <2>3, <2>4 DEF T
    <2>6. Runs(st, ts, tx)[i] = Continued(ts, tx, Runs(st, ts, tx)[i - 1], i)
      BY <1>0, <2>4, RunsUnfold
    <2>7. Runs(st, ts, tx)[i] = {run}
      BY <2>5, <2>6 DEF Continued
    <2> QED
      BY <2>2, <2>7
  <1> QED
    BY <1>1

(* A run that is over, at its end or by a failure, is what the transaction *)
(* comes to.                                                               *)
LEMMA EffectsOf ==
    ASSUME NEW tx \in Transaction, NEW ts, NEW st, NEW run, run.ok \in BOOLEAN,
           NEW n \in 0 .. Len(tx.actions), Runs(st, ts, tx)[n] = {run},
           run.ok => n = Len(tx.actions)
    PROVE  /\ run.ok => Effects(st, ts, tx) = {run.view}
           /\ ~run.ok => Effects(st, ts, tx) = {Paid(st, tx)}
  <1>0. Len(tx.actions) \in Nat
    BY ActionKinds
  <1>1. Runs(st, ts, tx)[Len(tx.actions)] = {run}
    <2>1. CASE run.ok
      BY <2>1
    <2>2. CASE ~run.ok
      <3>1. Len(tx.actions) \in n .. Len(tx.actions)
        BY <1>0
      <3> QED
        BY <2>2, <3>1, FailedStays
    <2> QED
      BY <2>1, <2>2
  <1>2. Effects(st, ts, tx) = {IF run.ok THEN run.view ELSE Paid(st, tx)}
    BY <1>1 DEF Effects, Paid
  <1> QED
    BY <1>2

(* Two states agree on what a scope can read.                              *)
Agree(scope, st, s) == \A k \in Key : CanRead(scope, k) => s[k] = st[k]

(* Whether a sponsor can pay depends on what the transaction can read.     *)
LEMMA CanDeductLocal ==
    ASSUME NEW scope, NEW a \in Addr, NEW st, CanDeduct(scope, st, a), NEW s,
           Agree(scope, st, s)
    PROVE  CanDeduct(scope, s, a)
  <1>1. s[BalanceKey(a)] = st[BalanceKey(a)]
    BY KeysInKey DEF CanDeduct, Agree
  <1> QED
    BY <1>1 DEF CanDeduct, GetBalanceErr, GetBalance

(* A transaction leads from st to e and to nothing else.                   *)
Leads(st, ts, tx, e) == Effects(st, ts, tx) = {e}

(* A queued transaction that is paid for comes to one state, keeps to its  *)
(* keys, and does the same to every state that agrees on what it reads.    *)
LEMMA EffectsLocal ==
    ASSUME NEW tx \in Transaction, ~StateKeysErr(tx), NEW ts, NEW st, StoreOK(st),
           CanDeduct(StateKeys(tx), st, tx.actor), NEW s, StoreOK(s),
           Agree(StateKeys(tx), st, s)
    PROVE  \E e : /\ StoreOK(e) /\ KeepsTo(StateKeys(tx), st, e)
                  /\ Leads(st, ts, tx, e) /\ Leads(s, ts, tx, Merge(StateKeys(tx), e, s))
  <1> DEFINE scope == StateKeys(tx)
             K == Len(tx.actions)
  <1>1. K \in Nat /\ K \in 0 .. K /\ 0 \in 0 .. K
    BY ActionKinds
  <1>2. PICK run : Runs(st, ts, tx)[K] = {run} /\ GoodRun(run, st, scope)
    BY <1>1, RunsShape
  <1> DEFINE other == [ok |-> run.ok, view |-> Merge(scope, run.view, s)]
  <1>3. Runs(s, ts, tx)[K] = {other}
    BY <1>1, <1>2, RunsLocal DEF Agree
  <1>4. other.ok = run.ok /\ other.view = Merge(scope, run.view, s) /\ run.ok \in BOOLEAN
    BY <1>2 DEF GoodRun
  <1> HIDE DEF other
  <1>5. /\ run.ok => Effects(st, ts, tx) = {run.view}
        /\ ~run.ok => Effects(st, ts, tx) = {Paid(st, tx)}
    BY <1>1, <1>2, <1>4, EffectsOf
  <1>6. /\ other.ok => Effects(s, ts, tx) = {other.view}
        /\ ~other.ok => Effects(s, ts, tx) = {Paid(s, tx)}
    BY <1>1, <1>3, <1>4, EffectsOf
  <1>7. CASE run.ok
    BY <1>2, <1>4, <1>5, <1>6, <1>7 DEF GoodRun, Leads
  <1>8. CASE ~run.ok
    <2>1. Effects(st, ts, tx) = {Paid(st, tx)}
      BY <1>5, <1>8
    <2>2. Effects(s, ts, tx) = {Paid(s, tx)}
      BY <1>4, <1>6, <1>8
    <2>3. Paid(s, tx) = Merge(scope, Paid(st, tx), s)
      <3> DEFINE first == [ok |-> TRUE, view |-> Paid(st, tx)]
      <3>1. /\ Runs(st, ts, tx)[0] = {first}
            /\ Runs(s, ts, tx)[0] = {[ok |-> TRUE, view |-> Paid(s, tx)]}
        BY <1>1, RunsUnfold
      <3>2. first.ok /\ first.view = Paid(st, tx)
        OBVIOUS
      <3> HIDE DEF first
      <3>3. Runs(s, ts, tx)[0] = {[ok |-> first.ok, view |-> Merge(scope, first.view, s)]}
        BY <1>1, <3>1, RunsLocal DEF Agree
      <3>4. [ok |-> TRUE, view |-> Paid(s, tx)] =
               [ok |-> first.ok, view |-> Merge(scope, first.view, s)]
        BY <3>1, <3>3
      <3>5. [ok |-> TRUE, view |-> Paid(s, tx)].view =
               [ok |-> first.ok, view |-> Merge(scope, first.view, s)].view
        BY <3>4
      <3> QED
        BY <3>2, <3>5
    <2>4. StoreOK(Paid(st, tx)) /\ KeepsTo(scope, st, Paid(st, tx))
      <3>1. /\ Puts(st, Paid(st, tx), BalanceKey(tx.actor), st[BalanceKey(tx.actor)] - Fee)
            /\ StoreOK(Paid(st, tx))
        BY PaidFacts
      <3>2. CanWrite(scope, BalanceKey(tx.actor))
        BY SponsorReadable DEF CanDeduct, CanWrite
      <3> QED
        BY <3>1, <3>2 DEF Puts, KeepsTo
    <2> QED
      BY <2>1, <2>2, <2>3, <2>4 DEF Leads
  <1> QED
    BY <1>4, <1>7, <1>8

-----------------------------------------------------------------------------
(* Totals and holdings, under any transaction.                             *)

(* Every market is stored under its own ID.                                *)
Filed(st) == \A m \in MarketID : st[MarketKey(m)] # NotFound => st[MarketKey(m)].ID = m

(* From st to s, no market is lost and totals move with the holdings.      *)
InStep(st, s) ==
    \A m \in MarketID : st[MarketKey(m)] # NotFound =>
        /\ s[MarketKey(m)] # NotFound
        /\ \A t \in ShareType : Ahead(s, m, t) = Ahead(st, m, t)

(* A market with the holdings in it is as far ahead as it was.             *)
LEMMA AheadKept ==
    ASSUME NEW st, StoreOK(st), NEW s, StoreOK(s), NEW m \in MarketID, NEW t \in ShareType,
           s[MarketKey(m)].TotalShares[t] = st[MarketKey(m)].TotalShares[t],
           \A c \in Addr : s[ShareBalanceKey(m, c, t)] = st[ShareBalanceKey(m, c, t)]
    PROVE  Ahead(s, m, t) = Ahead(st, m, t)
  <1>1. \A c \in Addr : GetShareBalance(s, m, c, t) = GetShareBalance(st, m, c, t)
    BY DEF GetShareBalance
  <1>2. Held(s, m, t) = Held(st, m, t)
    BY <1>1, HeldKept
  <1> QED
    BY <1>2 DEF Ahead, GetMarket

(* A purchase that goes through raises the total of its market by what it  *)
(* adds to the actor's holding, although it writes back a market that it   *)
(* read two writes earlier.                                                *)
LEMMA AttemptInStep ==
    ASSUME NEW scope, NEW v, StoreOK(v), Filed(v), NEW ts, NEW a \in Addr, NEW action \in Buy,
           Attempt(scope, v, ts, a, action).ok
    PROVE  LET s == Attempt(scope, v, ts, a, action).view IN Filed(s) /\ InStep(v, s)
  <1> DEFINE m0 == action.order.MarketID
             t0 == Side(action)
             n == action.order.Amount
             w == AfterDebit(v, a, action)
             x == AfterCredit(v, a, action)
             market == Rewritten(v, action)
             s == Attempt(scope, v, ts, a, action).view
             old == v[MarketKey(m0)]
             had == GetShareBalance(v, m0, a, t0)
  <1>1. /\ Retotals(scope, v, ts, a, action) /\ Admits(v, ts, a, action)
        /\ s = SetMarket(x, market)
    <2>1. /\ Retotals(scope, v, ts, a, action) /\ Credits(scope, v, ts, a, action)
          /\ Debits(scope, v, ts, a, action) /\ s = SetMarket(x, market)
      BY AttemptCases
    <2> QED
      BY <2>1 DEF Debits
  <1>2. m0 \in MarketID /\ t0 \in ShareType /\ n \in U64
    BY BuyFields DEF Side, ShareType
  <1>3. old # NotFound /\ old \in Market /\ old.ID = m0
    <2>1. old # NotFound
      BY <1>1 DEF Admits, BuyYesAdmits, BuyNoAdmits, GetMarketErr
    <2> QED
      BY <1>2, <2>1 DEF StoreOK, Filed
  <1>4. old.TotalShares \in [ShareType -> U64] /\ old.TotalShares[t0] \in U64
    BY <1>2, <1>3 DEF Market
  <1>5. /\ market \in Market /\ market.ID = m0
        /\ market.TotalShares[t0] = Wrap(old.TotalShares[t0] + n)
        /\ \A t \in ShareType : t # t0 => market.TotalShares[t] = old.TotalShares[t]
    <2>1. market \in Market
      BY <1>1, AdmittedBuy
    <2>2. market = [old EXCEPT !.TotalShares[t0] = Wrap(old.TotalShares[t0] + n)]
      BY <1>2, <1>3, <1>4 DEF Rewritten, Retotalled, GetMarket, Market
    <2> QED
      BY <1>2, <1>3, <1>4, <2>1, <2>2 DEF Market
  <1>6. /\ Puts(v, w, BalanceKey(a), v[BalanceKey(a)] - Cost(action.order))
        /\ Puts(w, x, ShareKey(a, action), Wrap(had + n))
        /\ StoreOK(x) /\ ShareKey(a, action) \in Key
    BY <1>1, AdmittedWrites
  <1>7. StoreOK(s)
    BY AttemptEffect
  <1>8. had \in U64 /\ Wrap(had + n) \in U64
    <2>1. had \in U64
      BY <1>2, GetShareBalanceType
    <2>2. had + n \in Int
      BY <1>2, <2>1, WordAssumption DEF U64
    <2> QED
      BY <2>1, <2>2, WrapInU64
  <1> HIDE DEF s, market, w, x
  <1>9. Puts(x, s, MarketKey(m0), market)
    BY <1>1, <1>2, <1>5, <1>6, KeysInKey, InsertPuts DEF SetMarket
  <1>10. ASSUME NEW m \in MarketID
         PROVE  s[MarketKey(m)] = IF m = m0 THEN market ELSE v[MarketKey(m)]
    <2>1. /\ MarketKey(m) \in Key /\ MarketKey(m) # BalanceKey(a)
          /\ MarketKey(m) # ShareKey(a, action)
          /\ m # m0 => MarketKey(m) # MarketKey(m0)
      BY <1>10, KeysInKey, FamiliesDisjoint, KeysInjective DEF ShareKey
    <2> QED
      BY <1>6, <1>9, <2>1 DEF Puts
  <1>11. ASSUME NEW m \in MarketID, NEW c \in Addr, NEW t \in ShareType
         PROVE  s[ShareBalanceKey(m, c, t)] =
                   IF m = m0 /\ c = a /\ t = t0 THEN Wrap(had + n) ELSE v[ShareBalanceKey(m, c, t)]
    <2> DEFINE k == ShareBalanceKey(m, c, t)
    <2>1. /\ k \in Key /\ k # BalanceKey(a) /\ k # MarketKey(m0)
          /\ k = ShareKey(a, action) <=> (m = m0 /\ c = a /\ t = t0)
      BY <1>11, KeysInKey, FamiliesDisjoint, KeysInjective DEF ShareKey
    <2> HIDE DEF k
    <2>2. s[k] = IF m = m0 /\ c = a /\ t = t0 THEN Wrap(had + n) ELSE v[k]
      BY <1>6, <1>9, <2>1 DEF Puts
    <2> QED
      BY <2>2 DEF k
  <1>12. Filed(s)
    BY <1>5, <1>10 DEF Filed
  <1>13. ASSUME NEW m \in MarketID, v[MarketKey(m)] # NotFound, NEW t \in ShareType
         PROVE  s[MarketKey(m)] # NotFound /\ Ahead(s, m, t) = Ahead(v, m, t)
    <2>1. s[MarketKey(m)] # NotFound
      BY <1>5, <1>10, <1>13, NotFoundAssumption
    <2>2. CASE m = m0 /\ t = t0
      <3>1. GetShareBalance(s, m0, a, t0) = Wrap(had + n)
        <4>1. s[ShareBalanceKey(m0, a, t0)] = Wrap(had + n)
          BY <1>2, <1>11
        <4>2. Wrap(had + n) # NotFound
          BY <1>8, NotFoundAssumption, WordAssumption DEF U64
        <4> QED
          BY <4>1, <4>2 DEF GetShareBalance, ZeroIfNotFound
      <3>2. \A c \in Addr \ {a} : GetShareBalance(s, m0, c, t0) = GetShareBalance(v, m0, c, t0)
        BY <1>2, <1>11 DEF GetShareBalance
      <3>3. /\ Held(v, m0, t0) \in Int
            /\ Held(s, m0, t0) = Held(v, m0, t0) + (Wrap(had + n) - had)
        BY <1>2, <1>7, <3>1, <3>2, HeldMoves
      <3>4. s[MarketKey(m0)].TotalShares[t0] = Wrap(old.TotalShares[t0] + n)
        BY <1>2, <1>5, <1>10
      <3>5. Wrap(Wrap(old.TotalShares[t0] + n) - (Held(v, m0, t0) + (Wrap(had + n) - had)))
               = Wrap(old.TotalShares[t0] - Held(v, m0, t0))
        BY <1>2, <1>4, <1>8, <3>3, WrapPace
      <3>6. Ahead(s, m0, t0) = Ahead(v, m0, t0)
        BY <3>3, <3>4, <3>5 DEF Ahead, GetMarket
      <3> QED
        BY <2>1, <2>2, <3>6
    <2>3. CASE ~(m = m0 /\ t = t0)
      <3>1. \A c \in Addr : s[ShareBalanceKey(m, c, t)] = v[ShareBalanceKey(m, c, t)]
        BY <1>11, <1>13, <2>3
      <3>2. s[MarketKey(m)].TotalShares[t] = v[MarketKey(m)].TotalShares[t]
        BY <1>5, <1>10, <1>13, <2>3
      <3> QED
        BY <1>7, <1>13, <2>1, <3>1, <3>2, AheadKept
    <2> QED
      BY <2>2, <2>3
  <1>14. InStep(v, s)
    BY <1>13 DEF InStep, ShareType
  <1> QED
    BY <1>12, <1>14 DEF s

(* Taking a fee moves neither totals nor holdings.                         *)
LEMMA PaidInStep ==
    ASSUME NEW tx \in Transaction, NEW scope, NEW st, StoreOK(st), Filed(st),
           CanDeduct(scope, st, tx.actor)
    PROVE  Filed(Paid(st, tx)) /\ InStep(st, Paid(st, tx))
  <1> DEFINE s == Paid(st, tx)
  <1>1. /\ Puts(st, s, BalanceKey(tx.actor), st[BalanceKey(tx.actor)] - Fee)
        /\ StoreOK(s)
    BY PaidFacts
  <1> HIDE DEF s
  <1>2. \A m \in MarketID : s[MarketKey(m)] = st[MarketKey(m)]
    BY <1>1, KeysInKey, FamiliesDisjoint DEF Puts
  <1>3. \A m \in MarketID, c \in Addr, t \in ShareType :
           s[ShareBalanceKey(m, c, t)] = st[ShareBalanceKey(m, c, t)]
    <2> SUFFICES ASSUME NEW m \in MarketID, NEW c \in Addr, NEW t \in ShareType
                 PROVE  s[ShareBalanceKey(m, c, t)] = st[ShareBalanceKey(m, c, t)]
      OBVIOUS
    <2>1. /\ ShareBalanceKey(m, c, t) \in Key
          /\ ShareBalanceKey(m, c, t) # BalanceKey(tx.actor)
      BY KeysInKey, FamiliesDisjoint
    <2> QED
      BY <1>1, <2>1 DEF Puts
  <1>4. \A m \in MarketID, t \in ShareType : Ahead(s, m, t) = Ahead(st, m, t)
    BY <1>1, <1>2, <1>3, AheadKept
  <1> QED
    BY <1>2, <1>4 DEF s, Filed, InStep

(* However many purchases a run has made, totals and holdings are in step. *)
LEMMA RunsInStep ==
    ASSUME NEW tx \in Transaction, ~StateKeysErr(tx), NEW ts, NEW st, StoreOK(st), Filed(st),
           CanDeduct(StateKeys(tx), st, tx.actor), NEW n \in 0 .. Len(tx.actions),
           NEW r, Runs(st, ts, tx)[n] = {r}, r.ok
    PROVE  Filed(r.view) /\ InStep(st, r.view)
  <1> DEFINE K == Len(tx.actions)
             scope == StateKeys(tx)
             Good(run) == run.ok => Filed(run.view) /\ InStep(st, run.view)
             P(i) == \A run \in Runs(st, ts, tx)[i] : Good(run)
             T == {i \in 0 .. K : ~P(i)}
  <1>0. K \in Nat /\ tx.actor \in Addr
    BY ActionKinds
  <1>1. T = {}
    <2> SUFFICES ASSUME T # {} PROVE FALSE
      OBVIOUS
    <2>0. T \subseteq Nat
      OBVIOUS
    <2> HIDE DEF T
    <2>1. PICK i \in T : \A k \in T : i <= k
      BY <2>0, LeastNat
    <2>2. i \in 0 .. K /\ ~P(i)
      BY DEF T
    <2>3. i - 1 \notin T
      BY <2>1, <2>2, <1>0
    <2>4. CASE i = 0
      <3> DEFINE run == [ok |-> TRUE, view |-> Paid(st, tx)]
      <3>1. Runs(st, ts, tx)[0] = {run} /\ run.view = Paid(st, tx)
        BY <1>0, RunsUnfold
      <3> HIDE DEF run
      <3>2. Good(run)
        BY <3>1, PaidInStep
      <3> QED
        BY <2>2, <2>4, <3>1, <3>2
    <2>5. CASE i # 0
      <3>1. i \in 1 .. K /\ i - 1 \in 0 .. K
        BY <1>0, <2>2, <2>5
      <3>2. P(i - 1)
        BY <2>3, <3>1 DEF T
      <3>3. PICK run : Runs(st, ts, tx)[i - 1] = {run} /\ GoodRun(run, st, scope)
        BY <3>1, RunsShape
      <3> DEFINE next == Attempt(scope, run.view, ts, tx.actor, tx.actions[i])
      <3>4. /\ run.ok => Runs(st, ts, tx)[i] = {next}
            /\ ~run.ok => Runs(st, ts, tx)[i] = {run}
        <4>1. Runs(st, ts, tx)[i] = Continued(ts, tx, Runs(st, ts, tx)[i - 1], i)
          BY <1>0, <3>1, RunsUnfold
        <4>2. Runs(st, ts, tx)[i] =
                 IF run.ok THEN Outcomes(scope, run.view, ts, tx.actor, tx.actions[i]) ELSE {run}
          BY <3>3, <4>1 DEF Continued
        <4>3. Outcomes(scope, run.view, ts, tx.actor, tx.actions[i]) = {next}
          BY <3>1, BuyOutcomes
        <4> QED
          BY <4>2, <4>3
      <3>5. Good(run)
        BY <3>2, <3>3
      <3>6. run.ok => Good(next)
        <4> SUFFICES ASSUME run.ok, next.ok
                     PROVE  Filed(next.view) /\ InStep(st, next.view)
          OBVIOUS
        <4>1. tx.actions[i] \in Buy
          BY <3>1, BuyOutcomes
        <4>2. StoreOK(run.view) /\ Filed(run.view) /\ InStep(st, run.view)
          BY <3>3, <3>5 DEF GoodRun
        <4>3. Filed(next.view) /\ InStep(run.view, next.view)
          BY <1>0, <4>1, <4>2, AttemptInStep
        <4> HIDE DEF next
        <4> QED
          BY <4>2, <4>3 DEF InStep
      <3> HIDE DEF next
      <3> QED
        BY <2>2, <3>3, <3>4, <3>5, <3>6
    <2> QED
      BY <2>4, <2>5
  <1> QED
    BY <1>1

(* What a transaction comes to is in step with the state it started from,  *)
(* with a purchase after another or with the fee alone.                    *)
LEMMA EffectsInStep ==
    ASSUME NEW tx \in Transaction, ~StateKeysErr(tx), NEW ts, NEW st, StoreOK(st), Filed(st),
           CanDeduct(StateKeys(tx), st, tx.actor), NEW s \in Effects(st, ts, tx)
    PROVE  Filed(s) /\ InStep(st, s)
  <1> DEFINE K == Len(tx.actions)
  <1>1. K \in 0 .. K
    BY ActionKinds
  <1>2. PICK run : Runs(st, ts, tx)[K] = {run} /\ GoodRun(run, st, StateKeys(tx))
    BY <1>1, RunsShape
  <1>3. run.ok \in BOOLEAN
    BY <1>2 DEF GoodRun
  <1>4. /\ run.ok => s = run.view
        /\ ~run.ok => s = Paid(st, tx)
    BY <1>1, <1>2, <1>3, EffectsOf
  <1>5. run.ok => Filed(run.view) /\ InStep(st, run.view)
    BY <1>1, <1>2, RunsInStep
  <1> QED
    BY <1>3, <1>4, <1>5, PaidInStep

-----------------------------------------------------------------------------
(* What the chain starts from is well formed, has every market under its   *)
(* own ID and holds every account's genesis balance.                       *)
LEMMA StartOK ==
    ASSUME NEW st \in StartStores
    PROVE  StoreOK(st) /\ Filed(st) /\ \A a \in Addr : st[BalanceKey(a)] = Genesis[a]
  <1>1. PICK seed \in Seeds :
           st = [k \in Key |-> IF k \in DOMAIN Holdings THEN Holdings[k]
                                                        ELSE GenesisStore(seed)[k]]
    BY DEF StartStores
  <1> DEFINE g == GenesisStore(seed)
  <1>2. /\ \A a \in Addr : g[BalanceKey(a)] = Genesis[a]
        /\ \A a \in Addr : g[StateKeysBalance(a)] = NotFound
        /\ \A m \in MarketID : g[MarketKey(m)] = seed[m]
        /\ \A m \in MarketID, a \in Addr, t \in ShareType :
              g[ShareBalanceKey(m, a, t)] = NotFound
    BY GenesisRecords
  <1> HIDE DEF g
  <1>3. \A k \in Key : st[k] = IF k \in DOMAIN Holdings THEN Holdings[k] ELSE g[k]
    BY <1>1 DEF g
  <1>4. st = [k \in Key |-> st[k]]
    BY <1>1
  <1>5. ASSUME NEW a \in Addr
        PROVE  st[BalanceKey(a)] = Genesis[a] /\ st[StateKeysBalance(a)] = NotFound
    <2>1. BalanceKey(a) \notin DOMAIN Holdings /\ StateKeysBalance(a) \notin DOMAIN Holdings
      BY HoldingsAssumption, FamiliesDisjoint
    <2> QED
      BY <1>2, <1>3, <2>1, KeysInKey
  <1>6. ASSUME NEW m \in MarketID PROVE st[MarketKey(m)] = seed[m]
    <2>1. MarketKey(m) \notin DOMAIN Holdings
      BY HoldingsAssumption, FamiliesDisjoint
    <2> QED
      BY <1>2, <1>3, <2>1, KeysInKey
  <1>7. ASSUME NEW m \in MarketID, NEW a \in Addr, NEW t \in ShareType
        PROVE  st[ShareBalanceKey(m, a, t)] \in U64 \cup {NotFound}
    BY <1>2, <1>3, HoldingsAssumption, KeysInKey
  <1>8. \A m \in MarketID : seed[m] \in Market \cup {NotFound}
    BY SeedsAssumption
  <1>9. Filed(st)
    BY <1>6, SeedsAssumption DEF Filed
  <1> QED
    BY <1>4, <1>5, <1>6, <1>7, <1>8, <1>9, GenesisAssumption DEF StoreOK
=============================================================================
