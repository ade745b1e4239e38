------------------------- MODULE GenesisInit_proofs -------------------------
(***************************************************************************)
(* Proofs about GenesisInit: for every list of allocations, of any length, *)
(* both implementations of InitializeState give accounts what the list     *)
(* says.                                                                   *)
(***************************************************************************)
EXTENDS GenesisInit, Ledger_proofs

(* The entries of an account, those among the first n, and what they give. *)
Entries(al, a) == {i \in DOMAIN al : al[i].Address = a}

Seen(al, a, n) == {i \in 1 .. n : al[i].Address = a}

Amounts(al, S) == [i \in S |-> al[i].Balance]

Funds(st) == [a \in Addr |-> GetBalance(st, a)]

(* The sums that the properties are about.                                 *)
Given(al, S) == MapThenSumSet(LAMBDA i : al[i].Balance, S)

Circulating(st) == MapThenSumSet(LAMBDA a : GetBalance(st, a), Addr)

(* The sums of the properties are sums in the sense of IsSum.              *)
LEMMA AmountsSum ==
    ASSUME NEW al, NEW S, IsFiniteSet(S)
    PROVE  \E g : IsSum(g, Amounts(al, S), S) /\ Given(al, S) = g[S]
  <1> DEFINE f == Amounts(al, S)
             Body(g) == [s \in SUBSET S |->
                            IF s = {} THEN 0
                            ELSE al[Some(s)].Balance + g[s \ {Some(s)}]]
  <1>1. \E g : IsSum(g, f, S)
    BY SumExists
  <1>2. \A s \in SUBSET S : s # {} => f[Some(s)] = al[Some(s)].Balance
    BY DEF Some, Amounts
  <1>3. \A g : IsSum(g, f, S) <=> g = Body(g)
    BY <1>2 DEF IsSum
  <1> DEFINE iter == CHOOSE g : g = Body(g)
  <1>4. iter = Body(iter)
    <2> HIDE DEF Body
    <2> QED
      BY <1>1, <1>3
  <1>5. Given(al, S) = iter[S]
    BY Zenon DEF Given, MapThenSumSet, MapThenFoldSet, Some
  <1> HIDE DEF iter, Body, f
  <1>6. IsSum(iter, f, S)
    BY <1>3, <1>4
  <1> QED
    BY <1>5, <1>6 DEF f

(* The same of the balances of all accounts.                               *)
LEMMA FundsSum ==
    ASSUME NEW st
    PROVE  \E g : IsSum(g, Funds(st), Addr) /\ Circulating(st) = g[Addr]
  <1> DEFINE f == Funds(st)
             Body(g) == [s \in SUBSET Addr |->
                            IF s = {} THEN 0
                            ELSE GetBalance(st, Some(s)) + g[s \ {Some(s)}]]
  <1>1. \E g : IsSum(g, f, Addr)
    BY AddrAssumption, SumExists
  <1>2. \A s \in SUBSET Addr : s # {} => f[Some(s)] = GetBalance(st, Some(s))
    BY DEF Some, Funds
  <1>3. \A g : IsSum(g, f, Addr) <=> g = Body(g)
    BY <1>2 DEF IsSum
  <1> DEFINE iter == CHOOSE g : g = Body(g)
  <1>4. iter = Body(iter)
    <2> HIDE DEF Body
    <2> QED
      BY <1>1, <1>3
  <1>5. Circulating(st) = iter[Addr]
    BY Zenon DEF Circulating, MapThenSumSet, MapThenFoldSet, Some
  <1> HIDE DEF iter, Body, f
  <1>6. IsSum(iter, f, Addr)
    BY <1>3, <1>4
  <1> QED
    BY <1>5, <1>6 DEF f

-----------------------------------------------------------------------------
(* The inductive invariant.                                                *)

Typed ==
    /\ TypeOK
    /\ kind \in {"predictionvm", "default"}
    /\ allocs \in Seq(Alloc)
    /\ kind = "default" => \A i \in DOMAIN allocs : allocs[i].Address \in Addr

(* An account's record is the uint64 sum of its entries so far, and is     *)
(* missing as long as there are none.                                      *)
Recorded(al, n, st, a) ==
    \A g : IsSum(g, Amounts(al, Entries(al, a)), Entries(al, a)) =>
        st[BalanceKey(a)] = IF Seen(al, a, n) = {} THEN NotFound
                            ELSE Wrap(g[Seen(al, a, n)])

(* DefaultGenesis' supply is the sum of the entries so far.                *)
Supplied(al, n, total) ==
    \A g : IsSum(g, Amounts(al, DOMAIN al), DOMAIN al) => total = g[1 .. n]

(* It is also the sum of all balances.                                     *)
Backed(st, total) == \A g : IsSum(g, Funds(st), Addr) => total = g[Addr]

(* Why the entry after the first n was rejected.                           *)
Explained(al, n, st) ==
    \/ DecodeErr(al[n + 1])
    \/ \A g : IsSum(g, Amounts(al, DOMAIN al), DOMAIN al) => g[DOMAIN al] >= Word
    \/ /\ \E i \in 1 .. n : al[i].Address = al[n + 1].Address
       /\ st[BalanceKey(al[n + 1].Address)] = 0

IInv ==
    /\ Typed
    /\ \A a \in Addr : Recorded(allocs, pos, store, a)
    /\ kind = "default" => Supplied(allocs, pos, supply) /\ Backed(store, supply)
    /\ outcome = "ok" => pos = Len(allocs)
    /\ outcome = "failed" => Explained(allocs, pos, store)

(* An entry of the list, and the sets of entries.                          *)
LEMMA AllocFacts ==
    ASSUME NEW al \in Seq(Alloc)
    PROVE  /\ DOMAIN al = 1 .. Len(al) /\ Len(al) \in Nat
           /\ IsFiniteSet(DOMAIN al) /\ Amounts(al, DOMAIN al) \in [DOMAIN al -> Nat]
           /\ \A i \in DOMAIN al : al[i].Balance \in U64 /\ al[i].Balance \in Nat
           /\ \A i \in DOMAIN al : al[i].Address \in Addr \cup {Undecodable}
  <1>1. DOMAIN al = 1 .. Len(al) /\ Len(al) \in Nat
    OBVIOUS
  <1>2. IsFiniteSet(DOMAIN al)
    BY <1>1, FS_Interval
  <1>3. \A i \in DOMAIN al : al[i] \in Alloc
    BY <1>1
  <1>4. \A i \in DOMAIN al : /\ al[i].Balance \in U64 /\ al[i].Balance \in Nat
                             /\ al[i].Address \in Addr \cup {Undecodable}
    BY <1>3, WordAssumption DEF Alloc, U64
  <1> QED
    BY <1>1, <1>2, <1>4 DEF Amounts

(* The same of the entries of one account.                                 *)
LEMMA EntriesFacts ==
    ASSUME NEW al \in Seq(Alloc), NEW a
    PROVE  /\ IsFiniteSet(Entries(al, a))
           /\ Amounts(al, Entries(al, a)) \in [Entries(al, a) -> Nat]
           /\ Seen(al, a, Len(al)) = Entries(al, a)
  <1>1. Entries(al, a) \subseteq DOMAIN al
    BY DEF Entries
  <1>2. IsFiniteSet(Entries(al, a))
    BY <1>1, AllocFacts, FS_Subset
  <1>3. Seen(al, a, Len(al)) = Entries(al, a)
    BY AllocFacts DEF Seen, Entries
  <1> QED
    BY <1>1, <1>2, <1>3, AllocFacts DEF Amounts

(* Adding an entry to an account's record.                                 *)
LEMMA RecordGrows ==
    ASSUME NEW al \in Seq(Alloc), NEW n \in Nat, n < Len(al), NEW st, StoreOK(st),
           NEW a \in Addr, al[n + 1].Address = a, Recorded(al, n, st, a),
           NEW s, s[BalanceKey(a)] = Wrap(GetBalance(st, a) + al[n + 1].Balance)
    PROVE  Recorded(al, n + 1, s, a)
  <1> DEFINE E == Entries(al, a)
             old == Seen(al, a, n)
             new == Seen(al, a, n + 1)
             k == al[n + 1].Balance
  <1> SUFFICES ASSUME NEW g, IsSum(g, Amounts(al, E), E)
               PROVE  /\ new # {}
                      /\ s[BalanceKey(a)] = Wrap(g[new])
    BY DEF Recorded
  <1>1. n + 1 \in DOMAIN al /\ k \in U64 /\ k \in Int
    BY AllocFacts, WordAssumption DEF U64
  <1>2. /\ new \in SUBSET E /\ n + 1 \in new /\ new \ {n + 1} = old
        /\ old \in SUBSET E
    BY <1>1, AllocFacts DEF Seen, Entries
  <1>3. IsFiniteSet(E) /\ Amounts(al, E) \in [E -> Int] /\ Amounts(al, E)[n + 1] = k
    <2>1. IsFiniteSet(E) /\ Amounts(al, E) \in [E -> Nat]
      BY EntriesFacts
    <2>2. n + 1 \in E
      BY <1>2
    <2> HIDE DEF E
    <2> QED
      BY <2>1, <2>2 DEF Amounts
  <1> DEFINE f == Amounts(al, E)
  <1>4. IsFiniteSet(E) /\ f \in [E -> Int] /\ f[n + 1] = k /\ IsSum(g, f, E)
    BY <1>3
  <1> HIDE DEF E, f, old, new, k
  <1>5. g[old] \in Int /\ g[new] = f[n + 1] + g[old]
    BY <1>2, <1>4, SumRemove
  <1>6. g[old] \in Int /\ g[new] = k + g[old]
    BY <1>4, <1>5
  <1>7. st[BalanceKey(a)] = IF old = {} THEN NotFound ELSE Wrap(g[old])
    BY <1>4 DEF Recorded, E, f, old
  <1>8. CASE old = {}
    <2>1. g[old] = 0
      BY <1>2, <1>4, <1>8, SumAt
    <2>2. GetBalance(st, a) = 0
      BY <1>7, <1>8 DEF GetBalance, ZeroIfNotFound
    <2> QED
      BY <1>1, <1>2, <1>6, <2>1, <2>2 DEF k
  <1>9. CASE old # {}
    <2>1. Wrap(g[old]) \in U64
      BY <1>6, WrapInU64
    <2>2. GetBalance(st, a) = Wrap(g[old])
      BY <1>7, <1>9, <2>1, NotFoundAssumption DEF GetBalance, ZeroIfNotFound, U64
    <2>3. Wrap(Wrap(g[old]) + k) = Wrap(g[old] + k)
      BY <1>1, <1>6, WrapSum
    <2>4. g[old] + k = k + g[old]
      BY <1>1, <1>6
    <2> QED
      BY <1>2, <1>6, <2>2, <2>3, <2>4 DEF k
  <1> QED
    BY <1>8, <1>9

(* The records of the other accounts stay what they are.                   *)
LEMMA RecordKept ==
    ASSUME NEW al \in Seq(Alloc), NEW n \in Nat, n < Len(al), NEW st, NEW s,
           NEW a, al[n + 1].Address # a, Recorded(al, n, st, a),
           s[BalanceKey(a)] = st[BalanceKey(a)]
    PROVE  Recorded(al, n + 1, s, a)
  <1>1. Seen(al, a, n + 1) = Seen(al, a, n)
    BY DEF Seen
  <1> QED
    BY <1>1 DEF Recorded

(* DefaultGenesis adds the entry to the supply.                            *)
LEMMA SupplyGrows ==
    ASSUME NEW al \in Seq(Alloc), NEW n \in Nat, n < Len(al), NEW total,
           Supplied(al, n, total)
    PROVE  Supplied(al, n + 1, total + al[n + 1].Balance)
  <1> DEFINE D == DOMAIN al
             f == Amounts(al, D)
             k == al[n + 1].Balance
             m == n + 1
             old == 1 .. n
             new == 1 .. m
  <1> SUFFICES ASSUME NEW g, IsSum(g, f, D)
               PROVE  total + k = g[new]
    BY DEF Supplied
  <1>1. m \in new /\ new \ {m} = old /\ new \in SUBSET D
    BY AllocFacts
  <1>2. IsFiniteSet(D) /\ f \in [D -> Int] /\ f[m] = k /\ k \in Int /\ IsSum(g, f, D)
    BY <1>1, AllocFacts, WordAssumption DEF Amounts, U64
  <1>3. total = g[old]
    BY DEF Supplied
  <1> HIDE DEF D, f, k, m, old, new
  <1>4. \A s \in SUBSET D : \A x \in s :
           g[s \ {x}] \in Int /\ g[s] = f[x] + g[s \ {x}]
    <2> SUFFICES ASSUME NEW s \in SUBSET D, NEW x \in s
                 PROVE  g[s \ {x}] \in Int /\ g[s] = f[x] + g[s \ {x}]
      OBVIOUS
    <2> QED
      BY <1>2, SumRemove
  <1>5. g[old] \in Int /\ g[new] = f[m] + g[old]
    BY <1>1, <1>4
  <1> QED
    BY <1>2, <1>3, <1>5

(* What has been supplied is no more than the whole list gives.            *)
LEMMA SupplyBound ==
    ASSUME NEW al \in Seq(Alloc), NEW n \in Nat, n <= Len(al), NEW total,
           Supplied(al, n, total), NEW g, IsSum(g, Amounts(al, DOMAIN al), DOMAIN al)
    PROVE  total \in Nat /\ g[DOMAIN al] \in Nat /\ total <= g[DOMAIN al]
  <1> DEFINE D == DOMAIN al
             f == Amounts(al, D)
  <1>1. IsFiniteSet(D) /\ f \in [D -> Nat] /\ 1 .. n \in SUBSET D /\ IsSum(g, f, D)
    BY AllocFacts
  <1>2. total = g[1 .. n]
    BY DEF Supplied
  <1> HIDE DEF D, f
  <1>3. g[1 .. n] \in Nat /\ g[D] \in Nat /\ g[1 .. n] <= g[D]
    BY <1>1, SumGrows
  <1> QED
    BY <1>2, <1>3 DEF D

(* The balances of a well-formed state.                                    *)
LEMMA FundsType ==
    ASSUME NEW st, StoreOK(st)
    PROVE  /\ Funds(st) \in [Addr -> Nat]
           /\ \A a \in Addr : Funds(st)[a] = GetBalance(st, a) /\ GetBalance(st, a) \in U64
  <1>1. \A a \in Addr : GetBalance(st, a) \in U64 /\ GetBalance(st, a) \in Nat
    BY WordAssumption DEF StoreOK, GetBalance, ZeroIfNotFound, U64
  <1> QED
    BY <1>1 DEF Funds

(* An account that is credited without overflow raises the sum of the      *)
(* balances by as much; that there is no overflow follows from that of the *)
(* supply.                                                                 *)
LEMMA BackingGrows ==
    ASSUME NEW st, StoreOK(st), NEW s, StoreOK(s), NEW total \in Nat, Backed(st, total),
           NEW a \in Addr, NEW k \in U64, total + k < Word,
           GetBalance(s, a) = Wrap(GetBalance(st, a) + k),
           \A c \in Addr : c # a => GetBalance(s, c) = GetBalance(st, c)
    PROVE  Backed(s, total + k)
  <1> SUFFICES ASSUME NEW h, IsSum(h, Funds(s), Addr) PROVE total + k = h[Addr]
    BY DEF Backed
  <1>1. PICK g : IsSum(g, Funds(st), Addr)
    BY AddrAssumption, SumExists
  <1> DEFINE f == Funds(st)
             e == Funds(s)
             x == GetBalance(st, a)
  <1>2. total = g[Addr]
    BY <1>1 DEF Backed
  <1>3. /\ f \in [Addr -> Nat] /\ f \in [Addr -> Int] /\ f[a] = x /\ x \in U64
        /\ \A c \in Addr : f[c] = GetBalance(st, c)
    BY FundsType
  <1>4. /\ e \in [Addr -> Nat] /\ e \in [Addr -> Int] /\ e[a] = GetBalance(s, a)
        /\ \A c \in Addr : e[c] = GetBalance(s, c)
    BY FundsType
  <1>5. \A c \in Addr \ {a} : e[c] = f[c]
    BY <1>3, <1>4
  <1>6. IsSum(g, f, Addr) /\ IsSum(h, e, Addr)
    BY <1>1
  <1>7. x \in Nat /\ k \in Nat
    BY <1>3, WordAssumption DEF U64
  <1>8. e[a] = Wrap(x + k)
    BY <1>4
  <1> HIDE DEF f, e, x
  <1>9. x + k \in U64
    <2>1. g[Addr \ {a}] \in Int /\ g[Addr] = f[a] + g[Addr \ {a}]
      BY <1>3, <1>6, AddrAssumption, SumRemove
    <2>2. g[Addr \ {a}] \in Nat
      BY <1>3, <1>6, AddrAssumption, SumGrows
    <2> QED
      BY <1>2, <1>3, <1>7, <2>1, <2>2, WordAssumption DEF U64
  <1>10. e[a] = x + k
    BY <1>8, <1>9, WrapOnce
  <1>11. g[Addr] \in Int /\ h[Addr] = g[Addr] + (e[a] - f[a])
    BY <1>3, <1>4, <1>5, <1>6, AddrAssumption, SumMoves
  <1> QED
    BY <1>2, <1>3, <1>7, <1>10, <1>11

-----------------------------------------------------------------------------
(* The steps.                                                              *)

(* Nothing is recorded at the start, and all sums are empty.               *)
LEMMA InitIInv == Init => IInv
  <1> SUFFICES ASSUME Init PROVE IInv
    OBVIOUS
  <1>1. allocs \in Seq(Alloc) /\ Len(allocs) \in Nat
    BY AllocationsAssumption DEF Init
  <1>2. /\ \A a \in Addr : store[BalanceKey(a)] = NotFound
        /\ StoreOK(store)
    BY KeysInKey DEF Init, StoreOK
  <1>3. Typed
    BY <1>1, <1>2, AllocFacts, WordAssumption DEF Typed, TypeOK, Init, U64, DecodeErr
  <1>4. ASSUME NEW a \in Addr PROVE Recorded(allocs, pos, store, a)
    BY <1>2 DEF Recorded, Seen, Init
  <1>5. Supplied(allocs, pos, supply)
    <2> SUFFICES ASSUME NEW g, IsSum(g, Amounts(allocs, DOMAIN allocs), DOMAIN allocs)
                 PROVE  g[1 .. 0] = 0
      BY DEF Supplied, Init
    <2>1. 1 .. 0 = {} /\ 1 .. 0 \in SUBSET DOMAIN allocs
      OBVIOUS
    <2> QED
      BY <2>1, SumAt
  <1>6. Backed(store, supply)
    <2> SUFFICES ASSUME NEW g, IsSum(g, Funds(store), Addr) PROVE g[Addr] = 0
      BY DEF Backed, Init
    <2>1. \A a \in Addr : Funds(store)[a] = 0
      BY <1>2 DEF Funds, GetBalance, ZeroIfNotFound
    <2> QED
      BY <2>1, AddrAssumption, SumZero
  <1> QED
    BY <1>3, <1>4, <1>5, <1>6 DEF IInv, Init

(* One turn of the loop of InitializeState.                                *)
LEMMA AddKeeps == ASSUME IInv, AddAllocation PROVE IInv'
  <1> DEFINE alloc == allocs[pos + 1]
             a == alloc.Address
             k == alloc.Balance
             v == Wrap(GetBalance(store, a) + k)
  <1>1. /\ allocs \in Seq(Alloc) /\ Len(allocs) \in Nat /\ pos \in Nat
        /\ pos < Len(allocs) /\ StoreOK(store) /\ supply \in U64 /\ supply \in Nat
    BY WordAssumption DEF IInv, Typed, TypeOK, AddAllocation, U64
  <1>2. /\ UNCHANGED <<kind, allocs, outcome>> /\ pos' = pos + 1
        /\ outcome = "running"
        /\ store' = AddBalance(store, a, k)
        /\ supply' = IF kind = "default" THEN supply + k ELSE supply
        /\ ~Rejects(alloc)
    BY DEF AddAllocation
  <1>3. a \in Addr /\ k \in U64 /\ k \in Nat
    <2>1. pos + 1 \in DOMAIN allocs
      BY <1>1, AllocFacts
    <2>2. alloc.Address \in Addr \cup {Undecodable} /\ k \in U64 /\ k \in Nat
      BY <1>1, <2>1, AllocFacts
    <2>3. a # Undecodable
      BY <1>2, <2>1, AllocationsAssumption DEF Rejects, DecodeErr, IInv, Typed
    <2> QED
      BY <2>2, <2>3
  <1> HIDE DEF alloc
  <1>4. v \in U64
    <2>1. GetBalance(store, a) \in U64
      BY <1>1, <1>3, FundsType
    <2>2. GetBalance(store, a) + k \in Int
      BY <1>3, <2>1, WordAssumption DEF U64
    <2> QED
      BY <2>2, WrapInU64
  <1> HIDE DEF a, k
  <1>5. Puts(store, store', BalanceKey(a), v)
    BY <1>1, <1>2, <1>3, KeysInKey DEF Puts, StoreOK, AddBalance, SetBalance
  <1> HIDE DEF v
  <1>6. StoreOK(store')
    BY <1>1, <1>3, <1>4, <1>5, PutsBalanceOK
  <1>7. /\ store'[BalanceKey(a)] = v
        /\ \A c \in Addr : c # a => store'[BalanceKey(c)] = store[BalanceKey(c)]
    BY <1>5, KeysInKey, KeysInjective DEF Puts
  <1>8. \A c \in Addr : Recorded(allocs, pos, store, c)
    BY DEF IInv
  <1>9. allocs[pos + 1].Address = a /\ allocs[pos + 1].Balance = k
    BY DEF alloc, a, k
  <1>10. ASSUME NEW c \in Addr PROVE Recorded(allocs, pos + 1, store', c)
    <2>1. CASE c = a
      BY <1>1, <1>3, <1>7, <1>8, <1>9, <2>1, RecordGrows DEF v
    <2>2. CASE c # a
      BY <1>1, <1>7, <1>8, <1>9, <1>10, <2>2, RecordKept
    <2> QED
      BY <2>1, <2>2
  <1>11. ASSUME kind = "default"
         PROVE  /\ Supplied(allocs, pos + 1, supply + k)
                /\ Backed(store', supply + k)
                /\ supply + k \in U64
    <2>1. Supplied(allocs, pos, supply) /\ Backed(store, supply)
      BY <1>11 DEF IInv
    <2>2. Supplied(allocs, pos + 1, supply + k)
      BY <1>1, <1>9, <2>1, SupplyGrows
    <2>3. supply + k < Word
      BY <1>1, <1>2, <1>3, <1>11, WordAssumption DEF Rejects, SupplyErr, k
    <2>4. GetBalance(store', a) = v
      BY <1>4, <1>7, NotFoundAssumption DEF GetBalance, ZeroIfNotFound, U64
    <2>5. \A c \in Addr : c # a => GetBalance(store', c) = GetBalance(store, c)
      BY <1>7 DEF GetBalance
    <2>6. Backed(store', supply + k)
      BY <1>1, <1>3, <1>6, <2>1, <2>3, <2>4, <2>5, BackingGrows DEF v
    <2> QED
      BY <1>1, <1>3, <2>2, <2>3, <2>6, WordAssumption DEF U64
  <1>12. Typed'
    BY <1>1, <1>2, <1>6, <1>11 DEF IInv, Typed, TypeOK
  <1> QED
    BY <1>2, <1>10, <1>11, <1>12 DEF IInv

(* The error that ends the loop has one of the three reasons.              *)
LEMMA AbortKeeps == ASSUME IInv, Abort PROVE IInv'
  <1>1. /\ allocs \in Seq(Alloc) /\ Len(allocs) \in Nat /\ pos \in Nat
        /\ pos < Len(allocs) /\ supply \in Nat
    BY WordAssumption DEF IInv, Typed, TypeOK, Abort, U64
  <1>2. /\ UNCHANGED <<kind, allocs, pos, supply, store>> /\ outcome' = "failed"
        /\ Rejects(allocs[pos + 1])
    BY DEF Abort
  <1> DEFINE alloc == allocs[pos + 1]
             a == alloc.Address
  <1>3. pos + 1 \in DOMAIN allocs /\ alloc.Balance \in Nat /\ a \in Addr \cup {Undecodable}
    BY <1>1, AllocFacts
  <1>4. ASSUME DecodeErr(alloc) PROVE Explained(allocs, pos, store)
    BY <1>4 DEF Explained
  <1>5. ASSUME kind = "default", SupplyErr(alloc)
        PROVE  Explained(allocs, pos, store)
    <2> DEFINE D == DOMAIN allocs
    <2> SUFFICES ASSUME NEW g, IsSum(g, Amounts(allocs, D), D) PROVE g[D] >= Word
      BY DEF Explained
    <2>1. Supplied(allocs, pos, supply)
      BY <1>5 DEF IInv
    <2>2. Supplied(allocs, pos + 1, supply + alloc.Balance)
      BY <1>1, <2>1, SupplyGrows
    <2>3. supply + alloc.Balance >= Word
      BY <1>5 DEF SupplyErr
    <2>4. pos + 1 \in Nat /\ pos + 1 <= Len(allocs)
      BY <1>1
    <2>5. g[D] \in Nat /\ supply + alloc.Balance <= g[D]
      BY <1>1, <2>2, <2>4, SupplyBound
    <2> QED
      BY <1>1, <1>3, <2>3, <2>5, WordAssumption
  <1>6. ASSUME ~DecodeErr(alloc), AddBalanceErr(store, a)
        PROVE  Explained(allocs, pos, store)
    <2>1. a \in Addr
      BY <1>3, <1>6 DEF DecodeErr
    <2>2. store[BalanceKey(a)] = 0
      BY <1>6 DEF AddBalanceErr, GetBalanceErr, UnpackRequiredErr
    <2>3. PICK g : IsSum(g, Amounts(allocs, Entries(allocs, a)), Entries(allocs, a))
      BY <1>1, EntriesFacts, SumExists
    <2>4. Recorded(allocs, pos, store, a)
      BY <2>1 DEF IInv
    <2>5. Seen(allocs, a, pos) = {} => store[BalanceKey(a)] = NotFound
      BY <2>3, <2>4 DEF Recorded
    <2>6. PICK i \in 1 .. pos : allocs[i].Address = a
      BY <2>2, <2>5, NotFoundAssumption DEF Seen
    <2> QED
      BY <2>2, <2>6 DEF Explained
  <1>7. Explained(allocs, pos, store)
    BY <1>2, <1>4, <1>5, <1>6 DEF Rejects
  <1>8. Typed'
    BY <1>2 DEF IInv, Typed, TypeOK
  <1> QED
    BY <1>2, <1>7, <1>8 DEF IInv

(* Every step keeps the invariant.                                         *)
LEMMA NextIInv == IInv /\ [Next]_vars => IInv'
  <1> SUFFICES ASSUME IInv, [Next]_vars PROVE IInv'
    OBVIOUS
  <1>1. CASE Return
    <2>1. Typed'
      BY <1>1 DEF IInv, Typed, TypeOK, Return
    <2> QED
      BY <1>1, <2>1 DEF IInv, Return
  <1>2. CASE UNCHANGED vars
    <2>1. Typed'
      BY <1>2 DEF IInv, Typed, TypeOK, vars
    <2> QED
      BY <1>2, <2>1 DEF IInv, vars
  <1> QED
    BY <1>1, <1>2, AddKeeps, AbortKeeps DEF Next

(* The invariant holds throughout, for lists of any length.                *)
LEMMA Invariance == Spec => []IInv
  BY InitIInv, NextIInv, PTL DEF Spec

(* Both implementations store only records that decode, and the supply of  *)
(* DefaultGenesis stays a uint64.                                          *)
THEOREM TypeSafe == Spec => []TypeOK
  <1>1. IInv => TypeOK
    BY DEF IInv, Typed
  <1> QED
    BY <1>1, Invariance, PTL

(* A genesis that loads has given every account the uint64 sum of its      *)
(* entries (AddBalance in the loop of InitializeState), for lists of any   *)
(* length that name accounts in any order and any number of times.         *)
THEOREM AllocationsSafe == Spec => []AllocationsAddUp
  <1>1. ASSUME IInv, outcome = "ok", NEW a \in Addr
        PROVE  store[BalanceKey(a)] =
                  IF \E i \in DOMAIN allocs : allocs[i].Address = a
                  THEN Wrap(Owed(a)) ELSE NotFound
    <2> DEFINE E == Entries(allocs, a)
    <2>1. allocs \in Seq(Alloc) /\ pos = Len(allocs) /\ Recorded(allocs, pos, store, a)
      BY <1>1 DEF IInv, Typed
    <2>2. IsFiniteSet(E) /\ Seen(allocs, a, pos) = E
      BY <2>1, EntriesFacts
    <2>3. PICK g : IsSum(g, Amounts(allocs, E), E) /\ Given(allocs, E) = g[E]
      BY <2>2, AmountsSum
    <2>4. Owed(a) = Given(allocs, E)
      BY Zenon DEF Owed, Entries, Given
    <2>5. store[BalanceKey(a)] = IF E = {} THEN NotFound ELSE Wrap(g[E])
      BY <2>1, <2>2, <2>3 DEF Recorded
    <2>6. E = {} <=> ~ \E i \in DOMAIN allocs : allocs[i].Address = a
      BY DEF Entries
    <2> HIDE DEF E
    <2> QED
      BY <2>3, <2>4, <2>5, <2>6
  <1>2. IInv => AllocationsAddUp
    BY <1>1 DEF AllocationsAddUp
  <1> QED
    BY <1>2, Invariance, PTL

(* With DefaultGenesis no balance wraps: safemath.Add on the supply guards *)
(* the unchecked addition in AddBalance, for every number of accounts.     *)
THEOREM SupplySafe == Spec => []SupplyIsExact
  <1>1. ASSUME IInv, kind = "default" PROVE Circulating(store) = supply
    <2>1. Backed(store, supply)
      BY <1>1 DEF IInv
    <2>2. PICK g : IsSum(g, Funds(store), Addr) /\ Circulating(store) = g[Addr]
      BY FundsSum
    <2>3. supply = g[Addr]
      BY <2>1, <2>2 DEF Backed
    <2> QED
      BY <2>2, <2>3
  <1>2. IInv => SupplyIsExact
    BY <1>1, Zenon DEF SupplyIsExact, Circulating
  <1> QED
    BY <1>2, Invariance, PTL

(* Loading fails for the three reasons that FailureExplained lists and for *)
(* no other, whatever the list.                                            *)
THEOREM FailureSafe == Spec => []FailureExplained
  <1>1. ASSUME IInv, outcome = "failed"
        PROVE  LET alloc == allocs[pos + 1] IN
               \/ DecodeErr(alloc)
               \/ Given(allocs, DOMAIN allocs) >= Word
               \/ /\ \E i \in 1 .. pos : allocs[i].Address = alloc.Address
                  /\ store[BalanceKey(alloc.Address)] = 0
    <2> DEFINE D == DOMAIN allocs
    <2>1. Explained(allocs, pos, store) /\ allocs \in Seq(Alloc)
      BY <1>1 DEF IInv, Typed
    <2>2. IsFiniteSet(D)
      BY <2>1, AllocFacts
    <2>3. PICK g : IsSum(g, Amounts(allocs, D), D) /\ Given(allocs, D) = g[D]
      BY <2>2, AmountsSum
    <2>4. \/ DecodeErr(allocs[pos + 1])
          \/ g[D] >= Word
          \/ /\ \E i \in 1 .. pos : allocs[i].Address = allocs[pos + 1].Address
             /\ store[BalanceKey(allocs[pos + 1].Address)] = 0
      BY <2>1, <2>3 DEF Explained
    <2> QED
      BY <2>3, <2>4
  <1>2. IInv => FailureExplained
    BY <1>1, Zenon DEF FailureExplained, Given
  <1> QED
    BY <1>2, Invariance, PTL
=============================================================================
