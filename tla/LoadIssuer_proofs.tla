------------------------- MODULE LoadIssuer_proofs -------------------------
(***************************************************************************)
(* The load issuers never offer more fees than their accounts hold, for    *)
(* every number of issuers, transactions, bursts and seconds.              *)
(***************************************************************************)
EXTENDS LoadIssuer, FiniteSetTheorems, TLAPS

OwnedTx == Issuers \X Nat

SenderPC == {"generate", "issue", "done", "failed"}

TypeInv ==
    /\ currBalance \in [Issuers -> Nat]
    /\ sender \in [Issuers -> [pc : SenderPC, issued : Nat,
                               tx : {NoTx} \cup OwnedTx]]
    /\ outstanding \subseteq OwnedTx
    /\ IsFiniteSet(outstanding)
    /\ second \in Nat

(* A transaction in hand is the issuer's own.                              *)
OwnTx ==
    \A i \in Issuers : sender[i].pc = "issue" =>
        sender[i].tx \in OwnedTx /\ sender[i].tx[1] = i

(* The fee of the transaction that has been generated and not issued yet.  *)
InHand(i) == IF sender[i].pc = "issue" THEN MaxFee ELSE 0

(* What is in flight, what is in hand and what is left never exceed what   *)
(* the issuer was given.                                                   *)
Budget ==
    \A i \in Issuers :
        Cardinality(InFlight(i)) * MaxFee + InHand(i) + currBalance[i] <= Funds

IInv == TypeInv /\ OwnTx /\ Budget

(* The transactions of one issuer among finitely many.                     *)
LEMMA InFlightFinite ==
    ASSUME TypeInv, NEW i
    PROVE  IsFiniteSet(InFlight(i)) /\ Cardinality(InFlight(i)) \in Nat
  <1>1. InFlight(i) \in SUBSET outstanding
    BY DEF InFlight
  <1> QED
    BY <1>1, FS_Subset, FS_CardinalityType DEF TypeInv

(* At the start nothing is in flight and every issuer has all its funds.   *)
LEMMA InitIInv == Init => IInv
  <1> SUFFICES ASSUME Init PROVE IInv
    OBVIOUS
  <1>1. IsFiniteSet({}) /\ Cardinality({}) = 0
    BY FS_EmptySet
  <1>2. {Funds, MaxFee} \subseteq Nat
    BY LoadAssumption
  <1>3. TypeInv
    BY <1>1, <1>2 DEF Init, TypeInv, Idle, SenderPC
  <1>4. OwnTx
    BY DEF Init, OwnTx, Idle
  <1>5. Budget
    <2> SUFFICES ASSUME NEW i \in Issuers
                 PROVE  Cardinality(InFlight(i)) * MaxFee + InHand(i) + currBalance[i] <= Funds
      BY DEF Budget
    <2>1. InFlight(i) = {} /\ InHand(i) = 0 /\ currBalance[i] = Funds
      BY DEF Init, InFlight, InHand, Idle
    <2> QED
      BY <1>1, <1>2, <2>1
  <1> QED
    BY <1>3, <1>4, <1>5 DEF IInv

(* Generating a transaction moves its fee from the balance to the hand.    *)
LEMMA GenerateKeeps == ASSUME IInv, NEW i \in Issuers, GenerateTx(i) PROVE IInv'
  <1>0. MaxFee \in Nat /\ Funds \in Nat
    BY LoadAssumption
  <1> DEFINE tx == TxID(i)
  <1>1. tx \in OwnedTx /\ tx[1] = i
    BY DEF TxID, IInv, TypeInv, OwnedTx
  <1> DEFINE new == [pc |-> "issue", issued |-> sender[i].issued, tx |-> tx]
  <1>2. sender' = [j \in Issuers |-> IF j = i THEN new ELSE sender[j]]
    BY DEF GenerateTx, IInv, TypeInv
  <1> HIDE DEF tx
  <1>3. new \in [pc : SenderPC, issued : Nat, tx : {NoTx} \cup OwnedTx] /\ new.tx = tx
    BY <1>1 DEF IInv, TypeInv, SenderPC
  <1> HIDE DEF new
  <1>4. sender' \in [Issuers -> [pc : SenderPC, issued : Nat,
                                 tx : {NoTx} \cup OwnedTx]]
    BY <1>2, <1>3 DEF IInv, TypeInv
  <1>5. TypeInv'
    BY <1>0, <1>4 DEF IInv, TypeInv, GenerateTx
  <1>6. OwnTx'
    <2>1. sender'[i].tx = tx /\ \A j \in Issuers : j # i => sender'[j] = sender[j]
      BY <1>2, <1>3
    <2> QED
      BY <1>1, <2>1 DEF IInv, OwnTx
  <1>7. Budget'
    <2> SUFFICES ASSUME NEW j \in Issuers
                 PROVE  (Cardinality(InFlight(j)) * MaxFee + InHand(j)
                            + currBalance[j] <= Funds)'
      BY DEF Budget
    <2>1. InFlight(j)' = InFlight(j)
      BY DEF GenerateTx, InFlight
    <2>2. InHand(j)' + currBalance'[j] = InHand(j) + currBalance[j]
      BY <1>0 DEF IInv, TypeInv, GenerateTx, InHand
    <2>3. /\ InHand(j) \in Nat /\ currBalance[j] \in Nat
          /\ InHand(j)' \in Nat /\ currBalance'[j] \in Nat
      BY <1>0, <1>5 DEF IInv, TypeInv, InHand
    <2> DEFINE fees == Cardinality(InFlight(j)) * MaxFee
    <2>4. fees \in Nat
      BY <1>0, InFlightFinite DEF IInv
    <2>5. fees + InHand(j) + currBalance[j] <= Funds
      BY DEF IInv, Budget
    <2> HIDE DEF fees
    <2>6. fees + InHand(j)' + currBalance'[j] <= Funds
      BY <1>0, <2>2, <2>3, <2>4, <2>5
    <2> QED
      BY <2>1, <2>6 DEF fees
  <1> QED
    BY <1>5, <1>6, <1>7 DEF IInv

(* Issuing one moves its fee from the hand into flight, unless the same    *)
(* transaction is in flight already.                                       *)
LEMMA IssueKeeps == ASSUME IInv, NEW i \in Issuers, IssueTx(i) PROVE IInv'
  <1> DEFINE tx == sender[i].tx
  <1>0. MaxFee \in Nat /\ Funds \in Nat
    BY LoadAssumption
  <1>1. tx \in OwnedTx /\ tx[1] = i /\ sender[i].pc = "issue"
    BY DEF IInv, OwnTx, IssueTx
  <1>2. outstanding' = outstanding \cup {tx} /\ currBalance' = currBalance
    BY DEF IssueTx, Stop
  <1>3. /\ sender' \in [Issuers -> [pc : SenderPC, issued : Nat,
                                    tx : {NoTx} \cup OwnedTx]]
        /\ sender'[i].pc # "issue"
        /\ \A j \in Issuers : j # i => sender'[j] = sender[j]
    BY DEF IInv, TypeInv, IssueTx, SenderPC
  <1>4. TypeInv'
    <2>1. IsFiniteSet(outstanding')
      BY <1>2, FS_AddElement DEF IInv, TypeInv
    <2> QED
      BY <1>1, <1>2, <1>3, <2>1 DEF IInv, TypeInv, IssueTx
  <1>5. OwnTx'
    BY <1>3 DEF IInv, OwnTx
  <1> HIDE DEF tx
  <1>6. Budget'
    <2> SUFFICES ASSUME NEW j \in Issuers
                 PROVE  (Cardinality(InFlight(j)) * MaxFee + InHand(j)
                            + currBalance[j] <= Funds)'
      BY DEF Budget
    <2> DEFINE n == Cardinality(InFlight(j))
               m == Cardinality(InFlight(j)')
    <2>1. n \in Nat /\ IsFiniteSet(InFlight(j))
      BY InFlightFinite DEF IInv
    <2>2. currBalance[j] \in Nat
      BY DEF IInv, TypeInv
    <2>3. n * MaxFee + InHand(j) + currBalance[j] <= Funds
      BY DEF IInv, Budget
    <2>4. CASE j # i
      <3>1. InFlight(j)' = InFlight(j)
        BY <1>1, <1>2, <2>4 DEF InFlight
      <3>2. InHand(j)' = InHand(j)
        BY <1>3, <2>4 DEF InHand
      <3> QED
        BY <1>2, <2>3, <3>1, <3>2
    <2>5. CASE j = i
      <3>1. InFlight(j)' = InFlight(j) \cup {tx}
        BY <1>1, <1>2, <2>5 DEF InFlight
      <3>2. InHand(j)' = 0 /\ InHand(j) = MaxFee
        BY <1>1, <1>3, <2>5 DEF InHand
      <3>3. m = n \/ m = n + 1
        BY <2>1, <3>1, FS_AddElement
      <3>4. (n + 1) * MaxFee = n * MaxFee + MaxFee /\ n * MaxFee \in Nat
        BY <1>0, <2>1
      <3>5. m * MaxFee <= n * MaxFee + MaxFee /\ m * MaxFee \in Nat
        BY <1>0, <2>1, <3>3, <3>4
      <3> DEFINE x == m * MaxFee
                 y == n * MaxFee
      <3> HIDE DEF m, n, x, y
      <3>6. /\ x \in Nat /\ y \in Nat /\ x <= y + MaxFee
            /\ y + MaxFee + currBalance[j] <= Funds
        BY <2>3, <3>2, <3>4, <3>5 DEF x, y
      <3>7. x + 0 + currBalance[j] <= Funds
        BY <1>0, <2>2, <3>6
      <3> QED
        BY <1>2, <3>2, <3>7 DEF x, m
    <2> QED
      BY <2>4, <2>5
  <1> QED
    BY <1>4, <1>5, <1>6 DEF IInv

(* Every other step leaves transactions in hand, in flight and balances    *)
(* alone, or drops what is in hand.                                        *)
LEMMA OtherKeeps ==
    ASSUME IInv, outstanding' = outstanding, currBalance' = currBalance, second' \in Nat,
           sender' \in [Issuers -> [pc : SenderPC, issued : Nat,
                                    tx : {NoTx} \cup OwnedTx]],
           \A i \in Issuers : sender'[i].pc = "issue" => sender'[i] = sender[i]
    PROVE  IInv'
  <1>0. MaxFee \in Nat /\ Funds \in Nat
    BY LoadAssumption
  <1>1. TypeInv' /\ OwnTx'
    BY DEF IInv, TypeInv, OwnTx
  <1>2. Budget'
    <2> SUFFICES ASSUME NEW j \in Issuers
                 PROVE  (Cardinality(InFlight(j)) * MaxFee + InHand(j)
                            + currBalance[j] <= Funds)'
      BY DEF Budget
    <2> DEFINE fees == Cardinality(InFlight(j)) * MaxFee
    <2>1. InFlight(j)' = InFlight(j)
      BY DEF InFlight
    <2>2. InHand(j)' <= InHand(j) /\ InHand(j)' \in Nat /\ InHand(j) \in Nat
      BY <1>0 DEF InHand
    <2>3. fees \in Nat /\ currBalance[j] \in Nat
      BY <1>0, InFlightFinite DEF IInv, TypeInv
    <2>4. fees + InHand(j) + currBalance[j] <= Funds
      BY DEF IInv, Budget
    <2> HIDE DEF fees
    <2>5. fees + InHand(j)' + currBalance'[j] <= Funds
      BY <1>0, <2>2, <2>3, <2>4
    <2> QED
      BY <2>1, <2>5 DEF fees
  <1> QED
    BY <1>1, <1>2 DEF IInv

(* Every step of the issuers, the orchestrator and the environment.        *)
LEMMA NextIInv == IInv /\ [Next]_vars => IInv'
  <1> SUFFICES ASSUME IInv, [Next]_vars PROVE IInv'
    OBVIOUS
  <1>1. ASSUME NEW i \in Issuers, GenerateTxErr(i) \/ IssueTxErr(i) PROVE IInv'
    BY <1>1, OtherKeeps DEF GenerateTxErr, IssueTxErr, Stop, IInv, TypeInv, SenderPC
  <1>2. ASSUME NEW i \in Issuers, Listen(i) \/ ConnectionLost(i) PROVE IInv'
    BY <1>2, OtherKeeps DEF Listen, ConnectionLost, IInv, TypeInv
  <1>3. CASE IssuersDone \/ Timeout \/ ObserversDone \/ Cancel
    BY <1>3, OtherKeeps DEF IssuersDone, Timeout, ObserversDone, Cancel, IInv, TypeInv
  <1>4. CASE NextBurst
    BY <1>4, OtherKeeps DEF NextBurst, Idle, IInv, TypeInv, SenderPC
  <1>5. CASE Tick
    BY <1>5, OtherKeeps DEF Tick, IInv, TypeInv
  <1>6. CASE UNCHANGED vars
    BY <1>6, OtherKeeps DEF vars, IInv, TypeInv
  <1> QED
    BY <1>1, <1>2, <1>3, <1>4, <1>5, <1>6, GenerateKeeps, IssueKeeps DEF Next, Goroutine

(* An account can pay for everything its issuer has in flight (GenerateTx  *)
(* and IssueTx of load/issuer.go), whatever fails and however many bursts  *)
(* are run.                                                                *)
THEOREM FeesSafe == Spec => []FeesCovered
  <1>1. IInv => FeesCovered
    <2> SUFFICES ASSUME IInv, NEW i \in Issuers
                 PROVE  Cardinality(InFlight(i)) * MaxFee + currBalance[i] <= Funds
      BY DEF FeesCovered
    <2> DEFINE fees == Cardinality(InFlight(i)) * MaxFee
    <2>1. MaxFee \in Nat /\ Funds \in Nat
      BY LoadAssumption
    <2>2. fees \in Nat /\ currBalance[i] \in Nat /\ InHand(i) \in Nat
      BY <2>1, InFlightFinite DEF IInv, TypeInv, InHand
    <2>3. fees + InHand(i) + currBalance[i] <= Funds
      BY DEF IInv, Budget
    <2> HIDE DEF fees
    <2>4. fees + currBalance[i] <= Funds
      BY <2>1, <2>2, <2>3
    <2> QED
      BY <2>4 DEF fees
  <1> QED
    BY <1>1, InitIInv, NextIInv, PTL DEF Spec
=============================================================================
