----------------------------- MODULE LoadIssuer -----------------------------
(***************************************************************************)
(* The load issuers (load/issuer.go) under hypersdk's short-burst          *)
(* orchestrator (load/short_burst_orchestrator.go): each issuer has a      *)
(* goroutine that generates and issues TxsPerIssuer transactions and one   *)
(* that listens for their fate, and Execute waits for both kinds.          *)
(*                                                                         *)
(* The generated transactions carry no action, so a transaction's ID is    *)
(* settled by its signer and by its expiry, which is rounded to a second.  *)
(***************************************************************************)
EXTENDS Integers, FiniteSets

CONSTANTS
    Issuers,        \* the issuers, each with an account of its own
    TxsPerIssuer,   \* what the orchestrator asks of each
    Funds,          \* the balance NewIssuer is given
    MaxFee,         \* the fee that a transaction offers
    MaxSecond,      \* bound on the clock
    MaxBursts       \* bound on the bursts run with the same issuers

ASSUME LoadAssumption ==
    /\ IsFiniteSet(Issuers)
    /\ {TxsPerIssuer, MaxBursts} \subseteq Nat \ {0}
    /\ {Funds, MaxFee, MaxSecond} \subseteq Nat

VARIABLES
    second,       \* the wall clock
    currBalance,  \* Issuer.currBalance
    closed,       \* the issuer's websocket client has closed
    sender,       \* the issuing goroutine: pc, transactions issued, transaction in hand
    listening,    \* the issuers whose Listen has not returned
    observerCtx,  \* the context of the listeners is live
    execute,      \* the orchestrator's Execute: where it is and what it returns
    outstanding,  \* PrometheusTracker.outstandingTxs
    burst         \* how many bursts have been started

vars == <<second, currBalance, closed, sender, listening, observerCtx, execute,
          outstanding, burst>>

NoTx == <<>>

Idle == [pc |-> "generate", issued |-> 0, tx |-> NoTx]

Ended(i) == sender[i].pc \in {"done", "failed"}

-----------------------------------------------------------------------------
(* The issuing goroutine.                                                  *)

(* GenerateTransaction: without an action, ed25519 signs the same bytes    *)
(* for every transaction of a second.                                      *)
TxID(i) == <<i, second>>

(* Mutant: the fee is not taken from the balance.                          *)
GenerateTxFree(i) ==
    /\ sender[i].pc = "generate"
    /\ MaxFee <= currBalance[i]
    /\ sender' = [sender EXCEPT ![i] = [pc |-> "issue", issued |-> @.issued, tx |-> TxID(i)]]
    /\ UNCHANGED <<second, currBalance, closed, listening, observerCtx, execute, outstanding, burst>>

GenerateTx(i) ==
    /\ sender[i].pc = "generate"
    /\ MaxFee <= currBalance[i]
    /\ currBalance' = [currBalance EXCEPT ![i] = @ - MaxFee]
    /\ sender' = [sender EXCEPT ![i] = [pc |-> "issue", issued |-> @.issued, tx |-> TxID(i)]]
    /\ UNCHANGED <<second, closed, listening, observerCtx, execute, outstanding, burst>>

(* The goroutine ends with a deferred Stop, a placeholder that leaves the  *)
(* issuers as they are: nothing will keep one from issuing again.          *)
Stop == UNCHANGED <<currBalance, closed>>

(* ErrTxGeneratorFundsExhausted.                                           *)
GenerateTxErr(i) ==
    /\ sender[i].pc = "generate"
    /\ MaxFee > currBalance[i]
    /\ sender' = [sender EXCEPT ![i].pc = "failed"]
    /\ Stop
    /\ UNCHANGED <<second, listening, observerCtx, execute, outstanding, burst>>

(* RegisterTx goes through and the tracker is told, with the ID for a key. *)
(* After the last one the goroutine ends.                                  *)
IssueTx(i) ==
    LET n == sender[i].issued + 1
        pc == IF n = TxsPerIssuer THEN "done" ELSE "generate"
    IN  /\ sender[i].pc = "issue"
        /\ ~closed[i]
        /\ outstanding' = outstanding \cup {sender[i].tx}
        /\ sender' = [sender EXCEPT ![i] = [pc |-> pc, issued |-> n, tx |-> NoTx]]
        /\ Stop
        /\ UNCHANGED <<second, listening, observerCtx, execute, burst>>

IssueTxErr(i) ==
    /\ sender[i].pc = "issue"
    /\ closed[i]
    /\ sender' = [sender EXCEPT ![i].pc = "failed"]
    /\ Stop
    /\ UNCHANGED <<second, listening, observerCtx, execute, outstanding, burst>>

(* Mutant: a Listen that waits until nothing is outstanding, which nobody  *)
(* observes.                                                               *)
ListenToEnd(i) ==
    /\ i \in listening
    /\ outstanding = {}
    /\ listening' = listening \ {i}
    /\ UNCHANGED <<second, currBalance, closed, sender, observerCtx, execute, outstanding, burst>>

(* The placeholder: Listen returns when its context is done, with the      *)
(* context's error.                                                        *)
Listen(i) ==
    /\ i \in listening
    /\ ~observerCtx
    /\ listening' = listening \ {i}
    /\ UNCHANGED <<second, currBalance, closed, sender, observerCtx, execute, outstanding, burst>>

-----------------------------------------------------------------------------
(* Execute.                                                                *)

(* issuerGroup.Wait: an error is returned, which cancels the observers;    *)
(* otherwise the timer starts.                                             *)
IssuersDone ==
    /\ execute = "issuing"
    /\ \A i \in Issuers : Ended(i)
    /\ IF \E i \in Issuers : sender[i].pc = "failed"
       THEN execute' = "error" /\ observerCtx' = FALSE
       ELSE execute' = "observing" /\ UNCHANGED observerCtx
    /\ UNCHANGED <<second, currBalance, closed, sender, listening, outstanding, burst>>

(* The timeout of Execute cancels the observers.                           *)
Timeout ==
    /\ execute = "observing"
    /\ observerCtx' = FALSE
    /\ UNCHANGED <<second, currBalance, closed, sender, listening, execute, outstanding, burst>>

(* observerGroup.Wait: every Listen has returned ctx.Err().                *)
ObserversDone ==
    /\ execute = "observing"
    /\ listening = {}
    /\ execute' = "error"
    /\ UNCHANGED <<second, currBalance, closed, sender, listening, observerCtx, outstanding, burst>>

(* Another orchestrator is run with the same issuers.                      *)
NextBurst ==
    /\ execute = "error"
    /\ listening = {}
    /\ burst < MaxBursts
    /\ burst' = burst + 1
    /\ execute' = "issuing"
    /\ listening' = Issuers
    /\ observerCtx' = TRUE
    /\ sender' = [i \in Issuers |-> Idle]
    /\ UNCHANGED <<second, currBalance, closed, outstanding>>

-----------------------------------------------------------------------------
(* The environment: time passes, a connection is lost, the context that    *)
(* Execute was given ends.  The issuers' methods ignore that context; only *)
(* the listeners notice.                                                   *)

Tick ==
    /\ second < MaxSecond
    /\ second' = second + 1
    /\ UNCHANGED <<currBalance, closed, sender, listening, observerCtx, execute, outstanding, burst>>

Cancel ==
    /\ execute \in {"issuing", "observing"}
    /\ observerCtx' = FALSE
    /\ UNCHANGED <<second, currBalance, closed, sender, listening, execute, outstanding, burst>>

ConnectionLost(i) ==
    /\ ~closed[i]
    /\ closed' = [closed EXCEPT ![i] = TRUE]
    /\ UNCHANGED <<second, currBalance, sender, listening, observerCtx, execute, outstanding, burst>>

Init ==
    /\ second = 0
    /\ currBalance = [i \in Issuers |-> Funds]
    /\ closed = [i \in Issuers |-> FALSE]
    /\ sender = [i \in Issuers |-> Idle]
    /\ listening = Issuers
    /\ observerCtx = TRUE
    /\ execute = "issuing"
    /\ outstanding = {}
    /\ burst = 1

Goroutine(i) ==
    GenerateTx(i) \/ GenerateTxErr(i) \/ IssueTx(i) \/ IssueTxErr(i) \/ Listen(i)

Next ==
    \/ \E i \in Issuers : Goroutine(i) \/ ConnectionLost(i)
    \/ IssuersDone \/ Timeout \/ ObserversDone \/ NextBurst \/ Tick \/ Cancel

(* Goroutines are scheduled, and the timer of Execute fires.               *)
Fairness ==
    /\ \A i \in Issuers : WF_vars(Goroutine(i))
    /\ WF_vars(IssuersDone) /\ WF_vars(Timeout) /\ WF_vars(ObserversDone)

Spec == Init /\ [][Next]_vars /\ Fairness

-----------------------------------------------------------------------------
(* Properties.                                                             *)

InFlight(i) == {tx \in outstanding : tx[1] = i}

(* An account can pay for everything in flight: the fees offered by the    *)
(* distinct transactions an issuer has sent, in all bursts and after every *)
(* failure, stay within the balance it was given, next to what it still    *)
(* believes to own.                                                        *)
FeesCovered ==
    \A i \in Issuers : Cardinality(InFlight(i)) * MaxFee + currBalance[i] <= Funds

(* A burst ends, whichever issuer fails: Execute returns and no listener   *)
(* is left behind.                                                         *)
BurstEnds == []<>(execute = "error" /\ listening = {})

=============================================================================
