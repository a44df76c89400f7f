------------------------------- MODULE TxSender ------------------------------
(***************************************************************************)
(* send_transaction_wrapper and send_transaction of the Rust client        *)
(* (rust-client/src/rpc.rs).  A signed transaction is sent and confirmed   *)
(* up to max_retries times; the first confirmation ends the loop, anything *)
(* else is printed and tried again.  One of two callbacks reports the end. *)
(*                                                                         *)
(* The network and send_and_confirm_transaction_with_spinner are external. *)
(* A request or its answer may be lost, a sent transaction may stay on its *)
(* way for long after the attempt was given up, and lands at most once     *)
(* while its blockhash is valid: the chain refuses a signature it has      *)
(* seen.  A transaction that was simulated or priced is not sent.          *)
(***************************************************************************)
EXTENDS Naturals, FiniteSets

CONSTANT MaxRetries   \* max_retries

ASSUME MaxRetriesAssumption == MaxRetries \in Nat

Attempts == 1..MaxRetries
Actions  == {"simulation", "sentTx", "estimateFee"}   \* tx_action

\* Mutant: every attempt signs the transaction anew, over a new blockhash.
TxOfAttemptAnew(i) == i

\* The signature that attempt i sends: send_transaction is given one signed tx.
TxOfAttempt(i) == 1

Signatures == {TxOfAttempt(i) : i \in Attempts}

VARIABLES
    action,    \* what the client was started to do
    pc,        \* "ready", "confirming", "ok", "failed" or "answered"
    tries,     \* attempts that have ended
    onWay,     \* signatures of which a copy is on the way to the chain
    landed,    \* what became of each signature on the chain
    expired    \* signatures whose blockhash is too old

vars == <<action, pc, tries, onWay, landed, expired>>

Init ==
    /\ action \in Actions
    /\ pc = "ready"
    /\ tries = 0
    /\ onWay = {} /\ expired = {}
    /\ landed = [s \in Signatures |-> "no"]

Current == TxOfAttempt(tries + 1)
chain == <<landed, expired>>

-----------------------------------------------------------------------------
(* The client                                                              *)

\* simulation_transaction, estimate_transaction_fee: nothing is sent, no
\* callback is called.
Answer ==
    /\ action # "sentTx" /\ pc = "ready"
    /\ pc' = "answered"
    /\ UNCHANGED <<action, tries, onWay, chain>>

\* An attempt starts: the transaction passes the node's simulation and is sent.
Send ==
    /\ action = "sentTx" /\ pc = "ready" /\ tries < MaxRetries
    /\ landed[Current] = "no" /\ Current \notin expired
    /\ onWay' = onWay \cup {Current}
    /\ pc' = "confirming"
    /\ UNCHANGED <<action, tries, chain>>

\* Mutant: the loop runs once too often.
SendFailsOnceMore ==
    /\ action = "sentTx" /\ pc = "ready" /\ tries <= MaxRetries
    /\ tries' = tries + 1
    /\ UNCHANGED <<action, pc, onWay, chain>>

\* The attempt fails at once: the node is out of reach, or refuses a transaction
\* it has already processed or whose blockhash has expired.
SendFails ==
    /\ action = "sentTx" /\ pc = "ready" /\ tries < MaxRetries
    /\ tries' = tries + 1
    /\ UNCHANGED <<action, pc, onWay, chain>>

\* send_and_confirm_transaction_with_spinner returns Ok
Confirmed ==
    /\ pc = "confirming" /\ landed[Current] = "ok"
    /\ pc' = "ok"
    /\ UNCHANGED <<action, tries, onWay, chain>>

\* ... or an error: the transaction failed on the chain, its blockhash expired, or
\* the connection broke while it was still to be confirmed.
NotConfirmed ==
    /\ pc = "confirming"
    /\ pc' = "ready"
    /\ tries' = tries + 1
    /\ UNCHANGED <<action, onWay, chain>>

\* Mutant: the last attempt is waited for once more.
GiveUpLate ==
    /\ action = "sentTx" /\ pc = "ready" /\ tries > MaxRetries
    /\ pc' = "failed"
    /\ UNCHANGED <<action, tries, onWay, chain>>

\* The loop ends without a confirmation.
GiveUp ==
    /\ action = "sentTx" /\ pc = "ready" /\ tries = MaxRetries
    /\ pc' = "failed"
    /\ UNCHANGED <<action, tries, onWay, chain>>

-----------------------------------------------------------------------------
(* The network and the chain                                               *)

\* A copy arrives: it takes effect or fails, unless it came before.
Land(s) ==
    /\ s \in onWay \ expired /\ landed[s] = "no"
    /\ \E result \in {"ok", "error"} : landed' = [landed EXCEPT ![s] = result]
    /\ UNCHANGED <<action, pc, tries, onWay, expired>>

Lose(s) ==
    /\ s \in onWay
    /\ onWay' = onWay \ {s}
    /\ UNCHANGED <<action, pc, tries, chain>>

Expire(s) ==
    /\ s \notin expired
    /\ expired' = expired \cup {s}
    /\ UNCHANGED <<action, pc, tries, onWay, landed>>

Client == Answer \/ Send \/ SendFails \/ Confirmed \/ NotConfirmed \/ GiveUp

Next == Client \/ \E s \in Signatures : Land(s) \/ Lose(s) \/ Expire(s)

\* The client runs on: send_and_confirm returns once the blockhash has expired, if
\* not before, and the loop is bounded.
Fairness == WF_vars(Client)

Spec == Init /\ [][Next]_vars /\ Fairness

-----------------------------------------------------------------------------
(* Properties                                                              *)

TypeOK ==
    /\ action \in Actions
    /\ pc \in {"ready", "confirming", "ok", "failed", "answered"}
    /\ tries \in 0..MaxRetries
    /\ onWay \in SUBSET Signatures /\ expired \in SUBSET Signatures
    /\ landed \in [Signatures -> {"no", "ok", "error"}]
    /\ pc = "confirming" => tries < MaxRetries

Effects == {s \in Signatures : landed[s] = "ok"}

Once == INSTANCE SendOnce
          WITH asked   <- action = "sentTx",
               effects <- Cardinality(Effects),
               report  <- IF pc \in {"ok", "failed"} THEN pc ELSE "none"

\* However attempts, losses and late arrivals interleave, the wrapper with its
\* retries does what SendOnce says: the transaction takes effect at most once,
\* and success is only reported of one that did.
SendsOnce == Once!Safety

\* One of the callbacks is called in the end, whatever the network does.
ReportsInTheEnd == Once!Fairness
=============================================================================
