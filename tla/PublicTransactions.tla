--------------------------- MODULE PublicTransactions ---------------------------
(***************************************************************************)
(* Transactions from the wallet's public account: calls of one runtime     *)
(* read a nonce, estimate, send and wait for a receipt, each on its own    *)
(* (transaction/sender.go, sdk/sender.go). ShieldERC20 sends two: the      *)
(* approval of an allowance, when it needs one, and the shield. Nothing    *)
(* reserves a nonce between two calls, and the reply to a sent transaction *)
(* may get lost, after which the JSON-RPC provider sends it again. The     *)
(* node, its mempool and the token contract are external.                  *)
(***************************************************************************)
EXTENDS Integers, FiniteSets, Sequences

CONSTANTS
    Call,      \* calls in flight
    Amount,    \* call -> what it shields, 0 for any other transaction
    Latest,    \* calls that read the latest nonce; the others, the pending one
    Balance,   \* what the account holds of the token
    MaxRetries,\* nonces a call tries after the first (MaxNonceRetries)
    MaxNonce,  \* bound: nonces
    MaxFaults  \* bound: lost and wrong replies, and refused calls of the provider

ASSUME PublicAssumption ==
    /\ Amount \in [Call -> Nat]
    /\ Latest \subseteq Call
    /\ \A c \in Call \ Latest : Amount[c] = 0
    /\ {Balance, MaxRetries, MaxNonce, MaxFaults} \subseteq Nat

VARIABLES
    mined,     \* the account's transactions on chain, by nonce, each with its status
    pool,      \* nonce -> the transaction that waits in the mempool
    balance,   \* of the token, on chain
    allowance, \* of the smart wallet, on chain
    call,      \* call -> where it is
    faults,    \* history: faults of the provider so far
    lost,      \* history: calls with a reply that was lost, or wrong
    gaveUp,    \* history: calls whose wait was cancelled or failed
    overtaken, \* history: calls that went on from a nonce their own transaction had
    replaced   \* history: transactions that another one took the nonce of

vars == <<mined, pool, balance, allowance, call, faults, lost, gaveUp, overtaken, replaced>>

Step == {"approve", "shield", "other"}

\* A transaction: its call, what it does, its nonce, and the height (in mined
\* transactions) at which its gas was estimated.
Tx == [call : Call, step : Step, nonce : 0..MaxNonce, seen : 0..(MaxNonce + 1)]

NoTx == [call |-> "none", step |-> "none", nonce |-> 0, seen |-> 0]

PC == {"start", "allowance", "nonce", "estimate", "send", "wait", "check", "done", "failed"}

Locals == [pc : PC, step : Step, nonce : 0..MaxNonce, attempt : 0..MaxRetries,
           seen : 0..(MaxNonce + 1)]

node == <<mined, pool, balance, allowance>>
history == <<faults, lost, gaveUp, overtaken, replaced>>

At(c, pc) == call[c].pc = pc
Goto(c, pc) == call' = [call EXCEPT ![c].pc = pc]
GotoStep(c, step) == call' = [call EXCEPT ![c].pc = "nonce", ![c].step = step]

SmartWallet(c) == Amount[c] > 0

\* The transaction a call has signed last.
Signed(c) == [call |-> c, step |-> call[c].step, nonce |-> call[c].nonce, seen |-> call[c].seen]

\* Would the transaction of a step of c succeed now?
Executes(c, step) == step = "shield" => Amount[c] <= balance /\ Amount[c] <= allowance

-----------------------------------------------------------------------------
(* The node. *)

\* The pending count: the nonces that are mined or follow them without a gap.
PendingCount ==
    CHOOSE n \in Len(mined)..(MaxNonce + 1) :
        /\ \A k \in Len(mined)..(n - 1) : pool[k] # NoTx
        /\ n <= MaxNonce => pool[n] = NoTx

Mine ==
    /\ Len(mined) <= MaxNonce
    /\ pool[Len(mined)] # NoTx
    /\ LET tx == pool[Len(mined)]
           ok == Executes(tx.call, tx.step)
       IN  /\ mined' = Append(mined, [tx |-> tx, ok |-> ok])
           /\ allowance' = IF tx.step = "approve" THEN Amount[tx.call]
                           ELSE IF tx.step = "shield" /\ ok THEN allowance - Amount[tx.call]
                           ELSE allowance
           /\ balance' = IF tx.step = "shield" /\ ok THEN balance - Amount[tx.call] ELSE balance
           /\ pool' = [pool EXCEPT ![Len(mined)] = NoTx]
    /\ UNCHANGED <<call, history>>

-----------------------------------------------------------------------------
(* ShieldERC20 and the other calls, up to their nonce. *)

BalanceOf(c) ==
    /\ At(c, "start") /\ SmartWallet(c)
    /\ Goto(c, IF balance < Amount[c] THEN "failed" ELSE "allowance")
    /\ UNCHANGED <<node, history>>

Allowance(c) ==
    /\ At(c, "allowance")
    /\ GotoStep(c, IF allowance < Amount[c] THEN "approve" ELSE "shield")
    /\ UNCHANGED <<node, history>>

Begin(c) ==
    /\ At(c, "start") /\ ~SmartWallet(c)
    /\ GotoStep(c, "other")
    /\ UNCHANGED <<node, history>>

\* After the approval the allowance is read again.
CheckAllowance(c) ==
    /\ At(c, "check")
    /\ IF allowance < Amount[c] THEN Goto(c, "failed") ELSE GotoStep(c, "shield")
    /\ UNCHANGED <<node, history>>

-----------------------------------------------------------------------------
(* SignAndSendEIP1559TransactionWithLatestNonce, and SignAndSend... alone. *)

\* The next attempt to send is made with this nonce.
Attempt(c, nonce, attempt) ==
    call' = [call EXCEPT ![c] = [pc |-> "estimate", step |-> @.step, nonce |-> nonce,
                                 attempt |-> attempt, seen |-> @.seen]]

TransactionCount(c) ==
    /\ At(c, "nonce")
    /\ LET nonce == IF c \in Latest THEN Len(mined) ELSE PendingCount
       IN  /\ nonce <= MaxNonce
           /\ Attempt(c, nonce, 0)
    /\ UNCHANGED <<node, history>>

\* Mutant of Refused: the next attempt has the same nonce, and does not count.
RetrySameNonce(c, tooLow) ==
    IF c \in Latest /\ tooLow THEN Goto(c, "estimate") ELSE Goto(c, "failed")

\* Mutant of Refused: the nonce is counted up twice.
SkipNonce(c, tooLow) ==
    IF c \in Latest /\ tooLow /\ call[c].attempt < MaxRetries /\ call[c].nonce + 1 < MaxNonce
    THEN Attempt(c, call[c].nonce + 2, call[c].attempt + 1)
    ELSE Goto(c, "failed")

\* A failed attempt goes on with the next nonce, or ends the call.
Refused(c, tooLow) ==
    IF c \in Latest /\ tooLow /\ call[c].attempt < MaxRetries /\ call[c].nonce < MaxNonce
    THEN Attempt(c, call[c].nonce + 1, call[c].attempt + 1)
    ELSE Goto(c, "failed")

\* Mutant of EstimateGas: a fixed gas limit, which nothing is tried out with.
FixedGasLimit(c) ==
    /\ At(c, "estimate")
    /\ call' = [call EXCEPT ![c].pc = "send", ![c].seen = Len(mined)]
    /\ UNCHANGED <<node, history>>

\* The node tries the transaction out on the latest block.
EstimateGas(c) ==
    /\ At(c, "estimate")
    /\ IF Executes(c, call[c].step)
       THEN call' = [call EXCEPT ![c].pc = "send", ![c].seen = Len(mined)]
       ELSE Refused(c, FALSE)
    /\ UNCHANGED <<node, history>>

\* The node has mined the nonce, for this call's own transaction perhaps.
NonceTooLow(c) ==
    /\ At(c, "send") /\ call[c].nonce < Len(mined)
    /\ Refused(c, TRUE)
    /\ overtaken' = IF mined[call[c].nonce + 1].tx = Signed(c) THEN overtaken \cup {c} ELSE overtaken
    /\ UNCHANGED <<node, faults, lost, gaveUp, replaced>>

\* Mutant of AlreadyPending: any refusal lets the call go on with the next nonce.
NextAfterPending(c) ==
    /\ At(c, "send") /\ call[c].nonce >= Len(mined)
    /\ pool[call[c].nonce] # NoTx
    /\ Refused(c, TRUE)
    /\ UNCHANGED <<node, history>>

\* The nonce is pending: the same transaction is known already, another one is
\* not replaced because this one does not pay enough more.
AlreadyPending(c) ==
    /\ At(c, "send") /\ call[c].nonce >= Len(mined)
    /\ pool[call[c].nonce] # NoTx
    /\ Refused(c, FALSE)
    /\ UNCHANGED <<node, history>>

\* Where a call goes on with the reply to its transaction. It waits for the
\* transaction, ends if the reply names another hash than the signed one, and
\* sends again what it has no reply to.
AfterReply == [hash |-> "wait", wrong |-> "failed", lost |-> "send"]

\* The node takes the transaction, in the place of another one of its nonce if it
\* pays enough more; then the reply comes, or does not.
SendRawTransaction(c, reply) ==
    /\ At(c, "send") /\ call[c].nonce >= Len(mined)
    /\ pool[call[c].nonce] # Signed(c)
    /\ pool' = [pool EXCEPT ![call[c].nonce] = Signed(c)]
    /\ replaced' = replaced \cup ({pool[call[c].nonce]} \ {NoTx})
    /\ Goto(c, AfterReply[reply])
    /\ IF reply = "hash" THEN UNCHANGED <<faults, lost>>
       ELSE faults < MaxFaults /\ faults' = faults + 1 /\ lost' = lost \cup {c}
    /\ UNCHANGED <<mined, balance, allowance, gaveUp, overtaken>>

-----------------------------------------------------------------------------

\* Mutant of WaitForTransactionReceipt: a receipt that is not there yet is an error.
ReceiptAtOnce(c) ==
    /\ At(c, "wait")
    /\ Goto(c, IF call[c].nonce >= Len(mined) \/ ~mined[call[c].nonce + 1].ok THEN "failed"
               ELSE IF call[c].step = "approve" THEN "check" ELSE "done")
    /\ UNCHANGED <<node, history>>

\* The wait ends with the receipt of this very transaction.
WaitForTransactionReceipt(c) ==
    /\ At(c, "wait") /\ call[c].nonce < Len(mined)
    /\ LET receipt == mined[call[c].nonce + 1]
       IN  /\ receipt.tx = Signed(c)
           /\ Goto(c, IF ~receipt.ok THEN "failed"
                      ELSE IF call[c].step = "approve" THEN "check" ELSE "done")
    /\ UNCHANGED <<node, history>>

\* The provider fails for good, or the caller cancels.
ProviderFails(c) ==
    /\ call[c].pc \notin {"done", "failed"} /\ faults < MaxFaults
    /\ faults' = faults + 1
    /\ gaveUp' = IF At(c, "wait") THEN gaveUp \cup {c} ELSE gaveUp
    /\ Goto(c, "failed")
    /\ UNCHANGED <<node, lost, overtaken, replaced>>

Init ==
    /\ mined = <<>>
    /\ pool = [n \in 0..MaxNonce |-> NoTx]
    /\ balance = Balance
    /\ allowance = 0
    /\ call = [c \in Call |-> [pc |-> "start", step |-> "other", nonce |-> 0, attempt |-> 0, seen |-> 0]]
    /\ faults = 0
    /\ lost = {} /\ gaveUp = {} /\ overtaken = {} /\ replaced = {}

Run(c) ==
    \/ BalanceOf(c) \/ Allowance(c) \/ Begin(c) \/ CheckAllowance(c)
    \/ TransactionCount(c) \/ EstimateGas(c) \/ NonceTooLow(c) \/ AlreadyPending(c)
    \/ \E reply \in DOMAIN AfterReply : SendRawTransaction(c, reply)
    \/ WaitForTransactionReceipt(c)

Next == Mine \/ \E c \in Call : Run(c) \/ ProviderFails(c)

\* The node mines what is pending, and a goroutine that can go on does.
Spec == Init /\ [][Next]_vars /\ WF_vars(Mine) /\ \A c \in Call : WF_vars(Run(c))

-----------------------------------------------------------------------------

\* The transactions of a call's step that are mined, or pending.
Mined(c, step) == {n \in DOMAIN mined : mined[n].tx.call = c /\ mined[n].tx.step = step}
Pending(c) == {n \in DOMAIN pool : pool[n] # NoTx /\ pool[n].call = c}

\* The shape of the state: a transaction is in the pool, or on chain, at its nonce
\* (SignAndSendEIP1559Transaction).
TypeOK ==
    /\ mined \in Seq([tx : Tx, ok : BOOLEAN]) /\ Len(mined) <= MaxNonce + 1
    /\ pool \in [0..MaxNonce -> Tx \cup {NoTx}]
    /\ \A n \in DOMAIN mined : mined[n].tx.nonce = n - 1
    /\ \A n \in 0..MaxNonce : pool[n] # NoTx => pool[n].nonce = n /\ Len(mined) <= n
    /\ balance \in Nat /\ allowance \in Nat
    /\ call \in [Call -> Locals]
    /\ faults \in 0..MaxFaults
    /\ lost \subseteq Call /\ gaveUp \subseteq Call /\ overtaken \subseteq Call

\* No transaction waits behind a nonce that nobody has sent: a nonce is only
\* counted up past one that is mined (SignAndSendEIP1559TransactionWithLatestNonce).
NoNonceGap ==
    \A n \in DOMAIN pool : pool[n] # NoTx =>
        \A k \in Len(mined)..n : pool[k] # NoTx

\* A step of a call is mined once, unless the call's own transaction was the one
\* that took the nonce while its reply was lost (isNonceAlreadyUsedError).
MinedOnceUnlessOvertaken ==
    \A c \in Call \ overtaken, step \in Step : Cardinality(Mined(c, step)) <= 1

\* A shield that reverts on chain did not at its estimate: another call's
\* transaction was mined in between (ShieldERC20 reads, approves and sends apart).
RevertsOnlyIfRaced ==
    \A n \in DOMAIN mined : ~mined[n].ok =>
        \E k \in (mined[n].tx.seen + 1)..(n - 1) : mined[k].tx.call # mined[n].tx.call

\* What a call returns is what became of its transaction: after no error it is
\* mined, and not reverted (WaitForTransactionReceipt, transactionReverted); after
\* an error it has nothing pending that may still be mined, unless a reply was
\* lost, named another hash after the transaction was sent, or its wait was given
\* up (SignAndSendEIP1559Transaction).
ResultTold ==
    \A c \in Call :
        /\ At(c, "done") => \E n \in Mined(c, call[c].step) : mined[n].ok
        /\ At(c, "failed") /\ c \notin lost \cup gaveUp => Pending(c) = {}

\* Every call returns, unless its transaction's nonce was taken by another one:
\* then it waits forever (WaitForTransactionReceipt polls one hash).
ReturnsUnlessReplaced ==
    \A c \in Call : <>(\/ call[c].pc \in {"done", "failed"}
                       \/ At(c, "wait") /\ Signed(c) \in replaced)

=============================================================================
