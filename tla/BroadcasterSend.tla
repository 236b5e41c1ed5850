-------------------------- MODULE BroadcasterSend --------------------------
(***************************************************************************)
(* Submitting transactions through a broadcaster (pkg/broadcaster,         *)
(* transaction.go and response.go). Each transaction is encrypted with a   *)
(* key of its own; the client keeps the key of the transaction created     *)
(* last, and one answer that it could decrypt, for whoever waits. Send     *)
(* publishes again and again, and polls for an answer in rounds, until an  *)
(* answer or the chain says what became of the transaction, or time is up. *)
(*                                                                         *)
(* External: the broadcasters, who may answer a request never, late or     *)
(* more than once, and the network, which may lose a request and deliver   *)
(* an answer any number of times.                                          *)
(***************************************************************************)
EXTENDS Integers, FiniteSets

CONSTANTS
    Tx,          \* transactions
    Handler,     \* goroutines that handle messages of the subscription
    None,        \* no transaction, no answer
    LastPublish, \* the last round that publishes (10 in the code)
    LastRound,   \* the round that times out (60 in the code)
    MaxAnswers   \* bound: different answers that are ever sent

ASSUME SendAssumption ==
    /\ None \notin Tx
    /\ LastPublish \in Nat /\ LastRound \in Nat /\ LastPublish < LastRound
    /\ MaxAnswers \in Nat

\* A broadcaster's answer: a hash, an error, or neither.
Answer == [of : Tx, says : {"hash", "error", "nothing"}]

VARIABLES
    key,       \* TransactResponseStore.sharedKey
    response,  \* TransactResponseStore.response
    tx,        \* transaction -> its Send
    handling,  \* goroutine -> the message it handles, and the key it read
    requests,  \* transactions some broadcaster has received
    mined,     \* transactions that are on the chain
    answers,   \* answers sent, which the network delivers and keeps
    mixed      \* history: a key replaced while it was in use

sendVars == <<key, response, tx, handling, requests, mined, answers, mixed>>

Idle == [answer |-> None, key |-> None]

SendPC == {"new", "created", "publish", "query", "poll", "clear", "done"}
Results == {"none", "hash", "error", "timeout", "cancelled"}

\* The shape of the state; no Send counts past its last round
\* (broadcastRetryState).
SendTypeOK ==
    /\ key \in Tx \cup {None}
    /\ response \in Answer \cup {None}
    /\ tx \in [Tx -> [pc : SendPC, round : 0 .. LastRound, todo : SUBSET Answer,
                      result : Results, of : Tx]]
    /\ handling \in [Handler \cup Tx -> [answer : Answer \cup {None},
                                         key : Tx \cup {None}]]
    /\ requests \subseteq Tx
    /\ mined \subseteq requests
    /\ answers \subseteq Answer
    /\ mixed \in BOOLEAN

SendInit ==
    /\ key = None
    /\ response = None
    /\ tx = [t \in Tx |-> [pc |-> "new", round |-> 0, todo |-> {},
                           result |-> "none", of |-> t]]
    /\ handling = [h \in Handler \cup Tx |-> Idle]
    /\ requests = {}
    /\ mined = {}
    /\ answers = {}
    /\ mixed = FALSE

network == <<requests, mined, answers>>

SendAt(t, pc) == tx[t].pc = pc

\* t has these answers of the store left to handle.
Queries(t, found) ==
    tx' = [tx EXCEPT ![t] = [pc |-> "query", round |-> @.round, todo |-> found,
                             result |-> @.result, of |-> @.of]]

\* t is over, with this result about a transaction.
Ends(t, pc, result, of) ==
    tx' = [tx EXCEPT ![t] = [pc |-> pc, round |-> @.round, todo |-> @.todo,
                             result |-> result, of |-> of]]

-----------------------------------------------------------------------------
(* TransactResponseStore.                                                  *)

\* Mutant of SetSharedKey: an answer that is there already stays.
SetSharedKeyOnly(t) == key' = t /\ UNCHANGED response

SetSharedKey(t) == key' = t /\ response' = None

Clear == key' = None /\ response' = None

\* AES-GCM: an answer is decrypted by the key of its own transaction only.
Decrypts(k, answer) == k = answer.of

\* HandleMessage reads the key in one critical section ...
ReadKey(h, answer) ==
    /\ handling[h] = Idle
    /\ handling' = [handling EXCEPT ![h] = [answer |-> answer, key |-> key]]

\* ... and stores what it decrypts in another.
StoreResponse(h) ==
    /\ handling[h].key # None
    /\ response' = IF Decrypts(handling[h].key, handling[h].answer)
                     THEN handling[h].answer ELSE response
    /\ handling' = [handling EXCEPT ![h] = Idle]
    /\ UNCHANGED <<key, tx, network, mixed>>

-----------------------------------------------------------------------------
(* CreateTransaction and Send.                                             *)

\* The key is in use by a transaction that has not got its answer, or by a
\* message that is being handled.
InUse(t) ==
    \/ \E u \in Tx \ {t} : tx[u].pc \notin {"new", "done"}
    \/ \E h \in Handler \cup Tx : handling[h].key # None

Create(t) ==
    /\ SendAt(t, "new")
    /\ SetSharedKey(t)
    /\ mixed' = (mixed \/ InUse(t))
    /\ tx' = [tx EXCEPT ![t].pc = "created"]
    /\ UNCHANGED <<handling, network>>

Send(t) ==
    /\ SendAt(t, "created")
    /\ tx' = [tx EXCEPT ![t].pc = "publish"]
    /\ UNCHANGED <<key, response, handling, network, mixed>>

\* broadcastRetryState
Retry(round) ==
    IF round <= LastPublish THEN "transact"
    ELSE IF round >= LastRound THEN "timeout" ELSE "wait"

\* The start of a round. An error of Publish is only logged.
Publish(t) ==
    /\ SendAt(t, "publish")
    /\ Retry(tx[t].round) # "timeout"
    /\ \/ Retry(tx[t].round) = "transact" /\ requests' = requests \cup {t}
       \/ UNCHANGED requests
    /\ \E found \in SUBSET answers : Queries(t, found)
    /\ UNCHANGED <<key, response, handling, mined, answers, mixed>>

TimesOut(t) ==
    /\ SendAt(t, "publish")
    /\ Retry(tx[t].round) = "timeout"
    /\ Clear
    /\ Ends(t, "done", "timeout", tx[t].of)
    /\ UNCHANGED <<handling, network, mixed>>

\* The answers QueryStore found are handled by the goroutine of Send, one by
\* one; without a key there is nothing to do for one.
QueryStore(t) ==
    /\ SendAt(t, "query")
    /\ handling[t] = Idle
    /\ \E answer \in tx[t].todo :
          /\ Queries(t, tx[t].todo \ {answer})
          /\ IF key = None THEN UNCHANGED handling ELSE ReadKey(t, answer)
    /\ UNCHANGED <<key, response, network, mixed>>

EndQuery(t) ==
    /\ SendAt(t, "query")
    /\ handling[t] = Idle
    /\ tx[t].todo = {}
    /\ tx' = [tx EXCEPT ![t].pc = "poll"]
    /\ UNCHANGED <<key, response, handling, network, mixed>>

\* The answer in the store ends the Send, whoever it is for.
TakeResponse(t) ==
    /\ SendAt(t, "poll")
    /\ response # None
    /\ response.says # "nothing"
    /\ Ends(t, "clear", response.says, response.of)
    /\ UNCHANGED <<key, response, handling, network, mixed>>

\* NullifierTxidLookup has found the transaction on the chain.
Lookup(t) ==
    /\ SendAt(t, "poll")
    /\ t \in mined
    /\ Ends(t, "clear", "hash", tx[t].of)
    /\ UNCHANGED <<key, response, handling, network, mixed>>

Cancelled(t) ==
    /\ SendAt(t, "poll")
    /\ Ends(t, "clear", "cancelled", tx[t].of)
    /\ UNCHANGED <<key, response, handling, network, mixed>>

Return(t) ==
    /\ SendAt(t, "clear")
    /\ Clear
    /\ tx' = [tx EXCEPT ![t].pc = "done"]
    /\ UNCHANGED <<handling, network, mixed>>

\* Mutant of NextRound: the number of the round is passed on as it is.
NextRoundSame(t) ==
    /\ SendAt(t, "poll")
    /\ tx' = [tx EXCEPT ![t].pc = "publish"]
    /\ UNCHANGED <<key, response, handling, network, mixed>>

\* The deadline of the round, at which an answer may just have come.
NextRound(t) ==
    /\ SendAt(t, "poll")
    /\ tx' = [tx EXCEPT ![t].pc = "publish", ![t].round = @ + 1]
    /\ UNCHANGED <<key, response, handling, network, mixed>>

-----------------------------------------------------------------------------
(* The network and the broadcasters.                                       *)

MineTx(t) ==
    /\ t \in requests \ mined
    /\ mined' = mined \cup {t}
    /\ UNCHANGED <<key, response, tx, handling, requests, answers, mixed>>

\* A broadcaster gives the hash of a transaction that it has submitted.
SendAnswer(t) ==
    /\ t \in requests
    /\ Cardinality(answers) < MaxAnswers
    /\ \E says \in {"hash", "error", "nothing"} :
          /\ says = "hash" => t \in mined
          /\ answers' = answers \cup {[of |-> t, says |-> says]}
    /\ UNCHANGED <<key, response, tx, handling, requests, mined, mixed>>

\* The subscription delivers an answer, perhaps once more.
Deliver(h) ==
    /\ key # None
    /\ \E answer \in answers : ReadKey(h, answer)
    /\ UNCHANGED <<key, response, tx, network, mixed>>

-----------------------------------------------------------------------------

SendStep(t) ==
    \/ Publish(t)
    \/ TimesOut(t)
    \/ QueryStore(t)
    \/ StoreResponse(t)
    \/ EndQuery(t)
    \/ TakeResponse(t)
    \/ Lookup(t)
    \/ Return(t)
    \/ NextRound(t)

SendNext ==
    \/ \E t \in Tx : \/ Create(t) \/ Send(t) \/ SendStep(t) \/ Cancelled(t)
                     \/ MineTx(t) \/ SendAnswer(t)
    \/ \E h \in Handler : Deliver(h) \/ StoreResponse(h)

SendSpec == SendInit /\ [][SendNext]_sendVars

\* A Send that is called goes on: every step of it ends, and rounds pass.
SendFairSpec == SendSpec /\ \A t \in Tx : WF_sendVars(SendStep(t))

-----------------------------------------------------------------------------
(* Properties.                                                             *)

\* A late or repeated answer to a transaction that is over is never given to
\* the next one, as long as each is created after the Send before it returned
\* and no message is being handled then: a hash that Send returns is that of
\* its own transaction, which is on the chain. Every way out of Send forgets the
\* key, so that no answer is decrypted when every transaction is over.
\* (TransactResponseStore.HandleMessage, Transaction.broadcast)
OwnAnswerUnlessMixed ==
    ~mixed =>
        /\ \A t \in Tx : tx[t].result \in {"hash", "error"} =>
              tx[t].of = t /\ (tx[t].result = "hash" => t \in mined)
        /\ (\A t \in Tx : tx[t].pc \in {"new", "done"}) => key = None

\* A Send returns, whatever broadcasters and network do.
SendReturns == \A t \in Tx : SendAt(t, "publish") ~> SendAt(t, "done")

\* transaction.go:112: "Send broadcasts the encrypted payload and waits for a tx
\* hash or error." The hash is that of the payload it has sent. The code does not
\* keep it: TLC refutes it, in MCBroadcasterSend.cfg, by two transactions in
\* flight.
OwnAnswer ==
    \A t \in Tx : tx[t].result = "hash" => tx[t].of = t

=============================================================================
