------------------------- MODULE BroadcasterClient -------------------------
(***************************************************************************)
(* The lifecycle of the broadcaster client (pkg/broadcaster/client.go):    *)
(* application goroutines start it, stop it, move it to another chain and  *)
(* reconnect it; every Start leaves a goroutine that polls the status and  *)
(* restarts a client that has lost its connection. All of them share one   *)
(* mutex and one transport; a restart stops and starts the transport       *)
(* without the mutex. The Waku node behind the transport is external.      *)
(***************************************************************************)
EXTENDS Integers, FiniteSets

CONSTANTS
    App,       \* goroutines of the application
    Poller,    \* bound: the polling goroutines that may ever be started
    Chain,     \* chains the client may observe
    Nobody,    \* no goroutine
    MaxFaults  \* bound: failing connects and subscriptions

ASSUME ClientAssumption ==
    /\ App \cap Poller = {}
    /\ Nobody \notin App \cup Poller
    /\ Chain # {}
    /\ MaxFaults \in Nat

VARIABLES
    mu,        \* who holds Client.mu
    client,    \* the fields of the Client
    transport, \* started, and the subscriptions of its node
    thread,    \* goroutine -> where it is, and the chain it has in hand
    cancelled, \* pollers whose context is cancelled
    raced,     \* history: Start, Stop or SetChain ran while a restart did
    faults     \* history: failing connects and subscriptions so far

vars == <<mu, client, transport, thread, cancelled, raced, faults>>

Thread == App \cup Poller
Topic  == {"fees", "response"}

-----------------------------------------------------------------------------

\* setObserversLocked is called by Start, SetChain and restart.
Callers   == {"start", "setChain", "restart"}
Observing == {"unsubscribe", "fees", "response", "refused"}
Restart   == {"stopTransport", "startTransport", "relock", "endRestart"}
PC == {"idle", "none", "wait", "due", "connect", "disconnect", "stopping",
       "started", "restart"} \cup Observing \cup Restart

At(t, pc) == thread[t].pc = pc

\* t goes on at pc.
Goto(t, pc) == thread' = [thread EXCEPT ![t].pc = pc]

\* A goroutine that is done with its call: a poller waits for its timer.
Rest(t) == IF t \in Poller THEN "wait" ELSE "idle"

Lock(t) == mu = Nobody /\ mu' = t

Unlock(t) == mu = t /\ mu' = Nobody

\* A call that takes the mutex between the steps of a restart.
Races == raced' = (raced \/ client.restarting)

Fault == faults < MaxFaults /\ faults' = faults + 1

\* Mutant of Subscriptions: the old ones stay.
SubscriptionsKept(old) == old

\* Transport.UnsubscribeAll
Subscriptions(old) == {}

\* The shape of the state; a client has one current poller at most (Client).
TypeOK ==
    /\ mu \in Thread \cup {Nobody}
    /\ client \in [started : BOOLEAN, restarting : BOOLEAN, chain : Chain,
                   poller : Poller \cup {Nobody}]
    /\ transport \in [started : BOOLEAN, subs : SUBSET (Topic \X Chain)]
    /\ thread \in [Thread -> [pc : PC, chain : Chain, caller : Callers]]
    /\ cancelled \subseteq Poller
    /\ raced \in BOOLEAN
    /\ faults \in 0 .. MaxFaults

Init ==
    /\ mu = Nobody
    /\ client \in [started : {FALSE}, restarting : {FALSE}, chain : Chain,
                   poller : {Nobody}]
    /\ transport = [started |-> FALSE, subs |-> {}]
    /\ thread = [t \in Thread |-> [pc |-> IF t \in Poller THEN "none" ELSE "idle",
                                   chain |-> client.chain, caller |-> "start"]]
    /\ cancelled = {}
    /\ raced = FALSE
    /\ faults = 0

-----------------------------------------------------------------------------
(* Start, Stop, SetChain, TryReconnect: calls of the application.          *)

\* Only as long as the bound leaves a poller to start.
Start(t, c) ==
    /\ At(t, "idle")
    /\ \E p \in Poller : At(p, "none")
    /\ Lock(t)
    /\ Races
    /\ client' = [client EXCEPT !.chain = c]
    /\ thread' = [thread EXCEPT ![t] = [pc |-> "connect", chain |-> c, caller |-> "start"]]
    /\ UNCHANGED <<transport, cancelled, faults>>

\* Transport.Start; a transport that runs is left as it is.
Connect(t) ==
    /\ At(t, "connect")
    /\ \/ /\ transport' = [transport EXCEPT !.started = TRUE]
          /\ Goto(t, "unsubscribe")
          /\ UNCHANGED <<mu, faults>>
       \/ /\ ~transport.started
          /\ Fault
          /\ Goto(t, "idle")
          /\ Unlock(t)
          /\ UNCHANGED transport
    /\ UNCHANGED <<client, cancelled, raced>>

\* Mutant of Disconnect: the transport stays connected.
DisconnectNot(t) ==
    /\ At(t, "disconnect")
    /\ Goto(t, "idle")
    /\ Unlock(t)
    /\ UNCHANGED <<client, transport, cancelled, raced, faults>>

\* A Start whose subscriptions are refused stops the transport again.
Disconnect(t) ==
    /\ At(t, "disconnect")
    /\ transport' = [started |-> FALSE, subs |-> {}]
    /\ Goto(t, "idle")
    /\ Unlock(t)
    /\ UNCHANGED <<client, cancelled, raced, faults>>

\* The end of Start: the poller of an earlier Start goes on.
Started(t) ==
    /\ At(t, "started")
    /\ \E p \in Poller :
          /\ At(p, "none")
          /\ client' = [client EXCEPT !.started = TRUE, !.poller = p]
          /\ thread' = [thread EXCEPT ![t].pc = "idle", ![p].pc = "wait"]
    /\ Unlock(t)
    /\ UNCHANGED <<transport, cancelled, raced, faults>>

\* What Client.cancelPoll cancels: the poller of the last Start, if there is one.
CurrentPoller == {client.poller} \ {Nobody}

\* Stop cancels the poller and drops the subscriptions ...
Stop(t) ==
    /\ At(t, "idle")
    /\ Lock(t)
    /\ Races
    /\ cancelled' = cancelled \cup CurrentPoller
    /\ client' = [client EXCEPT !.poller = Nobody]
    /\ transport' = [transport EXCEPT !.subs = Subscriptions(@)]
    /\ Goto(t, "stopping")
    /\ UNCHANGED faults

\* ... and stops the transport.
Stopped(t) ==
    /\ At(t, "stopping")
    /\ transport' = [started |-> FALSE, subs |-> {}]
    /\ client' = [client EXCEPT !.started = FALSE]
    /\ Goto(t, "idle")
    /\ Unlock(t)
    /\ UNCHANGED <<cancelled, raced, faults>>

SetChain(t, c) ==
    /\ At(t, "idle")
    /\ client.started
    /\ Lock(t)
    /\ Races
    /\ client' = [client EXCEPT !.chain = c]
    /\ thread' = [thread EXCEPT ![t] = [pc |-> "unsubscribe", chain |-> c,
                                        caller |-> "setChain"]]
    /\ UNCHANGED <<transport, cancelled, faults>>

TryReconnect(t) ==
    /\ At(t, "idle")
    /\ mu = Nobody
    /\ Goto(t, "restart")
    /\ UNCHANGED <<mu, client, transport, cancelled, raced, faults>>

-----------------------------------------------------------------------------
(* setObserversLocked.                                                     *)

Unsubscribe(t) ==
    /\ At(t, "unsubscribe")
    /\ transport' = [transport EXCEPT !.subs = Subscriptions(@)]
    /\ Goto(t, "fees")
    /\ UNCHANGED <<mu, client, cancelled, raced, faults>>

\* What follows when the observers are set.
Observed(t) ==
    CASE thread[t].caller = "start"    -> "started"
      [] thread[t].caller = "setChain" -> "idle"
      [] thread[t].caller = "restart"  -> "endRestart"

Subscribe(t, topic, next) ==
    /\ At(t, topic)
    /\ transport.started
    /\ transport' = [transport EXCEPT !.subs = @ \cup {<<topic, thread[t].chain>>}]
    /\ Goto(t, next)
    /\ IF next \in {"idle", "endRestart"} THEN Unlock(t) ELSE UNCHANGED mu
    /\ UNCHANGED <<client, cancelled, raced, faults>>

SubscribeFees(t) == Subscribe(t, "fees", "response")

SubscribeResponse(t) == Subscribe(t, "response", Observed(t))

\* The node refuses a subscription; a transport that does not run always does.
Refused(t) ==
    /\ At(t, "fees") \/ At(t, "response")
    /\ IF transport.started THEN Fault ELSE UNCHANGED faults
    /\ CASE thread[t].caller = "start" -> Goto(t, "disconnect") /\ UNCHANGED mu
         [] thread[t].caller = "setChain" -> Goto(t, "idle") /\ Unlock(t)
         [] thread[t].caller = "restart" -> Goto(t, "endRestart") /\ Unlock(t)
    /\ UNCHANGED <<client, transport, cancelled, raced>>

-----------------------------------------------------------------------------
(* The poller, and restart.                                                *)

TimerFires(p) ==
    /\ At(p, "wait")
    /\ p \notin cancelled
    /\ Goto(p, "due")
    /\ UNCHANGED <<mu, client, transport, cancelled, raced, faults>>

\* A connection that is lost is restarted. With a transport that runs this
\* depends on the fees received: connectionStatus may say either.
Poll(p) ==
    /\ At(p, "due")
    /\ mu = Nobody
    /\ \/ Goto(p, "restart")
       \/ transport.started /\ Goto(p, "wait")
    /\ UNCHANGED <<mu, client, transport, cancelled, raced, faults>>

PollerEnds(p) ==
    /\ At(p, "wait")
    /\ p \in cancelled
    /\ Goto(p, "none")
    /\ cancelled' = cancelled \ {p}
    /\ UNCHANGED <<mu, client, transport, raced, faults>>

\* Mutant of MayRestart: a restart that runs is not looked at.
MayRestartTwice == client.started

MayRestart == client.started /\ ~client.restarting

BeginRestart(t) ==
    /\ At(t, "restart")
    /\ mu = Nobody
    /\ IF MayRestart
         THEN /\ client' = [client EXCEPT !.restarting = TRUE]
              /\ thread' = [thread EXCEPT ![t] = [pc |-> "stopTransport",
                                                  chain |-> client.chain,
                                                  caller |-> "restart"]]
         ELSE /\ Goto(t, Rest(t))
              /\ UNCHANGED client
    /\ UNCHANGED <<mu, transport, cancelled, raced, faults>>

\* From here the mutex is free.
StopTransport(t) ==
    /\ At(t, "stopTransport")
    /\ transport' = [started |-> FALSE, subs |-> {}]
    /\ Goto(t, "startTransport")
    /\ UNCHANGED <<mu, client, cancelled, raced, faults>>

StartTransport(t) ==
    /\ At(t, "startTransport")
    /\ \/ /\ transport' = [transport EXCEPT !.started = TRUE]
          /\ Goto(t, "relock")
          /\ UNCHANGED faults
       \/ /\ ~transport.started
          /\ Fault
          /\ Goto(t, "endRestart")
          /\ UNCHANGED transport
    /\ UNCHANGED <<mu, client, cancelled, raced>>

\* The observers are those of the chain the restart began with.
Relock(t) ==
    /\ At(t, "relock")
    /\ Lock(t)
    /\ Goto(t, "unsubscribe")
    /\ UNCHANGED <<client, transport, cancelled, raced, faults>>

\* Mutant of EndRestart: the flag stays set.
EndRestartFlagged(t) ==
    /\ At(t, "endRestart")
    /\ mu = Nobody
    /\ Goto(t, Rest(t))
    /\ UNCHANGED <<mu, client, transport, cancelled, raced, faults>>

EndRestart(t) ==
    /\ At(t, "endRestart")
    /\ mu = Nobody
    /\ client' = [client EXCEPT !.restarting = FALSE]
    /\ Goto(t, Rest(t))
    /\ UNCHANGED <<mu, transport, cancelled, raced, faults>>

-----------------------------------------------------------------------------

Call(t) ==
    \/ \E c \in Chain : Start(t, c) \/ SetChain(t, c)
    \/ Stop(t)
    \/ TryReconnect(t)

\* What a goroutine inside a call, or a poller, does next.
Step(t) ==
    \/ Connect(t)
    \/ Disconnect(t)
    \/ Started(t)
    \/ Stopped(t)
    \/ Unsubscribe(t)
    \/ SubscribeFees(t)
    \/ SubscribeResponse(t)
    \/ Refused(t)
    \/ TimerFires(t)
    \/ Poll(t)
    \/ PollerEnds(t)
    \/ BeginRestart(t)
    \/ StopTransport(t)
    \/ StartTransport(t)
    \/ Relock(t)
    \/ EndRestart(t)

Next == \/ \E t \in App : Call(t)
        \/ \E t \in Thread : Step(t)

Spec == Init /\ [][Next]_vars

\* A goroutine that can go on does, and gets the mutex if it waits for it: the
\* mutex of Go is starvation-free. A connect may fail but a few times.
FairSpec == Spec /\ \A t \in Thread : SF_vars(Step(t))

-----------------------------------------------------------------------------
(* Properties.                                                             *)

\* The flag restarting stands in for the mutex during a restart: the pollers
\* of several Starts and the callers of TryReconnect never stop and start the
\* transport under each other.
OneRestart ==
    \A t, u \in Thread :
        thread[t].caller = "restart" /\ thread[u].caller = "restart"
        /\ thread[t].pc \in Restart \cup Observing
        /\ thread[u].pc \in Restart \cup Observing
        => t = u

\* Between calls, a client that is not started holds no connection, unless a
\* call of Start, Stop or SetChain ran while a restart did.
StoppedUnlessRaced ==
    mu = Nobody /\ ~client.started /\ ~raced => ~transport.started

\* Between calls, a started client whose transport runs observes both topics
\* of its chain and no other, unless a call ran while a restart did or a
\* subscription was refused.
ObservesItsChain ==
    /\ mu = Nobody /\ client.started /\ transport.started
    /\ ~client.restarting /\ ~raced /\ faults = 0
    => transport.subs = Topic \X {client.chain}

\* A started client that loses its connection is connected again, or stopped.
Reconnects ==
    client.started /\ ~transport.started ~> transport.started \/ ~client.started

\* client.go:87: "Stop disconnects Waku and clears started state." Between calls
\* and restarts, a client that is not started holds no connection. The code does
\* not keep it: TLC refutes it, in MCBroadcasterClient.cfg, by a Stop between the
\* two halves of a restart.
StopDisconnects ==
    mu = Nobody /\ ~client.started /\ ~client.restarting => ~transport.started

=============================================================================
