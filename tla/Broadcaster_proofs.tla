-------------------------- MODULE Broadcaster_proofs --------------------------
(***************************************************************************)
(* The safety properties of the broadcaster's three parts, which share no  *)
(* state in the models: of BroadcasterClient, for any number of            *)
(* application goroutines, pollers, chains and faults; of BroadcasterSend, *)
(* for any number of transactions, handlers, rounds and answers; and of    *)
(* BroadcasterFees, for any number of broadcasters and quotes, and every   *)
(* delay, timeout and percentage.                                          *)
(***************************************************************************)
EXTENDS BroadcasterClient, BroadcasterSend, BroadcasterFees, SequenceTheorems, TLAPS

-----------------------------------------------------------------------------
(* BroadcasterClient: the inductive invariant. *)

\* The places where a goroutine holds the mutex, and those where a restart is.
Section == Observing \cup {"connect", "disconnect", "stopping", "started"}
InRestart(t) == thread[t].caller = "restart" /\ thread[t].pc \in Restart \cup Observing

MutexInv == \A t \in Thread : thread[t].pc \in Section => mu = t

\* The steps that only one of the calls takes.
CallerInv ==
    \A t \in Thread :
        /\ thread[t].pc \in {"connect", "disconnect", "started"} => thread[t].caller = "start"
        /\ thread[t].pc \in Restart => thread[t].caller = "restart"

FlagInv == \A t \in Thread : InRestart(t) => client.restarting

\* Unless it is raced, a restart is of a started client, and nobody else holds
\* the mutex until it ends.
OwnerInv ==
    ~raced /\ client.restarting =>
        /\ client.started
        /\ \A t \in Thread : thread[t].pc \in Section => InRestart(t)

\* SetChain is for a started client, and nobody stops it meanwhile.
SetChainInv ==
    \A t \in Thread :
        thread[t].pc \in Observing /\ thread[t].caller = "setChain" => client.started

\* The chain that a goroutine has in hand is the client's ...
ChainInv ==
    ~raced => \A t \in Thread :
        thread[t].pc \in {"connect", "unsubscribe", "fees", "response", "started"} \cup Restart
        => thread[t].chain = client.chain

\* ... and what it has subscribed to so far is all that there is.
SubsInv ==
    ~raced => \A t \in Thread :
        /\ thread[t].pc = "fees" => transport.subs = {}
        /\ thread[t].pc = "response" => transport.subs = {<<"fees", client.chain>>}
        /\ thread[t].pc = "started" => transport.subs = Topic \X {client.chain}
        /\ thread[t].pc = "endRestart" /\ transport.started /\ faults = 0
           => transport.subs = Topic \X {client.chain}

IInv ==
    /\ TypeOK
    /\ MutexInv
    /\ CallerInv
    /\ OneRestart
    /\ FlagInv
    /\ OwnerInv
    /\ SetChainInv
    /\ ChainInv
    /\ SubsInv
    /\ StoppedUnlessRaced
    /\ ObservesItsChain

\* A goroutine that has moved, with the chain and the caller it has then.
Moved(t, pc, chain, caller) ==
    /\ thread' \in [Thread -> [pc : PC, chain : Chain, caller : Callers]]
    /\ thread'[t].pc = pc /\ thread'[t].chain = chain /\ thread'[t].caller = caller
    /\ \A u \in Thread \ {t} : thread'[u] = thread[u]

-----------------------------------------------------------------------------
(* The initial states, and the steps one by one. *)

LEMMA GotoMoves ==
    ASSUME TypeOK, NEW t \in Thread, NEW pc \in PC, Goto(t, pc)
    PROVE  Moved(t, pc, thread[t].chain, thread[t].caller)
BY DEF TypeOK, Goto, Moved

LEMMA InitIInv == Init => IInv
<1>. SUFFICES ASSUME Init PROVE IInv
  OBVIOUS
<1>1. TypeOK
  <2>1. thread \in [Thread -> [pc : PC, chain : Chain, caller : Callers]]
    BY DEF Init, PC, Callers
  <2>2. client \in [started : BOOLEAN, restarting : BOOLEAN, chain : Chain,
                    poller : Poller \cup {Nobody}]
    BY DEF Init
  <2>3. transport \in [started : BOOLEAN, subs : SUBSET (Topic \X Chain)]
    BY DEF Init
  <2>4. mu \in Thread \cup {Nobody} /\ cancelled \subseteq Poller /\ raced \in BOOLEAN
    BY DEF Init
  <2>5. faults \in 0..MaxFaults
    BY ClientAssumption DEF Init
  <2>. QED
    BY <2>1, <2>2, <2>3, <2>4, <2>5 DEF TypeOK
<1>2. \A t \in Thread : thread[t].pc \in {"none", "idle"}
  BY DEF Init
<1>3. client.started = FALSE /\ client.restarting = FALSE /\ transport.started = FALSE
  BY DEF Init
<1>. QED
  BY <1>1, <1>2, <1>3
  DEF IInv, MutexInv, CallerInv, OneRestart, FlagInv, OwnerInv, SetChainInv, ChainInv, SubsInv,
      StoppedUnlessRaced, ObservesItsChain, Section, InRestart, Observing, Restart

LEMMA StartStep ==
    ASSUME IInv, NEW t \in App, NEW c \in Chain, Start(t, c)
    PROVE  IInv'
<1>1. Moved(t, "connect", c, "start")
  BY GotoMoves DEF IInv, TypeOK, Start, Goto, Moved, PC, Thread, Callers, Observing, Restart
<1>2. /\ thread[t].pc = "idle"
      /\ mu = Nobody /\ mu' = t
      /\ raced' = (raced \/ client.restarting)
      /\ client' = [client EXCEPT !.chain = c]
      /\ UNCHANGED <<transport, cancelled, faults>>
  BY DEF Start, At, Lock, Unlock, Races, Fault
<1>. USE ClientAssumption DEF IInv, TypeOK, Moved, Thread
<1>3. TypeOK'
  BY <1>1, <1>2
<1>4. MutexInv' /\ CallerInv'
  BY <1>1, <1>2, <1>3
  DEF MutexInv, CallerInv, Section, InRestart, Observing, Restart
<1>5. OneRestart' /\ FlagInv'
  BY <1>1, <1>2, <1>3
  DEF OneRestart, FlagInv, CallerInv, Section, InRestart, Observing, Restart
<1>6. OwnerInv' /\ SetChainInv'
  BY <1>1, <1>2, <1>3
  DEF OwnerInv, SetChainInv, MutexInv, CallerInv, FlagInv, OneRestart, Section,
      InRestart, Observing, Restart
<1>7. ChainInv' /\ SubsInv'
  BY <1>1, <1>2, <1>3
  DEF ChainInv, SubsInv, MutexInv, CallerInv, OneRestart, FlagInv, OwnerInv, Topic,
      Section, InRestart, Observing, Restart
<1>8. StoppedUnlessRaced'
  BY <1>1, <1>2, <1>3
  DEF StoppedUnlessRaced, MutexInv, CallerInv, FlagInv, OwnerInv, SetChainInv, Section,
      InRestart, Observing, Restart
<1>9. ObservesItsChain'
  BY <1>1, <1>2, <1>3
  DEF ObservesItsChain, SubsInv, ChainInv, MutexInv, CallerInv, FlagInv, OwnerInv,
      Topic, Section, InRestart, Observing, Restart
<1>. QED
  BY <1>3, <1>4, <1>5, <1>6, <1>7, <1>8, <1>9

LEMMA ConnectStep ==
    ASSUME IInv, NEW t \in Thread, Connect(t)
    PROVE  IInv'
<1>1. \/ Moved(t, "unsubscribe", thread[t].chain, thread[t].caller)
      \/ Moved(t, "idle", thread[t].chain, thread[t].caller)
  BY GotoMoves DEF IInv, TypeOK, Connect, Goto, Moved, PC, Thread, Callers, Observing, Restart
<1>2. /\ thread[t].pc = "connect"
      /\ \/ /\ transport' = [transport EXCEPT !.started = TRUE] /\ thread'[t].pc = "unsubscribe"
            /\ UNCHANGED <<mu, faults>>
         \/ /\ ~transport.started /\ UNCHANGED transport /\ thread'[t].pc = "idle"
            /\ faults < MaxFaults /\ faults' = faults + 1 /\ mu = t /\ mu' = Nobody
      /\ UNCHANGED <<client, cancelled, raced>>
  BY DEF Connect, At, Lock, Unlock, Races, Fault, Goto, IInv, TypeOK, Thread
<1>. USE ClientAssumption DEF IInv, TypeOK, Moved, Thread
<1>3. TypeOK'
  <2>1. transport' \in [started : BOOLEAN, subs : SUBSET (Topic \X Chain)]
    BY <1>2
  <2>2. faults' \in 0..MaxFaults
    BY <1>2
  <2>3. thread' \in [Thread -> [pc : PC, chain : Chain, caller : Callers]]
    BY <1>1
  <2>. HIDE DEF Moved
  <2>. QED
    BY <1>2, <2>1, <2>2, <2>3
<1>4. MutexInv' /\ CallerInv'
  BY <1>1, <1>2, <1>3
  DEF MutexInv, CallerInv, Section, InRestart, Observing, Restart
<1>5. OneRestart' /\ FlagInv'
  BY <1>1, <1>2, <1>3
  DEF OneRestart, FlagInv, CallerInv, Section, InRestart, Observing, Restart
<1>6. OwnerInv' /\ SetChainInv'
  BY <1>1, <1>2, <1>3
  DEF OwnerInv, SetChainInv, MutexInv, CallerInv, FlagInv, OneRestart, Section,
      InRestart, Observing, Restart
<1>7. ChainInv' /\ SubsInv'
  BY <1>1, <1>2, <1>3
  DEF ChainInv, SubsInv, MutexInv, CallerInv, OneRestart, FlagInv, OwnerInv, Topic,
      Section, InRestart, Observing, Restart
<1>8. StoppedUnlessRaced'
  BY <1>1, <1>2, <1>3
  DEF StoppedUnlessRaced, MutexInv, CallerInv, FlagInv, OwnerInv, SetChainInv, Section,
      InRestart, Observing, Restart
<1>9. ObservesItsChain'
  BY <1>1, <1>2, <1>3
  DEF ObservesItsChain, SubsInv, ChainInv, MutexInv, CallerInv, FlagInv, OwnerInv,
      Topic, Section, InRestart, Observing, Restart
<1>. QED
  BY <1>3, <1>4, <1>5, <1>6, <1>7, <1>8, <1>9

LEMMA DisconnectStep ==
    ASSUME IInv, NEW t \in Thread, Disconnect(t)
    PROVE  IInv'
<1>1. Moved(t, "idle", thread[t].chain, thread[t].caller)
  BY GotoMoves DEF IInv, TypeOK, Disconnect, Goto, Moved, PC, Thread, Callers, Observing, Restart
<1>2. /\ thread[t].pc = "disconnect"
      /\ transport' = [started |-> FALSE, subs |-> {}]
      /\ mu = t /\ mu' = Nobody
      /\ UNCHANGED <<client, cancelled, raced, faults>>
  BY DEF Disconnect, At, Lock, Unlock, Races, Fault
<1>. USE ClientAssumption DEF IInv, TypeOK, Moved, Thread
<1>3. TypeOK'
  BY <1>1, <1>2
<1>4. MutexInv' /\ CallerInv'
  BY <1>1, <1>2, <1>3
  DEF MutexInv, CallerInv, Section, InRestart, Observing, Restart
<1>5. OneRestart' /\ FlagInv'
  BY <1>1, <1>2, <1>3
  DEF OneRestart, FlagInv, CallerInv, Section, InRestart, Observing, Restart
<1>6. OwnerInv' /\ SetChainInv'
  BY <1>1, <1>2, <1>3
  DEF OwnerInv, SetChainInv, MutexInv, CallerInv, FlagInv, OneRestart, Section,
      InRestart, Observing, Restart
<1>7. ChainInv' /\ SubsInv'
  BY <1>1, <1>2, <1>3
  DEF ChainInv, SubsInv, MutexInv, CallerInv, OneRestart, FlagInv, OwnerInv, Topic,
      Section, InRestart, Observing, Restart
<1>8. StoppedUnlessRaced'
  BY <1>1, <1>2, <1>3
  DEF StoppedUnlessRaced, MutexInv, CallerInv, FlagInv, OwnerInv, SetChainInv, Section,
      InRestart, Observing, Restart
<1>9. ObservesItsChain'
  BY <1>1, <1>2, <1>3
  DEF ObservesItsChain, SubsInv, ChainInv, MutexInv, CallerInv, FlagInv, OwnerInv,
      Topic, Section, InRestart, Observing, Restart
<1>. QED
  BY <1>3, <1>4, <1>5, <1>6, <1>7, <1>8, <1>9

LEMMA StopStep ==
    ASSUME IInv, NEW t \in App, Stop(t)
    PROVE  IInv'
<1>1. Moved(t, "stopping", thread[t].chain, thread[t].caller)
  BY GotoMoves DEF IInv, TypeOK, Stop, Goto, Moved, PC, Thread, Callers, Observing, Restart
<1>2. /\ thread[t].pc = "idle"
      /\ mu = Nobody /\ mu' = t
      /\ raced' = (raced \/ client.restarting)
      /\ cancelled' = cancelled \cup CurrentPoller
      /\ client' = [client EXCEPT !.poller = Nobody]
      /\ transport' = [transport EXCEPT !.subs = Subscriptions(@)]
      /\ UNCHANGED <<faults>>
  BY DEF Stop, At, Lock, Unlock, Races, Fault
<1>. USE ClientAssumption DEF IInv, TypeOK, Moved, Thread
<1>3. TypeOK'
  BY <1>1, <1>2 DEF CurrentPoller, Subscriptions
<1>4. MutexInv' /\ CallerInv'
  BY <1>1, <1>2, <1>3
  DEF MutexInv, CallerInv, Section, InRestart, Observing, Restart
<1>5. OneRestart' /\ FlagInv'
  BY <1>1, <1>2, <1>3
  DEF OneRestart, FlagInv, CallerInv, Section, InRestart, Observing, Restart
<1>6. OwnerInv' /\ SetChainInv'
  BY <1>1, <1>2, <1>3
  DEF OwnerInv, SetChainInv, MutexInv, CallerInv, FlagInv, OneRestart, Section,
      InRestart, Observing, Restart
<1>7. ChainInv' /\ SubsInv'
  BY <1>1, <1>2, <1>3
  DEF ChainInv, SubsInv, MutexInv, CallerInv, OneRestart, FlagInv, OwnerInv, Topic,
      Subscriptions, Section, InRestart, Observing, Restart
<1>8. StoppedUnlessRaced'
  BY <1>1, <1>2, <1>3
  DEF StoppedUnlessRaced, MutexInv, CallerInv, FlagInv, OwnerInv, SetChainInv, Section,
      InRestart, Observing, Restart
<1>9. ObservesItsChain'
  BY <1>1, <1>2, <1>3
  DEF ObservesItsChain, SubsInv, ChainInv, MutexInv, CallerInv, FlagInv, OwnerInv,
      Topic, Subscriptions, Section, InRestart, Observing, Restart
<1>. QED
  BY <1>3, <1>4, <1>5, <1>6, <1>7, <1>8, <1>9

LEMMA StoppedStep ==
    ASSUME IInv, NEW t \in Thread, Stopped(t)
    PROVE  IInv'
<1>1. Moved(t, "idle", thread[t].chain, thread[t].caller)
  BY GotoMoves DEF IInv, TypeOK, Stopped, Goto, Moved, PC, Thread, Callers, Observing, Restart
<1>2. /\ thread[t].pc = "stopping"
      /\ transport' = [started |-> FALSE, subs |-> {}]
      /\ client' = [client EXCEPT !.started = FALSE]
      /\ mu = t /\ mu' = Nobody
      /\ UNCHANGED <<cancelled, raced, faults>>
  BY DEF Stopped, At, Lock, Unlock, Races, Fault
<1>. USE ClientAssumption DEF IInv, TypeOK, Moved, Thread
<1>3. TypeOK'
  BY <1>1, <1>2
<1>4. MutexInv' /\ CallerInv'
  BY <1>1, <1>2, <1>3
  DEF MutexInv, CallerInv, Section, InRestart, Observing, Restart
<1>5. OneRestart' /\ FlagInv'
  BY <1>1, <1>2, <1>3
  DEF OneRestart, FlagInv, CallerInv, Section, InRestart, Observing, Restart
<1>6. OwnerInv' /\ SetChainInv'
  BY <1>1, <1>2, <1>3
  DEF OwnerInv, SetChainInv, MutexInv, CallerInv, FlagInv, OneRestart, Section,
      InRestart, Observing, Restart
<1>7. ChainInv' /\ SubsInv'
  BY <1>1, <1>2, <1>3
  DEF ChainInv, SubsInv, MutexInv, CallerInv, OneRestart, FlagInv, OwnerInv, Topic,
      Section, InRestart, Observing, Restart
<1>8. StoppedUnlessRaced'
  BY <1>1, <1>2, <1>3
  DEF StoppedUnlessRaced, MutexInv, CallerInv, FlagInv, OwnerInv, SetChainInv, Section,
      InRestart, Observing, Restart
<1>9. ObservesItsChain'
  BY <1>1, <1>2, <1>3
  DEF ObservesItsChain, SubsInv, ChainInv, MutexInv, CallerInv, FlagInv, OwnerInv,
      Topic, Section, InRestart, Observing, Restart
<1>. QED
  BY <1>3, <1>4, <1>5, <1>6, <1>7, <1>8, <1>9

LEMMA SetChainStep ==
    ASSUME IInv, NEW t \in App, NEW c \in Chain, SetChain(t, c)
    PROVE  IInv'
<1>1. Moved(t, "unsubscribe", c, "setChain")
  BY GotoMoves DEF IInv, TypeOK, SetChain, Goto, Moved, PC, Thread, Callers, Observing, Restart
<1>2. /\ thread[t].pc = "idle" /\ client.started
      /\ mu = Nobody /\ mu' = t
      /\ raced' = (raced \/ client.restarting)
      /\ client' = [client EXCEPT !.chain = c]
      /\ UNCHANGED <<transport, cancelled, faults>>
  BY DEF SetChain, At, Lock, Unlock, Races, Fault
<1>. USE ClientAssumption DEF IInv, TypeOK, Moved, Thread
<1>3. TypeOK'
  BY <1>1, <1>2
<1>4. MutexInv' /\ CallerInv'
  BY <1>1, <1>2, <1>3
  DEF MutexInv, CallerInv, Section, InRestart, Observing, Restart
<1>5. OneRestart' /\ FlagInv'
  BY <1>1, <1>2, <1>3
  DEF OneRestart, FlagInv, CallerInv, Section, InRestart, Observing, Restart
<1>6. OwnerInv' /\ SetChainInv'
  BY <1>1, <1>2, <1>3
  DEF OwnerInv, SetChainInv, MutexInv, CallerInv, FlagInv, OneRestart, Section,
      InRestart, Observing, Restart
<1>7. ChainInv' /\ SubsInv'
  BY <1>1, <1>2, <1>3
  DEF ChainInv, SubsInv, MutexInv, CallerInv, OneRestart, FlagInv, OwnerInv, Topic,
      Section, InRestart, Observing, Restart
<1>8. StoppedUnlessRaced'
  BY <1>1, <1>2, <1>3
  DEF StoppedUnlessRaced, MutexInv, CallerInv, FlagInv, OwnerInv, SetChainInv, Section,
      InRestart, Observing, Restart
<1>9. ObservesItsChain'
  BY <1>1, <1>2, <1>3
  DEF ObservesItsChain, SubsInv, ChainInv, MutexInv, CallerInv, FlagInv, OwnerInv,
      Topic, Section, InRestart, Observing, Restart
<1>. QED
  BY <1>3, <1>4, <1>5, <1>6, <1>7, <1>8, <1>9

LEMMA TryReconnectStep ==
    ASSUME IInv, NEW t \in App, TryReconnect(t)
    PROVE  IInv'
<1>1. Moved(t, "restart", thread[t].chain, thread[t].caller)
  BY GotoMoves DEF IInv, TypeOK, TryReconnect, Goto, Moved, PC, Thread, Callers, Observing, Restart
<1>2. /\ thread[t].pc = "idle"
      /\ UNCHANGED <<mu, client, transport, cancelled, raced, faults>>
  BY DEF TryReconnect, At, Lock, Unlock, Races, Fault
<1>. USE ClientAssumption DEF IInv, TypeOK, Moved, Thread
<1>3. TypeOK'
  BY <1>1, <1>2
<1>4. MutexInv' /\ CallerInv'
  BY <1>1, <1>2, <1>3
  DEF MutexInv, CallerInv, Section, InRestart, Observing, Restart
<1>5. OneRestart' /\ FlagInv'
  BY <1>1, <1>2, <1>3
  DEF OneRestart, FlagInv, CallerInv, Section, InRestart, Observing, Restart
<1>6. OwnerInv' /\ SetChainInv'
  BY <1>1, <1>2, <1>3
  DEF OwnerInv, SetChainInv, MutexInv, CallerInv, FlagInv, OneRestart, Section,
      InRestart, Observing, Restart
<1>7. ChainInv' /\ SubsInv'
  BY <1>1, <1>2, <1>3
  DEF ChainInv, SubsInv, MutexInv, CallerInv, OneRestart, FlagInv, OwnerInv, Topic,
      Section, InRestart, Observing, Restart
<1>8. StoppedUnlessRaced'
  BY <1>1, <1>2, <1>3
  DEF StoppedUnlessRaced, MutexInv, CallerInv, FlagInv, OwnerInv, SetChainInv, Section,
      InRestart, Observing, Restart
<1>9. ObservesItsChain'
  BY <1>1, <1>2, <1>3
  DEF ObservesItsChain, SubsInv, ChainInv, MutexInv, CallerInv, FlagInv, OwnerInv,
      Topic, Section, InRestart, Observing, Restart
<1>. QED
  BY <1>3, <1>4, <1>5, <1>6, <1>7, <1>8, <1>9

LEMMA UnsubscribeStep ==
    ASSUME IInv, NEW t \in Thread, Unsubscribe(t)
    PROVE  IInv'
<1>1. Moved(t, "fees", thread[t].chain, thread[t].caller)
  BY GotoMoves DEF IInv, TypeOK, Unsubscribe, Goto, Moved, PC, Thread, Callers, Observing, Restart
<1>2. /\ thread[t].pc = "unsubscribe"
      /\ transport' = [transport EXCEPT !.subs = Subscriptions(@)]
      /\ UNCHANGED <<mu, client, cancelled, raced, faults>>
  BY DEF Unsubscribe, At, Lock, Unlock, Races, Fault
<1>. USE ClientAssumption DEF IInv, TypeOK, Moved, Thread
<1>3. TypeOK'
  BY <1>1, <1>2 DEF Subscriptions
<1>4. MutexInv' /\ CallerInv'
  BY <1>1, <1>2, <1>3
  DEF MutexInv, CallerInv, Section, InRestart, Observing, Restart
<1>5. OneRestart' /\ FlagInv'
  BY <1>1, <1>2, <1>3
  DEF OneRestart, FlagInv, CallerInv, Section, InRestart, Observing, Restart
<1>6. OwnerInv' /\ SetChainInv'
  BY <1>1, <1>2, <1>3
  DEF OwnerInv, SetChainInv, MutexInv, CallerInv, FlagInv, OneRestart, Section,
      InRestart, Observing, Restart
<1>7. ChainInv' /\ SubsInv'
  BY <1>1, <1>2, <1>3
  DEF ChainInv, SubsInv, MutexInv, CallerInv, OneRestart, FlagInv, OwnerInv, Topic,
      Subscriptions, Section, InRestart, Observing, Restart
<1>8. StoppedUnlessRaced'
  BY <1>1, <1>2, <1>3
  DEF StoppedUnlessRaced, MutexInv, CallerInv, FlagInv, OwnerInv, SetChainInv, Section,
      InRestart, Observing, Restart
<1>9. ObservesItsChain'
  BY <1>1, <1>2, <1>3
  DEF ObservesItsChain, SubsInv, ChainInv, MutexInv, CallerInv, FlagInv, OwnerInv,
      Topic, Subscriptions, Section, InRestart, Observing, Restart
<1>. QED
  BY <1>3, <1>4, <1>5, <1>6, <1>7, <1>8, <1>9

LEMMA SubscribeFeesStep ==
    ASSUME IInv, NEW t \in Thread, SubscribeFees(t)
    PROVE  IInv'
<1>1. Moved(t, "response", thread[t].chain, thread[t].caller)
  BY GotoMoves DEF IInv, TypeOK, SubscribeFees, Goto, Moved, PC, Thread, Callers, Observing, Restart, Subscribe
<1>2. /\ thread[t].pc = "fees" /\ transport.started
      /\ transport' = [transport EXCEPT !.subs = @ \cup {<<"fees", thread[t].chain>>}]
      /\ UNCHANGED <<mu, client, cancelled, raced, faults>>
  BY DEF SubscribeFees, At, Lock, Unlock, Races, Fault, Subscribe
<1>. USE ClientAssumption DEF IInv, TypeOK, Moved, Thread
<1>3. TypeOK'
  BY <1>1, <1>2 DEF Topic
<1>4. MutexInv' /\ CallerInv'
  BY <1>1, <1>2, <1>3
  DEF MutexInv, CallerInv, Section, InRestart, Observing, Restart
<1>5. OneRestart' /\ FlagInv'
  BY <1>1, <1>2, <1>3
  DEF OneRestart, FlagInv, CallerInv, Section, InRestart, Observing, Restart
<1>6. OwnerInv' /\ SetChainInv'
  BY <1>1, <1>2, <1>3
  DEF OwnerInv, SetChainInv, MutexInv, CallerInv, FlagInv, OneRestart, Section,
      InRestart, Observing, Restart
<1>7. ChainInv' /\ SubsInv'
  BY <1>1, <1>2, <1>3
  DEF ChainInv, SubsInv, MutexInv, CallerInv, OneRestart, FlagInv, OwnerInv, Topic,
      Section, InRestart, Observing, Restart
<1>8. StoppedUnlessRaced'
  BY <1>1, <1>2, <1>3
  DEF StoppedUnlessRaced, MutexInv, CallerInv, FlagInv, OwnerInv, SetChainInv, Section,
      InRestart, Observing, Restart
<1>9. ObservesItsChain'
  BY <1>1, <1>2, <1>3
  DEF ObservesItsChain, SubsInv, ChainInv, MutexInv, CallerInv, FlagInv, OwnerInv,
      Topic, Section, InRestart, Observing, Restart
<1>. QED
  BY <1>3, <1>4, <1>5, <1>6, <1>7, <1>8, <1>9

LEMMA SubscribeResponseStep ==
    ASSUME IInv, NEW t \in Thread, SubscribeResponse(t)
    PROVE  IInv'
<1>1. \/ thread[t].caller = "start" /\ Moved(t, "started", thread[t].chain, thread[t].caller)
      \/ thread[t].caller = "setChain" /\ Moved(t, "idle", thread[t].chain, thread[t].caller)
      \/ thread[t].caller = "restart" /\ Moved(t, "endRestart", thread[t].chain, thread[t].caller)
  BY GotoMoves DEF IInv, TypeOK, SubscribeResponse, Goto, Moved, PC, Thread, Callers, Observing, Restart, Subscribe, Observed
<1>2. /\ thread[t].pc = "response" /\ transport.started
      /\ transport' = [transport EXCEPT !.subs = @ \cup {<<"response", thread[t].chain>>}]
      /\ IF thread[t].caller = "start" THEN UNCHANGED mu ELSE mu = t /\ mu' = Nobody
      /\ UNCHANGED <<client, cancelled, raced, faults>>
  BY DEF SubscribeResponse, At, Lock, Unlock, Races, Fault, Subscribe, Observed, IInv, TypeOK, Thread, Callers
<1>. USE ClientAssumption DEF IInv, TypeOK, Moved, Thread
<1>3. TypeOK'
  BY <1>1, <1>2 DEF Topic
<1>4. MutexInv' /\ CallerInv'
  BY <1>1, <1>2, <1>3
  DEF MutexInv, CallerInv, Section, InRestart, Observing, Restart
<1>5. OneRestart' /\ FlagInv'
  BY <1>1, <1>2, <1>3
  DEF OneRestart, FlagInv, CallerInv, Section, InRestart, Observing, Restart
<1>6. OwnerInv' /\ SetChainInv'
  BY <1>1, <1>2, <1>3
  DEF OwnerInv, SetChainInv, MutexInv, CallerInv, FlagInv, OneRestart, Section,
      InRestart, Observing, Restart
<1>7. ChainInv' /\ SubsInv'
  BY <1>1, <1>2, <1>3
  DEF ChainInv, SubsInv, MutexInv, CallerInv, OneRestart, FlagInv, OwnerInv, Topic,
      Section, InRestart, Observing, Restart
<1>8. StoppedUnlessRaced'
  BY <1>1, <1>2, <1>3
  DEF StoppedUnlessRaced, MutexInv, CallerInv, FlagInv, OwnerInv, SetChainInv, Section,
      InRestart, Observing, Restart
<1>9. ObservesItsChain'
  BY <1>1, <1>2, <1>3
  DEF ObservesItsChain, SubsInv, ChainInv, MutexInv, CallerInv, FlagInv, OwnerInv,
      Topic, Section, InRestart, Observing, Restart
<1>. QED
  BY <1>3, <1>4, <1>5, <1>6, <1>7, <1>8, <1>9

LEMMA RefusedStep ==
    ASSUME IInv, NEW t \in Thread, Refused(t)
    PROVE  IInv'
<1>1. \/ thread[t].caller = "start" /\ Moved(t, "disconnect", thread[t].chain, thread[t].caller)
      \/ thread[t].caller = "setChain" /\ Moved(t, "idle", thread[t].chain, thread[t].caller)
      \/ thread[t].caller = "restart" /\ Moved(t, "endRestart", thread[t].chain, thread[t].caller)
  <2>1. thread[t].caller \in Callers
    BY DEF IInv, TypeOK
  <2>2. CASE thread[t].caller = "start"
    <3>1. Goto(t, "disconnect")
      BY <2>2 DEF Refused
    <3>. QED
      BY <2>2, <3>1, GotoMoves DEF IInv, PC
  <2>3. CASE thread[t].caller = "setChain"
    <3>1. Goto(t, "idle")
      BY <2>3 DEF Refused
    <3>. QED
      BY <2>3, <3>1, GotoMoves DEF IInv, PC
  <2>4. CASE thread[t].caller = "restart"
    <3>1. Goto(t, "endRestart")
      BY <2>4 DEF Refused
    <3>. QED
      BY <2>4, <3>1, GotoMoves DEF IInv, PC, Restart
  <2>. QED
    BY <2>1, <2>2, <2>3, <2>4 DEF Callers
<1>2. /\ thread[t].pc \in {"fees", "response"}
      /\ \/ transport.started /\ faults < MaxFaults /\ faults' = faults + 1
         \/ ~transport.started /\ UNCHANGED faults
      /\ IF thread[t].caller = "start" THEN UNCHANGED mu ELSE mu = t /\ mu' = Nobody
      /\ UNCHANGED <<client, transport, cancelled, raced>>
  BY DEF Refused, At, Lock, Unlock, Races, Fault, IInv, TypeOK, Thread, Callers
<1>. USE ClientAssumption DEF IInv, TypeOK, Moved, Thread
<1>3. TypeOK'
  BY <1>1, <1>2
<1>4. MutexInv' /\ CallerInv'
  BY <1>1, <1>2, <1>3
  DEF MutexInv, CallerInv, Section, InRestart, Observing, Restart
<1>5. OneRestart' /\ FlagInv'
  BY <1>1, <1>2, <1>3
  DEF OneRestart, FlagInv, CallerInv, Section, InRestart, Observing, Restart
<1>6. OwnerInv' /\ SetChainInv'
  BY <1>1, <1>2, <1>3
  DEF OwnerInv, SetChainInv, MutexInv, CallerInv, FlagInv, OneRestart, Section,
      InRestart, Observing, Restart
<1>7. ChainInv' /\ SubsInv'
  BY <1>1, <1>2, <1>3
  DEF ChainInv, SubsInv, MutexInv, CallerInv, OneRestart, FlagInv, OwnerInv, Topic,
      Section, InRestart, Observing, Restart
<1>8. StoppedUnlessRaced'
  BY <1>1, <1>2, <1>3
  DEF StoppedUnlessRaced, MutexInv, CallerInv, FlagInv, OwnerInv, SetChainInv, Section,
      InRestart, Observing, Restart
<1>9. ObservesItsChain'
  BY <1>1, <1>2, <1>3
  DEF ObservesItsChain, SubsInv, ChainInv, MutexInv, CallerInv, FlagInv, OwnerInv,
      Topic, Section, InRestart, Observing, Restart
<1>. QED
  BY <1>3, <1>4, <1>5, <1>6, <1>7, <1>8, <1>9

LEMMA TimerFiresStep ==
    ASSUME IInv, NEW p \in Thread, TimerFires(p)
    PROVE  IInv'
<1>1. Moved(p, "due", thread[p].chain, thread[p].caller)
  BY GotoMoves DEF IInv, TypeOK, TimerFires, Goto, Moved, PC, Thread, Callers, Observing, Restart
<1>2. /\ thread[p].pc = "wait"
      /\ UNCHANGED <<mu, client, transport, cancelled, raced, faults>>
  BY DEF TimerFires, At, Lock, Unlock, Races, Fault
<1>. USE ClientAssumption DEF IInv, TypeOK, Moved, Thread
<1>3. TypeOK'
  BY <1>1, <1>2
<1>4. MutexInv' /\ CallerInv'
  BY <1>1, <1>2, <1>3
  DEF MutexInv, CallerInv, Section, InRestart, Observing, Restart
<1>5. OneRestart' /\ FlagInv'
  BY <1>1, <1>2, <1>3
  DEF OneRestart, FlagInv, CallerInv, Section, InRestart, Observing, Restart
<1>6. OwnerInv' /\ SetChainInv'
  BY <1>1, <1>2, <1>3
  DEF OwnerInv, SetChainInv, MutexInv, CallerInv, FlagInv, OneRestart, Section,
      InRestart, Observing, Restart
<1>7. ChainInv' /\ SubsInv'
  BY <1>1, <1>2, <1>3
  DEF ChainInv, SubsInv, MutexInv, CallerInv, OneRestart, FlagInv, OwnerInv, Topic,
      Section, InRestart, Observing, Restart
<1>8. StoppedUnlessRaced'
  BY <1>1, <1>2, <1>3
  DEF StoppedUnlessRaced, MutexInv, CallerInv, FlagInv, OwnerInv, SetChainInv, Section,
      InRestart, Observing, Restart
<1>9. ObservesItsChain'
  BY <1>1, <1>2, <1>3
  DEF ObservesItsChain, SubsInv, ChainInv, MutexInv, CallerInv, FlagInv, OwnerInv,
      Topic, Section, InRestart, Observing, Restart
<1>. QED
  BY <1>3, <1>4, <1>5, <1>6, <1>7, <1>8, <1>9

LEMMA PollStep ==
    ASSUME IInv, NEW p \in Thread, Poll(p)
    PROVE  IInv'
<1>1. \/ Moved(p, "restart", thread[p].chain, thread[p].caller)
      \/ Moved(p, "wait", thread[p].chain, thread[p].caller)
  BY GotoMoves DEF IInv, TypeOK, Poll, Goto, Moved, PC, Thread, Callers, Observing, Restart
<1>2. /\ thread[p].pc = "due"
      /\ UNCHANGED <<mu, client, transport, cancelled, raced, faults>>
  BY DEF Poll, At, Lock, Unlock, Races, Fault
<1>. USE ClientAssumption DEF IInv, TypeOK, Moved, Thread
<1>3. TypeOK'
  BY <1>1, <1>2
<1>4. MutexInv' /\ CallerInv'
  BY <1>1, <1>2, <1>3
  DEF MutexInv, CallerInv, Section, InRestart, Observing, Restart
<1>5. OneRestart' /\ FlagInv'
  BY <1>1, <1>2, <1>3
  DEF OneRestart, FlagInv, CallerInv, Section, InRestart, Observing, Restart
<1>6. OwnerInv' /\ SetChainInv'
  BY <1>1, <1>2, <1>3
  DEF OwnerInv, SetChainInv, MutexInv, CallerInv, FlagInv, OneRestart, Section,
      InRestart, Observing, Restart
<1>7. ChainInv' /\ SubsInv'
  BY <1>1, <1>2, <1>3
  DEF ChainInv, SubsInv, MutexInv, CallerInv, OneRestart, FlagInv, OwnerInv, Topic,
      Section, InRestart, Observing, Restart
<1>8. StoppedUnlessRaced'
  BY <1>1, <1>2, <1>3
  DEF StoppedUnlessRaced, MutexInv, CallerInv, FlagInv, OwnerInv, SetChainInv, Section,
      InRestart, Observing, Restart
<1>9. ObservesItsChain'
  BY <1>1, <1>2, <1>3
  DEF ObservesItsChain, SubsInv, ChainInv, MutexInv, CallerInv, FlagInv, OwnerInv,
      Topic, Section, InRestart, Observing, Restart
<1>. QED
  BY <1>3, <1>4, <1>5, <1>6, <1>7, <1>8, <1>9

LEMMA PollerEndsStep ==
    ASSUME IInv, NEW p \in Thread, PollerEnds(p)
    PROVE  IInv'
<1>1. Moved(p, "none", thread[p].chain, thread[p].caller)
  BY GotoMoves DEF IInv, TypeOK, PollerEnds, Goto, Moved, PC, Thread, Callers, Observing, Restart
<1>2. /\ thread[p].pc = "wait"
      /\ cancelled' = cancelled \ {p}
      /\ UNCHANGED <<mu, client, transport, raced, faults>>
  BY DEF PollerEnds, At, Lock, Unlock, Races, Fault
<1>. USE ClientAssumption DEF IInv, TypeOK, Moved, Thread
<1>3. TypeOK'
  BY <1>1, <1>2
<1>4. MutexInv' /\ CallerInv'
  BY <1>1, <1>2, <1>3
  DEF MutexInv, CallerInv, Section, InRestart, Observing, Restart
<1>5. OneRestart' /\ FlagInv'
  BY <1>1, <1>2, <1>3
  DEF OneRestart, FlagInv, CallerInv, Section, InRestart, Observing, Restart
<1>6. OwnerInv' /\ SetChainInv'
  BY <1>1, <1>2, <1>3
  DEF OwnerInv, SetChainInv, MutexInv, CallerInv, FlagInv, OneRestart, Section,
      InRestart, Observing, Restart
<1>7. ChainInv' /\ SubsInv'
  BY <1>1, <1>2, <1>3
  DEF ChainInv, SubsInv, MutexInv, CallerInv, OneRestart, FlagInv, OwnerInv, Topic,
      Section, InRestart, Observing, Restart
<1>8. StoppedUnlessRaced'
  BY <1>1, <1>2, <1>3
  DEF StoppedUnlessRaced, MutexInv, CallerInv, FlagInv, OwnerInv, SetChainInv, Section,
      InRestart, Observing, Restart
<1>9. ObservesItsChain'
  BY <1>1, <1>2, <1>3
  DEF ObservesItsChain, SubsInv, ChainInv, MutexInv, CallerInv, FlagInv, OwnerInv,
      Topic, Section, InRestart, Observing, Restart
<1>. QED
  BY <1>3, <1>4, <1>5, <1>6, <1>7, <1>8, <1>9

LEMMA BeginRestartStep ==
    ASSUME IInv, NEW t \in Thread, BeginRestart(t)
    PROVE  IInv'
<1>1. \/ MayRestart /\ Moved(t, "stopTransport", client.chain, "restart")
      \/ ~MayRestart /\ Moved(t, Rest(t), thread[t].chain, thread[t].caller)
  BY GotoMoves DEF IInv, TypeOK, BeginRestart, Goto, Moved, PC, Thread, Callers, Observing, Restart, Rest
<1>2. /\ thread[t].pc = "restart" /\ mu = Nobody
      /\ IF MayRestart THEN client' = [client EXCEPT !.restarting = TRUE] ELSE UNCHANGED client
      /\ UNCHANGED <<mu, transport, cancelled, raced, faults>>
  BY DEF BeginRestart, At, Lock, Unlock, Races, Fault, Rest
<1>. USE ClientAssumption DEF IInv, TypeOK, Moved, Thread
<1>3. TypeOK'
  <2>1. client' \in [started : BOOLEAN, restarting : BOOLEAN, chain : Chain,
                     poller : Poller \cup {Nobody}]
    BY <1>2
  <2>2. thread' \in [Thread -> [pc : PC, chain : Chain, caller : Callers]]
    BY <1>1
  <2>. HIDE DEF Moved
  <2>. QED
    BY <1>2, <2>1, <2>2
<1>4. MutexInv' /\ CallerInv'
  BY <1>1, <1>2, <1>3
  DEF MutexInv, CallerInv, Rest, Section, InRestart, Observing, Restart
<1>5. OneRestart' /\ FlagInv'
  BY <1>1, <1>2, <1>3
  DEF OneRestart, FlagInv, CallerInv, MayRestart, Rest, Section, InRestart, Observing,
      Restart
<1>6. OwnerInv' /\ SetChainInv'
  BY <1>1, <1>2, <1>3
  DEF OwnerInv, SetChainInv, MutexInv, CallerInv, FlagInv, OneRestart, MayRestart,
      Rest, Section, InRestart, Observing, Restart
<1>7. ChainInv' /\ SubsInv'
  BY <1>1, <1>2, <1>3
  DEF ChainInv, SubsInv, MutexInv, CallerInv, OneRestart, FlagInv, OwnerInv,
      MayRestart, Rest, Topic, Section, InRestart, Observing, Restart
<1>8. StoppedUnlessRaced'
  BY <1>1, <1>2, <1>3
  DEF StoppedUnlessRaced, MutexInv, CallerInv, FlagInv, OwnerInv, SetChainInv,
      MayRestart, Section, InRestart, Observing, Restart
<1>9. ObservesItsChain'
  BY <1>1, <1>2, <1>3
  DEF ObservesItsChain, SubsInv, ChainInv, MutexInv, CallerInv, FlagInv, OwnerInv,
      MayRestart, Topic, Section, InRestart, Observing, Restart
<1>. QED
  BY <1>3, <1>4, <1>5, <1>6, <1>7, <1>8, <1>9

LEMMA StopTransportStep ==
    ASSUME IInv, NEW t \in Thread, StopTransport(t)
    PROVE  IInv'
<1>1. Moved(t, "startTransport", thread[t].chain, thread[t].caller)
  BY GotoMoves DEF IInv, TypeOK, StopTransport, Goto, Moved, PC, Thread, Callers, Observing, Restart
<1>2. /\ thread[t].pc = "stopTransport"
      /\ transport' = [started |-> FALSE, subs |-> {}]
      /\ UNCHANGED <<mu, client, cancelled, raced, faults>>
  BY DEF StopTransport, At, Lock, Unlock, Races, Fault
<1>. USE ClientAssumption DEF IInv, TypeOK, Moved, Thread
<1>3. TypeOK'
  BY <1>1, <1>2
<1>4. MutexInv' /\ CallerInv'
  BY <1>1, <1>2, <1>3
  DEF MutexInv, CallerInv, Section, InRestart, Observing, Restart
<1>5. OneRestart' /\ FlagInv'
  BY <1>1, <1>2, <1>3
  DEF OneRestart, FlagInv, CallerInv, Section, InRestart, Observing, Restart
<1>6. OwnerInv' /\ SetChainInv'
  BY <1>1, <1>2, <1>3
  DEF OwnerInv, SetChainInv, MutexInv, CallerInv, FlagInv, OneRestart, Section,
      InRestart, Observing, Restart
<1>7. ChainInv' /\ SubsInv'
  BY <1>1, <1>2, <1>3
  DEF ChainInv, SubsInv, MutexInv, CallerInv, OneRestart, FlagInv, OwnerInv, Topic,
      Section, InRestart, Observing, Restart
<1>8. StoppedUnlessRaced'
  BY <1>1, <1>2, <1>3
  DEF StoppedUnlessRaced, MutexInv, CallerInv, FlagInv, OwnerInv, SetChainInv, Section,
      InRestart, Observing, Restart
<1>9. ObservesItsChain'
  BY <1>1, <1>2, <1>3
  DEF ObservesItsChain, SubsInv, ChainInv, MutexInv, CallerInv, FlagInv, OwnerInv,
      Topic, Section, InRestart, Observing, Restart
<1>. QED
  BY <1>3, <1>4, <1>5, <1>6, <1>7, <1>8, <1>9

LEMMA StartTransportStep ==
    ASSUME IInv, NEW t \in Thread, StartTransport(t)
    PROVE  IInv'
<1>1. \/ Moved(t, "relock", thread[t].chain, thread[t].caller)
      \/ Moved(t, "endRestart", thread[t].chain, thread[t].caller)
  BY GotoMoves DEF IInv, TypeOK, StartTransport, Goto, Moved, PC, Thread, Callers, Observing, Restart
<1>2. /\ thread[t].pc = "startTransport"
      /\ \/ /\ transport' = [transport EXCEPT !.started = TRUE] /\ thread'[t].pc = "relock"
            /\ UNCHANGED faults
         \/ /\ ~transport.started /\ UNCHANGED transport /\ thread'[t].pc = "endRestart"
            /\ faults < MaxFaults /\ faults' = faults + 1
      /\ UNCHANGED <<mu, client, cancelled, raced>>
  BY DEF StartTransport, At, Lock, Unlock, Races, Fault, Goto, IInv, TypeOK, Thread
<1>. USE ClientAssumption DEF IInv, TypeOK, Moved, Thread
<1>3. TypeOK'
  <2>1. transport' \in [started : BOOLEAN, subs : SUBSET (Topic \X Chain)]
    BY <1>2
  <2>2. faults' \in 0..MaxFaults
    BY <1>2
  <2>3. thread' \in [Thread -> [pc : PC, chain : Chain, caller : Callers]]
    BY <1>1
  <2>. HIDE DEF Moved
  <2>. QED
    BY <1>2, <2>1, <2>2, <2>3
<1>4. MutexInv' /\ CallerInv'
  BY <1>1, <1>2, <1>3
  DEF MutexInv, CallerInv, Section, InRestart, Observing, Restart
<1>5. OneRestart' /\ FlagInv'
  BY <1>1, <1>2, <1>3
  DEF OneRestart, FlagInv, CallerInv, Section, InRestart, Observing, Restart
<1>6. OwnerInv' /\ SetChainInv'
  BY <1>1, <1>2, <1>3
  DEF OwnerInv, SetChainInv, MutexInv, CallerInv, FlagInv, OneRestart, Section,
      InRestart, Observing, Restart
<1>7. ChainInv' /\ SubsInv'
  BY <1>1, <1>2, <1>3
  DEF ChainInv, SubsInv, MutexInv, CallerInv, OneRestart, FlagInv, OwnerInv, Topic,
      Section, InRestart, Observing, Restart
<1>8. StoppedUnlessRaced'
  BY <1>1, <1>2, <1>3
  DEF StoppedUnlessRaced, MutexInv, CallerInv, FlagInv, OwnerInv, SetChainInv, Section,
      InRestart, Observing, Restart
<1>9. ObservesItsChain'
  BY <1>1, <1>2, <1>3
  DEF ObservesItsChain, SubsInv, ChainInv, MutexInv, CallerInv, FlagInv, OwnerInv,
      Topic, Section, InRestart, Observing, Restart
<1>. QED
  BY <1>3, <1>4, <1>5, <1>6, <1>7, <1>8, <1>9

LEMMA RelockStep ==
    ASSUME IInv, NEW t \in Thread, Relock(t)
    PROVE  IInv'
<1>1. Moved(t, "unsubscribe", thread[t].chain, thread[t].caller)
  BY GotoMoves DEF IInv, TypeOK, Relock, Goto, Moved, PC, Thread, Callers, Observing, Restart
<1>2. /\ thread[t].pc = "relock"
      /\ mu = Nobody /\ mu' = t
      /\ UNCHANGED <<client, transport, cancelled, raced, faults>>
  BY DEF Relock, At, Lock, Unlock, Races, Fault
<1>. USE ClientAssumption DEF IInv, TypeOK, Moved, Thread
<1>3. TypeOK'
  BY <1>1, <1>2
<1>4. MutexInv' /\ CallerInv'
  BY <1>1, <1>2, <1>3
  DEF MutexInv, CallerInv, Section, InRestart, Observing, Restart
<1>5. OneRestart' /\ FlagInv'
  BY <1>1, <1>2, <1>3
  DEF OneRestart, FlagInv, CallerInv, Section, InRestart, Observing, Restart
<1>6. OwnerInv' /\ SetChainInv'
  BY <1>1, <1>2, <1>3
  DEF OwnerInv, SetChainInv, MutexInv, CallerInv, FlagInv, OneRestart, Section,
      InRestart, Observing, Restart
<1>7. ChainInv' /\ SubsInv'
  BY <1>1, <1>2, <1>3
  DEF ChainInv, SubsInv, MutexInv, CallerInv, OneRestart, FlagInv, OwnerInv, Topic,
      Section, InRestart, Observing, Restart
<1>8. StoppedUnlessRaced'
  BY <1>1, <1>2, <1>3
  DEF StoppedUnlessRaced, MutexInv, CallerInv, FlagInv, OwnerInv, SetChainInv, Section,
      InRestart, Observing, Restart
<1>9. ObservesItsChain'
  BY <1>1, <1>2, <1>3
  DEF ObservesItsChain, SubsInv, ChainInv, MutexInv, CallerInv, FlagInv, OwnerInv,
      Topic, Section, InRestart, Observing, Restart
<1>. QED
  BY <1>3, <1>4, <1>5, <1>6, <1>7, <1>8, <1>9

LEMMA EndRestartStep ==
    ASSUME IInv, NEW t \in Thread, EndRestart(t)
    PROVE  IInv'
<1>1. Moved(t, Rest(t), thread[t].chain, thread[t].caller)
  <2>1. Rest(t) \in PC
    BY DEF Rest, PC
  <2>. QED
    BY <2>1, GotoMoves DEF IInv, EndRestart
<1>2. /\ thread[t].pc = "endRestart" /\ mu = Nobody
      /\ client' = [client EXCEPT !.restarting = FALSE]
      /\ UNCHANGED <<mu, transport, cancelled, raced, faults>>
  BY DEF EndRestart, At, Lock, Unlock, Races, Fault, Rest
<1>. USE ClientAssumption DEF IInv, TypeOK, Moved, Thread
<1>3. TypeOK'
  BY <1>1, <1>2
<1>4. MutexInv' /\ CallerInv'
  BY <1>1, <1>2, <1>3
  DEF MutexInv, CallerInv, Rest, Section, InRestart, Observing, Restart
<1>5. OneRestart' /\ FlagInv'
  BY <1>1, <1>2, <1>3
  DEF OneRestart, FlagInv, CallerInv, Rest, Section, InRestart, Observing, Restart
<1>6. OwnerInv' /\ SetChainInv'
  BY <1>1, <1>2, <1>3
  DEF OwnerInv, SetChainInv, MutexInv, CallerInv, FlagInv, OneRestart, Rest, Section,
      InRestart, Observing, Restart
<1>7. ChainInv' /\ SubsInv'
  BY <1>1, <1>2, <1>3
  DEF ChainInv, SubsInv, MutexInv, CallerInv, OneRestart, FlagInv, OwnerInv, Rest,
      Topic, Section, InRestart, Observing, Restart
<1>8. StoppedUnlessRaced'
  BY <1>1, <1>2, <1>3
  DEF StoppedUnlessRaced, MutexInv, CallerInv, FlagInv, OwnerInv, SetChainInv, Section,
      InRestart, Observing, Restart
<1>9. ObservesItsChain'
  BY <1>1, <1>2, <1>3
  DEF ObservesItsChain, SubsInv, ChainInv, MutexInv, CallerInv, FlagInv, OwnerInv,
      Topic, Section, InRestart, Observing, Restart
<1>. QED
  BY <1>3, <1>4, <1>5, <1>6, <1>7, <1>8, <1>9


LEMMA StartedStep ==
    ASSUME IInv, NEW t \in Thread, Started(t)
    PROVE  IInv'
<1>1. PICK p \in Poller : /\ thread[p].pc = "none"
                          /\ client' = [client EXCEPT !.started = TRUE, !.poller = p]
                          /\ thread' = [thread EXCEPT ![t].pc = "idle", ![p].pc = "wait"]
  BY DEF Started, At
<1>2. /\ thread[t].pc = "started"
      /\ mu = t /\ mu' = Nobody
      /\ UNCHANGED <<transport, cancelled, raced, faults>>
  BY DEF Started, At, Unlock
<1>3. /\ thread' \in [Thread -> [pc : PC, chain : Chain, caller : Callers]]
      /\ thread'[t].pc = "idle" /\ thread'[p].pc = "wait"
      /\ thread'[t].chain = thread[t].chain /\ thread'[t].caller = thread[t].caller
      /\ \A u \in Thread \ {t, p} : thread'[u] = thread[u]
  BY <1>1, <1>2 DEF IInv, TypeOK, PC, Thread
<1>4. client' \in [started : BOOLEAN, restarting : BOOLEAN, chain : Chain,
                   poller : Poller \cup {Nobody}]
  BY <1>1 DEF IInv, TypeOK
<1>. USE ClientAssumption DEF IInv, TypeOK, Thread
<1>5. TypeOK'
  BY <1>2, <1>3, <1>4
<1>6. MutexInv' /\ CallerInv'
  BY <1>2, <1>3 DEF MutexInv, CallerInv, Section, Observing, Restart
<1>7. OneRestart' /\ FlagInv'
  <2>1. client'.restarting = client.restarting /\ \A u \in Thread : InRestart(u)' => InRestart(u)
    BY <1>1, <1>2, <1>3 DEF InRestart, Observing, Restart
  <2>2. FlagInv'
    BY <2>1 DEF FlagInv
  <2>3. OneRestart'
    BY <1>1, <1>2, <1>3 DEF OneRestart, Observing, Restart
  <2>. QED
    BY <2>2, <2>3
<1>8. OwnerInv' /\ SetChainInv'
  BY <1>1, <1>2, <1>3 DEF OwnerInv, SetChainInv, Section, InRestart, Observing, Restart
<1>9. ChainInv' /\ SubsInv'
  BY <1>1, <1>2, <1>3 DEF ChainInv, SubsInv, Restart
<1>10. StoppedUnlessRaced' /\ ObservesItsChain'
  BY <1>1, <1>2, <1>3 DEF StoppedUnlessRaced, ObservesItsChain, ChainInv, SubsInv
<1>. QED
  BY <1>5, <1>6, <1>7, <1>8, <1>9, <1>10

-----------------------------------------------------------------------------
(* The theorems. *)

LEMMA NextIInv == IInv /\ [Next]_vars => IInv'
<1>. SUFFICES ASSUME IInv, [Next]_vars PROVE IInv'
  OBVIOUS
<1>1. CASE UNCHANGED vars
  BY <1>1 DEF vars, IInv, TypeOK, MutexInv, CallerInv, OneRestart, FlagInv, OwnerInv,
      SetChainInv, ChainInv, SubsInv, StoppedUnlessRaced, ObservesItsChain, InRestart
<1>2. ASSUME NEW t \in App, Call(t) PROVE IInv'
  BY <1>2, StartStep, SetChainStep, StopStep, TryReconnectStep DEF Call
<1>3. ASSUME NEW t \in Thread, Step(t) PROVE IInv'
  BY <1>3, ConnectStep, DisconnectStep, StartedStep, StoppedStep, UnsubscribeStep,
     SubscribeFeesStep, SubscribeResponseStep, RefusedStep, TimerFiresStep, PollStep,
     PollerEndsStep, BeginRestartStep, StopTransportStep, StartTransportStep, RelockStep,
     EndRestartStep DEF Step
<1>. QED
  BY <1>1, <1>2, <1>3 DEF Next

\* In every state, the flag or the mutex says who may touch the transport (restart,
\* Start, Stop, SetChain).
THEOREM Inductive == Spec => []IInv
  BY InitIInv, NextIInv, PTL DEF Spec

\* At most one goroutine restarts the client at a time (restart).
THEOREM OneRestartHolds == Spec => []OneRestart
<1>1. IInv => OneRestart
  BY DEF IInv
<1>. QED
  BY <1>1, Inductive, PTL

\* A client that is stopped holds no connection, unless a restart was raced (Stop).
THEOREM StoppedHolds == Spec => []StoppedUnlessRaced
<1>1. IInv => StoppedUnlessRaced
  BY DEF IInv
<1>. QED
  BY <1>1, Inductive, PTL

\* A connected client observes its chain and no other (setObserversLocked).
THEOREM ObservesItsChainHolds == Spec => []ObservesItsChain
<1>1. IInv => ObservesItsChain
  BY DEF IInv
<1>. QED
  BY <1>1, Inductive, PTL

-----------------------------------------------------------------------------
(* BroadcasterSend: the inductive invariant. *)

Active(t) == tx[t].pc \notin {"new", "done"}

\* One transaction at a time, which has the key, and for which the answer in the
\* store and those being handled are.
OneInv ==
    ~mixed =>
        /\ key # None => Active(key)
        /\ \A t \in Tx : Active(t) =>
              /\ \A u \in Tx : Active(u) => u = t
              /\ response # None => response.of = t
              /\ \A h \in Handler \cup Tx : handling[h].key \in {None, t}

\* Every answer there is was sent, and a hash was given for a mined transaction.
AnswerInv ==
    /\ \A t \in Tx : tx[t].todo \subseteq answers
    /\ \A h \in Handler \cup Tx : handling[h].answer \in answers \cup {None}
    /\ response \in answers \cup {None}
    /\ \A answer \in answers : answer.says = "hash" => answer.of \in mined

\* What a Send that waits has is nothing, and what it returns is its own.
ResultInv ==
    \A t \in Tx :
        /\ tx[t].pc \notin {"clear", "done"} => tx[t].of = t /\ tx[t].result = "none"
        /\ tx[t].result = "hash" => tx[t].of \in mined
        /\ ~mixed /\ tx[t].result \in {"hash", "error"} => tx[t].of = t

\* A round that goes on is not the last one.
RoundInv == \A t \in Tx : tx[t].pc \in {"query", "poll"} => tx[t].round < LastRound

SendInv == SendTypeOK /\ RoundInv /\ OneInv /\ AnswerInv /\ ResultInv

\* A Send that has moved, with the answers it still has to handle, and what it
\* returns.
SendMoved(t, pc, round, todo, result, of) ==
    /\ tx' \in [Tx -> [pc : SendPC, round : Nat, todo : SUBSET Answer, result : Results, of : Tx]]
    /\ tx'[t].pc = pc /\ tx'[t].round = round /\ tx'[t].todo = todo
    /\ tx'[t].result = result /\ tx'[t].of = of
    /\ \A u \in Tx \ {t} : tx'[u] = tx[u]

-----------------------------------------------------------------------------
(* The initial states, and the steps one by one. *)

LEMMA SendInitInv == SendInit => SendInv
<1>. SUFFICES ASSUME SendInit PROVE SendInv
  OBVIOUS
<1>1. tx \in [Tx -> [pc : SendPC, round : 0..LastRound, todo : SUBSET Answer,
                  result : Results, of : Tx]]
  BY SendAssumption DEF SendInit, SendPC, Results
<1>2. handling \in [Handler \cup Tx -> [answer : Answer \cup {None}, key : Tx \cup {None}]]
  BY DEF SendInit, Idle
<1>3. SendTypeOK
  BY <1>1, <1>2 DEF SendInit, SendTypeOK
<1>. QED
  BY <1>3 DEF SendInit, SendInv, RoundInv, OneInv, AnswerInv, ResultInv, Active, Idle

LEMMA CreateStep ==
    ASSUME SendInv, NEW t \in Tx, Create(t)
    PROVE  SendInv'
<1>1. SendMoved(t, "created", tx[t].round, tx[t].todo, tx[t].result, tx[t].of)
  BY SendAssumption DEF SendInv, SendTypeOK, Create, SendMoved, SendPC, Results
<1>2. /\ tx[t].pc = "new"
      /\ key' = t /\ response' = None
      /\ mixed' = (mixed \/ InUse(t))
      /\ UNCHANGED <<handling, requests, mined, answers>>
  BY DEF Create, SendAt, network, SetSharedKey
<1>. USE SendAssumption DEF SendInv, SendTypeOK, SendMoved
<1>3. SendTypeOK'
  BY <1>1, <1>2
<1>4. RoundInv'
  BY <1>1, <1>2 DEF RoundInv
<1>5. OneInv'
  <2>. SUFFICES ASSUME ~mixed' PROVE OneInv'
    BY DEF OneInv
  <2>1. /\ \A u \in Tx \ {t} : tx[u].pc \in {"new", "done"}
        /\ \A h \in Handler \cup Tx : handling[h].key = None
    BY <1>2 DEF InUse
  <2>2. \A u \in Tx : Active(u)' => u = t
    BY <1>1, <2>1 DEF Active
  <2>3. Active(t)'
    BY <1>1 DEF Active
  <2>. QED
    BY <1>2, <2>1, <2>2, <2>3 DEF OneInv, Active
<1>6. AnswerInv'
  BY <1>1, <1>2 DEF AnswerInv
<1>7. ResultInv'
  BY <1>1, <1>2 DEF ResultInv
<1>. QED
  BY <1>3, <1>4, <1>5, <1>6, <1>7

LEMMA SendCallStep ==
    ASSUME SendInv, NEW t \in Tx, Send(t)
    PROVE  SendInv'
<1>1. SendMoved(t, "publish", tx[t].round, tx[t].todo, tx[t].result, tx[t].of)
  BY SendAssumption DEF SendInv, SendTypeOK, Send, SendMoved, SendPC, Results
<1>2. /\ tx[t].pc = "created"
      /\ UNCHANGED <<key, response, handling, requests, mined, answers, mixed>>
  BY DEF Send, SendAt, network
<1>. USE SendAssumption DEF SendInv, SendTypeOK, SendMoved
<1>3. SendTypeOK'
  BY <1>1, <1>2
<1>4. RoundInv'
  BY <1>1, <1>2 DEF RoundInv
<1>5. OneInv'
  BY <1>1, <1>2 DEF OneInv, Active
<1>6. AnswerInv'
  BY <1>1, <1>2 DEF AnswerInv
<1>7. ResultInv'
  BY <1>1, <1>2 DEF ResultInv
<1>. QED
  BY <1>3, <1>4, <1>5, <1>6, <1>7

LEMMA PublishStep ==
    ASSUME SendInv, NEW t \in Tx, Publish(t)
    PROVE  SendInv'
<1>1. \E found \in SUBSET answers :
        SendMoved(t, "query", tx[t].round, found, tx[t].result, tx[t].of)
  BY SendAssumption DEF SendInv, SendTypeOK, Publish, SendMoved, SendPC, Results, Queries
<1>2. /\ tx[t].pc = "publish" /\ tx[t].round < LastRound
      /\ requests' \in {requests, requests \cup {t}}
      /\ UNCHANGED <<key, response, handling, mined, answers, mixed>>
  <2>1. tx[t].round <= LastPublish \/ tx[t].round < LastRound
    BY SendAssumption DEF Publish, Retry, SendInv, SendTypeOK
  <2>2. tx[t].round < LastRound
    BY <2>1, SendAssumption DEF SendInv, SendTypeOK
  <2>. QED
    BY <2>2 DEF Publish, SendAt, network
<1>. USE SendAssumption DEF SendInv, SendTypeOK, SendMoved
<1>3. SendTypeOK'
  BY <1>1, <1>2
<1>4. RoundInv'
  BY <1>1, <1>2 DEF RoundInv
<1>5. OneInv'
  BY <1>1, <1>2 DEF OneInv, Active
<1>6. AnswerInv'
  BY <1>1, <1>2 DEF AnswerInv
<1>7. ResultInv'
  BY <1>1, <1>2 DEF ResultInv
<1>. QED
  BY <1>3, <1>4, <1>5, <1>6, <1>7

LEMMA TimesOutStep ==
    ASSUME SendInv, NEW t \in Tx, TimesOut(t)
    PROVE  SendInv'
<1>1. SendMoved(t, "done", tx[t].round, tx[t].todo, "timeout", tx[t].of)
  BY SendAssumption DEF SendInv, SendTypeOK, TimesOut, SendMoved, SendPC, Results, Ends
<1>2. /\ tx[t].pc = "publish"
      /\ key' = None /\ response' = None
      /\ UNCHANGED <<handling, requests, mined, answers, mixed>>
  BY DEF TimesOut, SendAt, network, Clear
<1>. USE SendAssumption DEF SendInv, SendTypeOK, SendMoved
<1>3. SendTypeOK'
  BY <1>1, <1>2
<1>4. RoundInv'
  BY <1>1, <1>2 DEF RoundInv
<1>5. OneInv'
  BY <1>1, <1>2 DEF OneInv, Active
<1>6. AnswerInv'
  BY <1>1, <1>2 DEF AnswerInv
<1>7. ResultInv'
  BY <1>1, <1>2 DEF ResultInv
<1>. QED
  BY <1>3, <1>4, <1>5, <1>6, <1>7

LEMMA QueryStoreStep ==
    ASSUME SendInv, NEW t \in Tx, QueryStore(t)
    PROVE  SendInv'
<1>1. \E answer \in tx[t].todo :
        SendMoved(t, "query", tx[t].round, tx[t].todo \ {answer}, tx[t].result, tx[t].of)
  BY SendAssumption DEF SendInv, SendTypeOK, QueryStore, SendMoved, SendPC, Results, Queries
<1>2. /\ tx[t].pc = "query"
      /\ \/ UNCHANGED handling
         \/ \E answer \in tx[t].todo :
               handling' = [handling EXCEPT ![t] = [answer |-> answer, key |-> key]]
      /\ UNCHANGED <<key, response, requests, mined, answers, mixed>>
  BY DEF QueryStore, SendAt, network, ReadKey
<1>. USE SendAssumption DEF SendInv, SendTypeOK, SendMoved
<1>3. SendTypeOK'
  BY <1>1, <1>2
<1>4. RoundInv'
  BY <1>1, <1>2 DEF RoundInv
<1>5. OneInv'
  <2>1. \A u \in Tx : Active(u)' <=> Active(u)
    BY <1>1, <1>2 DEF Active
  <2>2. \A h \in Handler \cup Tx : handling'[h].key \in {handling[h].key, key}
    <3>1. CASE UNCHANGED handling
      BY <3>1
    <3>2. ASSUME NEW answer \in tx[t].todo,
                 handling' = [handling EXCEPT ![t] = [answer |-> answer, key |-> key]]
          PROVE  \A h \in Handler \cup Tx : handling'[h].key \in {handling[h].key, key}
      BY <3>2
    <3>. QED
      BY <1>2, <3>1, <3>2
  <2>3. SUFFICES ASSUME ~mixed PROVE OneInv'
    BY <1>2 DEF OneInv
  <2>4. key # None => Active(key)
    BY <2>3 DEF OneInv
  <2>5. \A u \in Tx : Active(u) => key \in {None, u}
    BY <2>3, <2>4 DEF OneInv
  <2>. QED
    BY <1>2, <2>1, <2>2, <2>3, <2>4, <2>5 DEF OneInv
<1>6. AnswerInv'
  <2>1. tx[t].todo \subseteq answers
    BY DEF AnswerInv
  <2>2. \A h \in Handler \cup Tx : handling'[h].answer \in answers \cup {None}
    <3>1. CASE UNCHANGED handling
      BY <3>1 DEF AnswerInv
    <3>2. ASSUME NEW answer \in tx[t].todo,
                 handling' = [handling EXCEPT ![t] = [answer |-> answer, key |-> key]]
          PROVE  \A h \in Handler \cup Tx : handling'[h].answer \in answers \cup {None}
      BY <2>1, <3>2 DEF AnswerInv
    <3>. QED
      BY <1>2, <3>1, <3>2
  <2>3. \A u \in Tx : tx'[u].todo \subseteq answers
    BY <1>1, <2>1 DEF AnswerInv
  <2>. QED
    BY <1>2, <2>2, <2>3 DEF AnswerInv
<1>7. ResultInv'
  BY <1>1, <1>2 DEF ResultInv
<1>. QED
  BY <1>3, <1>4, <1>5, <1>6, <1>7

LEMMA EndQueryStep ==
    ASSUME SendInv, NEW t \in Tx, EndQuery(t)
    PROVE  SendInv'
<1>1. SendMoved(t, "poll", tx[t].round, tx[t].todo, tx[t].result, tx[t].of)
  BY SendAssumption DEF SendInv, SendTypeOK, EndQuery, SendMoved, SendPC, Results
<1>2. /\ tx[t].pc = "query"
      /\ UNCHANGED <<key, response, handling, requests, mined, answers, mixed>>
  BY DEF EndQuery, SendAt, network
<1>. USE SendAssumption DEF SendInv, SendTypeOK, SendMoved
<1>3. SendTypeOK'
  BY <1>1, <1>2
<1>4. RoundInv'
  BY <1>1, <1>2 DEF RoundInv
<1>5. OneInv'
  BY <1>1, <1>2 DEF OneInv, Active
<1>6. AnswerInv'
  BY <1>1, <1>2 DEF AnswerInv
<1>7. ResultInv'
  BY <1>1, <1>2 DEF ResultInv
<1>. QED
  BY <1>3, <1>4, <1>5, <1>6, <1>7

LEMMA TakeResponseStep ==
    ASSUME SendInv, NEW t \in Tx, TakeResponse(t)
    PROVE  SendInv'
<1>1. SendMoved(t, "clear", tx[t].round, tx[t].todo, response.says, response.of)
  BY SendAssumption DEF SendInv, SendTypeOK, TakeResponse, SendMoved, SendPC, Results, Answer, Ends
<1>2. /\ tx[t].pc = "poll" /\ response # None
      /\ UNCHANGED <<key, response, handling, requests, mined, answers, mixed>>
  BY DEF TakeResponse, SendAt, network
<1>. USE SendAssumption DEF SendInv, SendTypeOK, SendMoved
<1>3. SendTypeOK'
  BY <1>1, <1>2
<1>4. RoundInv'
  BY <1>1, <1>2 DEF RoundInv
<1>5. OneInv'
  BY <1>1, <1>2 DEF OneInv, Active
<1>6. AnswerInv'
  BY <1>1, <1>2 DEF AnswerInv
<1>7. ResultInv'
  <2>1. response \in answers /\ (response.says = "hash" => response.of \in mined)
    BY <1>2 DEF AnswerInv
  <2>2. ~mixed => response.of = t
    BY <1>2 DEF OneInv, Active
  <2>. QED
    BY <1>1, <1>2, <2>1, <2>2 DEF ResultInv
<1>. QED
  BY <1>3, <1>4, <1>5, <1>6, <1>7

LEMMA LookupStep ==
    ASSUME SendInv, NEW t \in Tx, Lookup(t)
    PROVE  SendInv'
<1>1. SendMoved(t, "clear", tx[t].round, tx[t].todo, "hash", tx[t].of)
  BY SendAssumption DEF SendInv, SendTypeOK, Lookup, SendMoved, SendPC, Results, Ends
<1>2. /\ tx[t].pc = "poll" /\ t \in mined
      /\ UNCHANGED <<key, response, handling, requests, mined, answers, mixed>>
  BY DEF Lookup, SendAt, network
<1>. USE SendAssumption DEF SendInv, SendTypeOK, SendMoved
<1>3. SendTypeOK'
  BY <1>1, <1>2
<1>4. RoundInv'
  BY <1>1, <1>2 DEF RoundInv
<1>5. OneInv'
  <2>1. \A u \in Tx : Active(u)' = Active(u)
    BY <1>1, <1>2 DEF Active
  <2>2. OneInv /\ key \in Tx \cup {None}
    OBVIOUS
  <2>. QED
    BY ONLY <1>2, <2>1, <2>2 DEF OneInv
<1>6. AnswerInv'
  BY <1>1, <1>2 DEF AnswerInv
<1>7. ResultInv'
  BY <1>1, <1>2 DEF ResultInv
<1>. QED
  BY <1>3, <1>4, <1>5, <1>6, <1>7

LEMMA CancelledStep ==
    ASSUME SendInv, NEW t \in Tx, Cancelled(t)
    PROVE  SendInv'
<1>1. SendMoved(t, "clear", tx[t].round, tx[t].todo, "cancelled", tx[t].of)
  BY SendAssumption DEF SendInv, SendTypeOK, Cancelled, SendMoved, SendPC, Results, Ends
<1>2. /\ tx[t].pc = "poll"
      /\ UNCHANGED <<key, response, handling, requests, mined, answers, mixed>>
  BY DEF Cancelled, SendAt, network
<1>. USE SendAssumption DEF SendInv, SendTypeOK, SendMoved
<1>3. SendTypeOK'
  BY <1>1, <1>2
<1>4. RoundInv'
  BY <1>1, <1>2 DEF RoundInv
<1>5. OneInv'
  BY <1>1, <1>2 DEF OneInv, Active
<1>6. AnswerInv'
  BY <1>1, <1>2 DEF AnswerInv
<1>7. ResultInv'
  BY <1>1, <1>2 DEF ResultInv
<1>. QED
  BY <1>3, <1>4, <1>5, <1>6, <1>7

LEMMA ReturnStep ==
    ASSUME SendInv, NEW t \in Tx, Return(t)
    PROVE  SendInv'
<1>1. SendMoved(t, "done", tx[t].round, tx[t].todo, tx[t].result, tx[t].of)
  BY SendAssumption DEF SendInv, SendTypeOK, Return, SendMoved, SendPC, Results
<1>2. /\ tx[t].pc = "clear"
      /\ key' = None /\ response' = None
      /\ UNCHANGED <<handling, requests, mined, answers, mixed>>
  BY DEF Return, SendAt, network, Clear
<1>. USE SendAssumption DEF SendInv, SendTypeOK, SendMoved
<1>3. SendTypeOK'
  BY <1>1, <1>2
<1>4. RoundInv'
  BY <1>1, <1>2 DEF RoundInv
<1>5. OneInv'
  BY <1>1, <1>2 DEF OneInv, Active
<1>6. AnswerInv'
  BY <1>1, <1>2 DEF AnswerInv
<1>7. ResultInv'
  BY <1>1, <1>2 DEF ResultInv
<1>. QED
  BY <1>3, <1>4, <1>5, <1>6, <1>7

LEMMA NextRoundStep ==
    ASSUME SendInv, NEW t \in Tx, NextRound(t)
    PROVE  SendInv'
<1>1. SendMoved(t, "publish", tx[t].round + 1, tx[t].todo, tx[t].result, tx[t].of)
  BY SendAssumption DEF SendInv, SendTypeOK, NextRound, SendMoved, SendPC, Results
<1>2. /\ tx[t].pc = "poll"
      /\ UNCHANGED <<key, response, handling, requests, mined, answers, mixed>>
  BY DEF NextRound, SendAt, network
<1>. USE SendAssumption DEF SendInv, SendTypeOK, SendMoved
<1>3. SendTypeOK'
  BY <1>1, <1>2 DEF RoundInv
<1>4. RoundInv'
  BY <1>1, <1>2 DEF RoundInv
<1>5. OneInv'
  <2>1. \A u \in Tx : Active(u)' = Active(u)
    BY <1>1, <1>2 DEF Active
  <2>2. OneInv /\ key \in Tx \cup {None}
    OBVIOUS
  <2>. QED
    BY ONLY <1>2, <2>1, <2>2 DEF OneInv
<1>6. AnswerInv'
  BY <1>1, <1>2 DEF AnswerInv
<1>7. ResultInv'
  BY <1>1, <1>2 DEF ResultInv
<1>. QED
  BY <1>3, <1>4, <1>5, <1>6, <1>7

LEMMA MineTxStep ==
    ASSUME SendInv, NEW t \in Tx, MineTx(t)
    PROVE  SendInv'
<1>1. /\ t \in requests /\ mined' = mined \cup {t}
      /\ UNCHANGED <<key, response, tx, handling, requests, answers, mixed>>
  BY DEF MineTx, SendAt, network
<1>. USE SendAssumption DEF SendInv, SendTypeOK, SendMoved
<1>2. SendTypeOK'
  BY <1>1
<1>3. RoundInv'
  BY <1>1 DEF RoundInv
<1>4. OneInv'
  BY <1>1 DEF OneInv, Active
<1>5. AnswerInv'
  BY <1>1 DEF AnswerInv
<1>6. ResultInv'
  BY <1>1 DEF ResultInv
<1>. QED
  BY <1>2, <1>3, <1>4, <1>5, <1>6

LEMMA SendAnswerStep ==
    ASSUME SendInv, NEW t \in Tx, SendAnswer(t)
    PROVE  SendInv'
<1>1. /\ \E says \in {"hash", "error", "nothing"} :
            (says = "hash" => t \in mined) /\ answers' = answers \cup {[of |-> t, says |-> says]}
      /\ UNCHANGED <<key, response, tx, handling, requests, mined, mixed>>
  BY DEF SendAnswer, SendAt, network
<1>. USE SendAssumption DEF SendInv, SendTypeOK, SendMoved
<1>2. SendTypeOK'
  BY <1>1 DEF Answer
<1>3. RoundInv'
  BY <1>1 DEF RoundInv
<1>4. OneInv'
  BY <1>1 DEF OneInv, Active
<1>5. AnswerInv'
  BY <1>1 DEF AnswerInv
<1>6. ResultInv'
  BY <1>1 DEF ResultInv
<1>. QED
  BY <1>2, <1>3, <1>4, <1>5, <1>6

LEMMA DeliverStep ==
    ASSUME SendInv, NEW h \in Handler \cup Tx, Deliver(h)
    PROVE  SendInv'
<1>1. /\ \E answer \in answers :
            handling' = [handling EXCEPT ![h] = [answer |-> answer, key |-> key]]
      /\ UNCHANGED <<key, response, tx, requests, mined, answers, mixed>>
  BY DEF Deliver, SendAt, network, ReadKey
<1>. USE SendAssumption DEF SendInv, SendTypeOK, SendMoved
<1>2. SendTypeOK'
  BY <1>1
<1>3. RoundInv'
  BY <1>1 DEF RoundInv
<1>4. OneInv'
  BY <1>1 DEF OneInv, Active
<1>5. AnswerInv'
  BY <1>1 DEF AnswerInv
<1>6. ResultInv'
  BY <1>1 DEF ResultInv
<1>. QED
  BY <1>2, <1>3, <1>4, <1>5, <1>6

LEMMA StoreResponseStep ==
    ASSUME SendInv, NEW h \in Handler \cup Tx, StoreResponse(h)
    PROVE  SendInv'
<1>1. /\ handling[h].key # None
      /\ response' = IF handling[h].key = handling[h].answer.of THEN handling[h].answer ELSE response
      /\ handling' = [handling EXCEPT ![h] = [answer |-> None, key |-> None]]
      /\ UNCHANGED <<key, tx, requests, mined, answers, mixed>>
  BY DEF StoreResponse, SendAt, network, Decrypts, Idle
<1>. USE SendAssumption DEF SendInv, SendTypeOK, SendMoved
<1>2. SendTypeOK'
  BY <1>1
<1>3. RoundInv'
  BY <1>1 DEF RoundInv
<1>4. OneInv'
  BY <1>1 DEF OneInv, Active
<1>5. AnswerInv'
  BY <1>1 DEF AnswerInv
<1>6. ResultInv'
  BY <1>1 DEF ResultInv
<1>. QED
  BY <1>2, <1>3, <1>4, <1>5, <1>6

-----------------------------------------------------------------------------
(* The theorems. *)

LEMMA SendNextInv == SendInv /\ [SendNext]_sendVars => SendInv'
<1>. SUFFICES ASSUME SendInv, [SendNext]_sendVars PROVE SendInv'
  OBVIOUS
<1>1. CASE UNCHANGED sendVars
  BY <1>1 DEF sendVars, SendInv, SendTypeOK, RoundInv, OneInv, AnswerInv, ResultInv, Active
<1>2. ASSUME NEW t \in Tx, SendStep(t) PROVE SendInv'
  BY <1>2, PublishStep, TimesOutStep, QueryStoreStep, StoreResponseStep, EndQueryStep,
     TakeResponseStep, LookupStep, ReturnStep, NextRoundStep DEF SendStep
<1>3. ASSUME NEW t \in Tx, Create(t) \/ Send(t) \/ Cancelled(t) \/ MineTx(t) \/ SendAnswer(t)
      PROVE  SendInv'
  BY <1>3, CreateStep, SendCallStep, CancelledStep, MineTxStep, SendAnswerStep
<1>4. ASSUME NEW h \in Handler, Deliver(h) \/ StoreResponse(h) PROVE SendInv'
  BY <1>4, DeliverStep, StoreResponseStep
<1>. QED
  BY <1>1, <1>2, <1>3, <1>4 DEF SendNext

\* In every state, the key and the answer in the store are those of the one
\* transaction that is sent, unless two were (TransactResponseStore).
THEOREM SendInductive == SendSpec => []SendInv
  BY SendInitInv, SendNextInv, PTL DEF SendSpec

\* What Send returns is about its own transaction, and its hash is on the chain,
\* unless a key was replaced in use (Transaction.broadcast).
THEOREM OwnAnswerHolds == SendSpec => []OwnAnswerUnlessMixed
<1>1. SendInv => OwnAnswerUnlessMixed
  BY DEF SendInv, SendTypeOK, ResultInv, OneInv, Active, OwnAnswerUnlessMixed
<1>. QED
  BY <1>1, SendInductive, PTL

-----------------------------------------------------------------------------
(* BroadcasterFees: the inductive invariant. *)

\* Quotes are numbered in the order in which they are published.
NetInv ==
    /\ net \in [Broadcaster -> Seq(Quote)]
    /\ \A b \in Broadcaster : \A i \in DOMAIN net[b] : net[b][i].id = i /\ net[b][i].from = b

\* What was cached was handled, and what was handled was published.
HeardInv ==
    /\ heard \in [Broadcaster -> SUBSET Nat]
    /\ quoted \in [Broadcaster -> SUBSET Nat]
    /\ \A b \in Broadcaster : heard[b] \subseteq DOMAIN net[b] /\ quoted[b] \subseteq heard[b]

\* The fields of the cache.
CacheInv ==
    /\ cache \in [Broadcaster -> Quote \cup {NoQuote}]
    /\ authorized \in [Trusted -> Quote \cup {NoQuote}]
    /\ late \subseteq Broadcaster

\* The clocks. A timeout that nobody has been told of runs from the last quote.
ClockInv ==
    /\ now \in 1..MaxTime /\ last \in Nat /\ heardAt \in Nat
    /\ taken = {} => last = heardAt

FeesInv ==
    /\ NetInv
    /\ HeardInv
    /\ CacheInv
    /\ ClockInv
    /\ LatestFeesUnlessLate
    /\ SilenceNoticedUnlessAsked

-----------------------------------------------------------------------------
(* The initial states, and the steps one by one. *)

LEMMA FeesInitInv == FeesInit => FeesInv
<1>. SUFFICES ASSUME FeesInit PROVE FeesInv
  OBVIOUS
<1>1. \A b \in Broadcaster : net[b] = <<>> /\ heard[b] = {} /\ quoted[b] = {} /\ cache[b] = NoQuote
  BY DEF FeesInit, NoQuotes
<1>2. NetInv
  BY <1>1 DEF FeesInit, NetInv
<1>3. HeardInv
  BY <1>1 DEF FeesInit, HeardInv
<1>4. CacheInv
  BY DEF FeesInit, CacheInv, NoQuotes
<1>5. ClockInv /\ SilenceNoticedUnlessAsked
  BY FeesAssumption DEF FeesInit, ClockInv, SilenceNoticedUnlessAsked
<1>6. LatestFeesUnlessLate
  BY <1>1, FeesAssumption DEF FeesInit, LatestFeesUnlessLate, Cached
<1>. QED
  BY <1>2, <1>3, <1>4, <1>5, <1>6 DEF FeesInv

LEMMA PublishFeesStep ==
    ASSUME FeesInv, NEW b \in Broadcaster, NEW offer \in Offer[b], PublishFees(b, offer[1], offer[2])
    PROVE  FeesInv'
<1>. DEFINE L == Len(net[b])
            q == [from |-> b, id |-> L + 1, fee |-> offer[1], kind |-> offer[2],
                  at |-> now, exp |-> now + Validity]
<1>1. offer[1] \in Nat /\ offer[2] \in Kind
  BY FeesAssumption
<1>2. net[b] \in Seq(Quote) /\ L \in Nat
  BY DEF FeesInv, NetInv
<1>3. q \in Quote
  BY <1>1, <1>2, FeesAssumption DEF FeesInv, ClockInv, Quote
<1>4. /\ net' = [net EXCEPT ![b] = Append(net[b], q)]
      /\ UNCHANGED <<now, cache, authorized, last, polled, heard, quoted, late, heardAt, taken>>
  BY DEF PublishFees
<1>. HIDE DEF q
<1>5. Append(net[b], q) \in Seq(Quote) /\ DOMAIN Append(net[b], q) = 1..(L + 1)
  BY <1>2, <1>3, AppendProperties
<1>6. \A i \in 1..(L + 1) : Append(net[b], q)[i] = IF i <= L THEN net[b][i] ELSE q
  BY <1>2, <1>3, AppendProperties
<1>7. \A i \in DOMAIN net[b] : i \in 1..(L + 1) /\ net'[b][i] = net[b][i]
  BY <1>2, <1>4, <1>6 DEF FeesInv, NetInv
<1>8. \A c \in Broadcaster \ {b} : net'[c] = net[c]
  BY <1>4 DEF FeesInv, NetInv
<1>9. NetInv'
  <2>1. net' \in [Broadcaster -> Seq(Quote)]
    BY <1>4, <1>5 DEF FeesInv, NetInv
  <2>2. q.id = L + 1 /\ q.from = b
    BY DEF q
  <2>3. net'[b] = Append(net[b], q)
    BY <1>4 DEF FeesInv, NetInv
  <2>4. \A i \in DOMAIN net'[b] : net'[b][i].id = i /\ net'[b][i].from = b
    BY <1>2, <1>5, <1>6, <2>2, <2>3 DEF FeesInv, NetInv
  <2>. QED
    BY <1>8, <2>1, <2>4 DEF FeesInv, NetInv
<1>10. \A c \in Broadcaster : heard[c] \subseteq DOMAIN net'[c]
  BY <1>4, <1>5, <1>7, <1>8 DEF FeesInv, NetInv, HeardInv
<1>11. HeardInv'
  BY <1>4, <1>10 DEF FeesInv, HeardInv
<1>12. CacheInv' /\ ClockInv' /\ SilenceNoticedUnlessAsked'
  BY <1>4 DEF FeesInv, CacheInv, ClockInv, SilenceNoticedUnlessAsked
<1>13. LatestFeesUnlessLate'
  <2>1. \A c \in Broadcaster : \A i \in heard[c] : net'[c][i] = net[c][i]
    BY <1>7, <1>8 DEF FeesInv, HeardInv
  <2>2. \A t \in Trusted : {net'[t][i] : i \in heard[t]} = {net[t][i] : i \in heard[t]}
    BY <2>1, FeesAssumption
  <2>. QED
    BY <1>4, <2>1, <2>2, FeesAssumption DEF FeesInv, LatestFeesUnlessLate, Cached
<1>. QED
  BY <1>9, <1>11, <1>12, <1>13 DEF FeesInv

LEMMA HandleFeesMessageStep ==
    ASSUME FeesInv, NEW b \in Broadcaster, NEW i \in DOMAIN net[b], NEW best,
           HandleFeesMessage(net[b][i], best)
    PROVE  FeesInv'
<1>. DEFINE m == net[b][i]
<1>1. m \in Quote /\ m.from = b /\ m.id = i /\ m.exp \in Nat /\ i \in Nat
  <2>1. net[b] \in Seq(Quote)
    BY DEF FeesInv, NetInv
  <2>2. m \in Quote /\ i \in Nat
    BY <2>1, ElementOfSeq
  <2>3. m.exp \in Nat
    BY <2>2 DEF Quote
  <2>. QED
    BY <2>2, <2>3 DEF FeesInv, NetInv
<1>2. /\ authorized' = AddAuthorizedFees(m)
      /\ AddTokenFees(m)
      /\ heard' = [heard EXCEPT ![b] = @ \cup {i}]
      /\ late' = IF \E j \in heard[b] : j > i THEN late \cup {b} ELSE late
      /\ UNCHANGED <<now, net, polled>>
  BY <1>1 DEF HandleFeesMessage
<1>. HIDE DEF m
<1>3. \/ /\ cache' = [cache EXCEPT ![b] = m]
         /\ quoted' = [quoted EXCEPT ![b] = @ \cup {i}]
         /\ last' = now /\ heardAt' = now /\ taken' = {}
      \/ UNCHANGED <<cache, last, quoted, heardAt, taken>>
  BY <1>1, <1>2 DEF AddTokenFees
<1>4. \/ b \in Trusted /\ authorized' = [authorized EXCEPT ![b] = m]
         /\ (authorized[b] = NoQuote \/ authorized[b].exp < m.exp)
      \/ UNCHANGED authorized
         /\ (b \in Trusted => authorized[b] # NoQuote /\ ~(authorized[b].exp < m.exp))
  BY <1>1, <1>2 DEF AddAuthorizedFees
<1>5. NetInv'
  BY <1>2 DEF FeesInv, NetInv
<1>6. HeardInv'
  <2>1. i \in DOMAIN net[b]
    OBVIOUS
  <2>2. heard' \in [Broadcaster -> SUBSET Nat] /\ quoted' \in [Broadcaster -> SUBSET Nat]
    BY <1>1, <1>2, <1>3 DEF FeesInv, HeardInv
  <2>3. \A c \in Broadcaster : heard'[c] \subseteq DOMAIN net[c] /\ quoted'[c] \subseteq heard'[c]
    BY <1>2, <1>3, <2>1 DEF FeesInv, HeardInv
  <2>. QED
    BY <1>2, <2>2, <2>3 DEF HeardInv
<1>7. CacheInv'
  BY <1>1, <1>2, <1>3, <1>4 DEF FeesInv, CacheInv
<1>8. ClockInv' /\ SilenceNoticedUnlessAsked'
  BY <1>2, <1>3, FeesAssumption DEF FeesInv, ClockInv, SilenceNoticedUnlessAsked
<1>9. \A t \in Trusted :
          IF heard'[t] = {} THEN authorized'[t] = NoQuote
          ELSE authorized'[t] \in {net[t][j] : j \in heard'[t]}
               /\ \A j \in heard'[t] : net[t][j].exp <= authorized'[t].exp
  <2>. SUFFICES ASSUME NEW t \in Trusted
                PROVE  IF heard'[t] = {} THEN authorized'[t] = NoQuote
                       ELSE authorized'[t] \in {net[t][j] : j \in heard'[t]}
                            /\ \A j \in heard'[t] : net[t][j].exp <= authorized'[t].exp
    OBVIOUS
  <2>0. t \in Broadcaster
    BY FeesAssumption
  <2>1. CASE t # b
    <3>1. heard'[t] = heard[t] /\ authorized'[t] = authorized[t]
      BY <1>2, <1>4, <2>0, <2>1 DEF FeesInv, HeardInv, CacheInv
    <3>. QED
      BY <3>1 DEF FeesInv, LatestFeesUnlessLate
  <2>2. CASE t = b
    <3>1. heard'[b] = heard[b] \cup {i}
      BY <1>2 DEF FeesInv, HeardInv
    <3>2. \A j \in heard[b] : net[b][j] \in Quote /\ net[b][j].exp \in Nat
      <4>1. net[b] \in Seq(Quote) /\ heard[b] \subseteq DOMAIN net[b]
        BY DEF FeesInv, NetInv, HeardInv
      <4>2. \A j \in heard[b] : net[b][j] \in Quote
        BY <4>1, ElementOfSeq
      <4>. QED
        BY <4>2 DEF Quote
    <3>3. CASE heard[b] = {}
      <4>1. authorized[b] = NoQuote
        BY <2>2, <3>3 DEF FeesInv, LatestFeesUnlessLate
      <4>2. authorized'[b] = m
        BY <1>4, <2>2, <4>1 DEF FeesInv, CacheInv
      <4>. QED
        BY <1>1, <2>2, <3>1, <3>3, <4>2 DEF m
    <3>4. CASE heard[b] # {}
      <4>1. PICK k \in heard[b] : authorized[b] = net[b][k]
        BY <2>2, <3>4 DEF FeesInv, LatestFeesUnlessLate
      <4>2. \A j \in heard[b] : net[b][j].exp <= authorized[b].exp
        BY <2>2, <3>4 DEF FeesInv, LatestFeesUnlessLate
      <4>3. authorized[b] # NoQuote /\ authorized[b].exp \in Nat
        BY <3>2, <4>1, NoQuoteAssumption
      <4>4. CASE authorized[b].exp < m.exp
        <5>1. authorized'[b] = m
          BY <1>4, <2>2, <4>4 DEF FeesInv, CacheInv
        <5>2. \A j \in heard[b] \cup {i} : net[b][j].exp <= m.exp
          BY <1>1, <3>2, <4>2, <4>3, <4>4 DEF m
        <5>. QED
          BY <2>2, <3>1, <5>1, <5>2 DEF m
      <4>5. CASE ~(authorized[b].exp < m.exp)
        <5>1. authorized'[b] = authorized[b]
          BY <1>4, <4>3, <4>5
        <5>2. \A j \in heard[b] \cup {i} : net[b][j].exp <= authorized[b].exp
          BY <1>1, <4>2, <4>3, <4>5 DEF m
        <5>. QED
          BY <2>2, <3>1, <4>1, <5>1, <5>2
      <4>. QED
        BY <4>4, <4>5
    <3>. QED
      BY <3>3, <3>4
  <2>. QED
    BY <2>1, <2>2
<1>10. \A c \in Broadcaster \ late' : cache'[c] # NoQuote =>
           \A j \in quoted'[c] : j <= cache'[c].id
  <2>. SUFFICES ASSUME NEW c \in Broadcaster \ late', cache'[c] # NoQuote
                PROVE  \A j \in quoted'[c] : j <= cache'[c].id
    OBVIOUS
  <2>0. c \notin late
    BY <1>2
  <2>1. CASE c # b \/ UNCHANGED <<cache, quoted>>
    <3>1. cache'[c] = cache[c] /\ quoted'[c] = quoted[c]
      BY <1>3, <2>1 DEF FeesInv, HeardInv, CacheInv
    <3>. QED
      BY <2>0, <3>1 DEF FeesInv, LatestFeesUnlessLate, Cached
  <2>2. CASE c = b /\ ~UNCHANGED <<cache, quoted>>
    <3>1. cache'[b] = m /\ quoted'[b] = quoted[b] \cup {i}
      BY <1>3, <2>2 DEF FeesInv, HeardInv, CacheInv
    <3>2. \A j \in heard[b] : ~(j > i)
      BY <1>2, <2>2
    <3>3. \A j \in quoted[b] : j \in heard[b] /\ j \in Nat
      BY DEF FeesInv, HeardInv
    <3>. QED
      BY <1>1, <2>2, <3>1, <3>2, <3>3
  <2>. QED
    BY <2>1, <2>2
<1>11. LatestFeesUnlessLate'
  BY <1>2, <1>9, <1>10 DEF LatestFeesUnlessLate, Cached
<1>. QED
  BY <1>5, <1>6, <1>7, <1>8, <1>11 DEF FeesInv

\* A report takes the place of a quote in the timeout, and says so.
LEMMA ReportClock ==
    ASSUME ClockInv, NEW who, Report(who), UNCHANGED <<now, heardAt>>
    PROVE  /\ ClockInv'
           /\ taken' = {} => taken = {} /\ now - heardAt <= Timeout
<1>1. Touch \in Nat /\ Timeout \in Nat
  BY FeesAssumption
<1>2. CASE Overdue
  <2>1. last' = now + Touch /\ taken' = taken \cup {who}
    BY <1>2 DEF Report
  <2>2. taken' # {}
    BY <2>1
  <2>. QED
    BY ONLY <1>1, <2>1, <2>2, ClockInv, UNCHANGED <<now, heardAt>> DEF ClockInv
<1>3. CASE ~Overdue
  <2>1. last' = last /\ taken' = taken
    BY <1>3 DEF Report
  <2>2. now - last <= Timeout
    BY <1>1, <1>3 DEF Overdue, ClockInv
  <2>. QED
    BY ONLY <2>1, <2>2, ClockInv, UNCHANGED <<now, heardAt>> DEF ClockInv
<1>. QED
  BY <1>2, <1>3

\* Quotes are forgotten by whoever restarts the client.
LEMMA ForgetStep ==
    ASSUME FeesInv, NEW who, Report(who), cache' \in {cache, NoQuotes},
           UNCHANGED <<now, net, authorized, heard, quoted, late, heardAt>>,
           polled' # polled => polled' = TRUE
    PROVE  FeesInv'
<1>1. NetInv' /\ HeardInv'
  BY DEF FeesInv, NetInv, HeardInv
<1>2. CacheInv'
  BY DEF FeesInv, CacheInv, NoQuotes
<1>3. ClockInv' /\ SilenceNoticedUnlessAsked'
  <2>1. ClockInv' /\ (taken' = {} => now - heardAt <= Timeout)
    BY ReportClock DEF FeesInv
  <2>2. now \in Int /\ heardAt \in Int /\ Timeout \in Int
    BY FeesAssumption DEF FeesInv, ClockInv
  <2>. QED
    BY <2>1, <2>2 DEF SilenceNoticedUnlessAsked
<1>4. LatestFeesUnlessLate'
  <2>1. \A b \in Broadcaster : cache'[b] # NoQuote => cache'[b] = cache[b]
    BY DEF NoQuotes
  <2>. QED
    BY <2>1 DEF FeesInv, LatestFeesUnlessLate, Cached
<1>. QED
  BY <1>1, <1>2, <1>3, <1>4 DEF FeesInv

LEMMA TickStep == ASSUME FeesInv, Tick PROVE FeesInv'
<1>1. ClockInv' /\ SilenceNoticedUnlessAsked'
  BY FeesAssumption DEF Tick, FeesInv, ClockInv, SilenceNoticedUnlessAsked
<1>2. UNCHANGED <<net, cache, authorized, last, heard, quoted, late, heardAt, taken>>
  BY DEF Tick
<1>3. NetInv'
  BY <1>2 DEF Tick, FeesInv, NetInv, ClockInv
<1>4. HeardInv'
  BY <1>2 DEF FeesInv, HeardInv
<1>5. CacheInv'
  BY <1>2 DEF FeesInv, CacheInv
<1>6. LatestFeesUnlessLate'
  BY <1>2 DEF FeesInv, LatestFeesUnlessLate, Cached
<1>. QED
  BY <1>1, <1>3, <1>4, <1>5, <1>6 DEF FeesInv

\* The runtime and the filter read the cache.
LEMMA ReadStep ==
    ASSUME FeesInv, UNCHANGED <<now, net, cache, authorized, last, polled, heard, quoted, late,
                             heardAt, taken>>
    PROVE  FeesInv'
<1>1. NetInv' /\ HeardInv' /\ CacheInv' /\ ClockInv'
  BY DEF FeesInv, NetInv, HeardInv, CacheInv, ClockInv
<1>2. LatestFeesUnlessLate' /\ SilenceNoticedUnlessAsked'
  BY DEF FeesInv, LatestFeesUnlessLate, Cached, SilenceNoticedUnlessAsked
<1>. QED
  BY <1>1, <1>2 DEF FeesInv

-----------------------------------------------------------------------------
(* The theorems. *)

LEMMA FeesNextInv == FeesInv /\ [FeesNext]_feesVars => FeesInv'
<1>. SUFFICES ASSUME FeesInv, [FeesNext]_feesVars PROVE FeesInv'
  OBVIOUS
<1>1. ASSUME NEW b \in Broadcaster, NEW offer \in Offer[b], PublishFees(b, offer[1], offer[2])
      PROVE  FeesInv'
  BY <1>1, PublishFeesStep
<1>2. ASSUME NEW b \in Broadcaster, NEW best \in Best, NEW i \in DOMAIN net[b],
             HandleFeesMessage(net[b][i], best)
      PROVE  FeesInv'
  BY <1>2, HandleFeesMessageStep
<1>3. CASE pollStatus
  BY <1>3, ForgetStep DEF pollStatus
<1>4. CASE Status
  BY <1>4, ForgetStep DEF Status
<1>5. CASE TryReconnectForgets
  BY <1>5, ForgetStep DEF TryReconnectForgets
<1>6. CASE Tick
  BY <1>6, TickStep
<1>7. CASE SetAddressFilters \/ submitViaBroadcaster \/ UNCHANGED feesVars
  BY <1>7, ReadStep DEF SetAddressFilters, submitViaBroadcaster, feesVars
<1>8. ASSUME NEW useRelayAdapt \in BOOLEAN, NEW best \in Best,
             selectRandomBroadcaster(useRelayAdapt, best)
      PROVE  FeesInv'
  BY <1>8, ReadStep DEF selectRandomBroadcaster
<1>. QED
  BY <1>1, <1>2, <1>3, <1>4, <1>5, <1>6, <1>7, <1>8 DEF FeesNext

\* What is cached, handled and published agree in every state, and the timeout runs
\* from the last quote until somebody is told of it (FeeCache).
THEOREM FeesInductive == FeesSpec => []FeesInv
  BY FeesInitInv, FeesNextInv, PTL DEF FeesSpec

\* The authorized fee of a signer is the latest it was heard to publish, and the
\* cached quote the newest cached, unless messages came out of order
\* (AddAuthorizedFees, AddTokenFees).
THEOREM LatestFeesHolds == FeesSpec => []LatestFeesUnlessLate
<1>1. FeesInv => LatestFeesUnlessLate
  BY DEF FeesInv
<1>. QED
  BY <1>1, FeesInductive, PTL

\* A silence that is longer than the timeout is reported to somebody by the end of
\* the tick's poll (connectionStatus).
THEOREM SilenceNoticedHolds == FeesSpec => []SilenceNoticedUnlessAsked
<1>1. FeesInv => SilenceNoticedUnlessAsked
  BY DEF FeesInv
<1>. QED
  BY <1>1, FeesInductive, PTL

-----------------------------------------------------------------------------
(* The choice of a quote. *)

\* A fee within a rounded-down percentage is within the exact one.
LEMMA RoundedDown ==
    ASSUME NEW fee \in Nat, NEW other \in Nat, NEW percent \in Nat,
           fee <= (other * percent) \div 100
    PROVE  100 * fee <= percent * other
<1>. DEFINE x == other * percent
<1>1. x \in Int /\ x = percent * other
  OBVIOUS
<1>2. fee <= x \div 100
  OBVIOUS
<1>. HIDE DEF x
<1>3. 100 * fee <= x
  BY <1>1, <1>2
<1>. QED
  BY <1>1, <1>3

\* What the search finds: the live quotes of the broadcasters that the filter admits,
\* in the band of the authorized fee when there is a trusted signer.
LEMMA Found ==
    ASSUME NEW useRelayAdapt \in BOOLEAN, NEW best \in Best,
           NEW q \in FindBroadcastersForToken(useRelayAdapt, best)
    PROVE  /\ \E c \in Cached : q = cache[c]
           /\ ~cachedFeeExpired(q.exp)
           /\ Trusted # {} => best \in GetAuthorizedFee /\ InBand(q.fee, best.fee)
<1>1. Trusted # {} => best # NoQuote
  BY DEF FindBroadcastersForToken
<1>2. PICK c \in Filter(Cached) :
          /\ q = cache[c]
          /\ ~cachedFeeUnavailableOrExpired(cache[c], useRelayAdapt)
          /\ Trusted # {} => InBand(cache[c].fee, best.fee)
  BY <1>1 DEF FindBroadcastersForToken
<1>3. Trusted # {} => best \in GetAuthorizedFee
  BY <1>1 DEF Best
<1>. QED
  BY <1>2, <1>3 DEF Filter, cachedFeeUnavailableOrExpired

\* It finds each of them that anybody could use.
LEMMA FindsPlain ==
    ASSUME NEW useRelayAdapt \in BOOLEAN, NEW best \in Best, Trusted # {} => best # NoQuote,
           NEW b \in LiveQuotes, cache[b].kind = "plain",
           \A a \in GetAuthorizedFee : InBand(cache[b].fee, a.fee)
    PROVE  cache[b] \in FindBroadcastersForToken(useRelayAdapt, best)
<1>1. ~cachedFeeUnavailableOrExpired(cache[b], useRelayAdapt)
  BY DEF LiveQuotes, cachedFeeUnavailableOrExpired
<1>2. Trusted # {} => InBand(cache[b].fee, best.fee)
  BY DEF Best
<1>3. b \in Filter(Cached)
  BY DEF LiveQuotes
<1>. QED
  BY <1>1, <1>2, <1>3 DEF FindBroadcastersForToken

LEMMA SelectStep ==
    ASSUME FeesInv, NEW useRelayAdapt \in BOOLEAN, NEW best \in Best,
           selectRandomBroadcaster(useRelayAdapt, best)
    PROVE  /\ Trusted # {} => \E a \in GetAuthorizedFee : InBand(sel'.fee, a.fee)
           /\ \A b \in LiveQuotes :
                 /\ cache[b].kind = "plain"
                 /\ \A a \in GetAuthorizedFee : InBand(cache[b].fee, a.fee)
                 => 100 * sel'.fee <= (100 + Near) * cache[b].fee
           /\ now + Margin <= sel'.exp
<1>. DEFINE found == FindBroadcastersForToken(useRelayAdapt, best)
<1>1. /\ sel' \in found
      /\ \A r \in found : sel'.fee <= (r.fee * (100 + Near)) \div 100
  BY DEF selectRandomBroadcaster, NearCheapest
<1>. HIDE DEF found
<1>2. /\ \E c \in Cached : sel' = cache[c]
      /\ ~cachedFeeExpired(sel'.exp)
      /\ Trusted # {} => best \in GetAuthorizedFee /\ InBand(sel'.fee, best.fee)
  BY <1>1, Found DEF found
<1>3. \A c \in Cached : cache[c] \in Quote /\ cache[c].fee \in Nat /\ cache[c].exp \in Nat
  <2>1. \A c \in Cached : cache[c] \in Quote
    BY DEF Cached, FeesInv, CacheInv
  <2>. QED
    BY <2>1 DEF Quote
<1>4. sel'.fee \in Nat /\ sel'.exp \in Nat
  BY <1>2, <1>3
<1>5. ASSUME NEW b \in LiveQuotes, cache[b].kind = "plain",
             \A a \in GetAuthorizedFee : InBand(cache[b].fee, a.fee)
      PROVE  100 * sel'.fee <= (100 + Near) * cache[b].fee
  <2>1. Trusted # {} => best # NoQuote
    BY <1>1 DEF found, FindBroadcastersForToken
  <2>2. cache[b] \in found
    BY <1>5, <2>1, FindsPlain DEF found
  <2>3. sel'.fee <= (cache[b].fee * (100 + Near)) \div 100
    BY <1>1, <2>2
  <2>4. cache[b].fee \in Nat
    BY <1>3 DEF LiveQuotes, Filter
  <2>5. 100 + Near \in Nat
    BY FeesAssumption
  <2>. QED
    BY <1>4, <2>3, <2>4, <2>5, RoundedDown
<1>6. now + Margin <= sel'.exp
  BY <1>2, <1>4, FeesAssumption DEF cachedFeeExpired, FeesInv, ClockInv
<1>. QED
  BY <1>2, <1>5, <1>6

\* Only the choice gives the runtime a quote to pay.
LEMMA OnlySelectChooses ==
    ASSUME FeesNext, sel' \notin {sel, NoQuote}
    PROVE  \E useRelayAdapt \in BOOLEAN, best \in Best :
              selectRandomBroadcaster(useRelayAdapt, best)
BY DEF FeesNext, PublishFees, HandleFeesMessage, pollStatus, Status, TryReconnectForgets,
       SetAddressFilters, submitViaBroadcaster, Tick

\* Whatever quotes arrive between its caching and its choice, the quote that the
\* runtime pays is in the band of a fee authorized now, within the percentage of
\* every quote that would have served as well, and good for the margin
\* (FindBroadcastersForToken, FindRandomBroadcasterForToken, cachedFeeExpired).
THEOREM ChosenQuoteHolds == FeesSpec => ChosenQuoteServes
<1>. DEFINE Serves ==
          /\ Trusted # {} => \E best \in GetAuthorizedFee : InBand(sel'.fee, best.fee)
          /\ \A b \in LiveQuotes :
                /\ cache[b].kind = "plain"
                /\ \A best \in GetAuthorizedFee : InBand(cache[b].fee, best.fee)
                => 100 * sel'.fee <= (100 + Near) * cache[b].fee
          /\ now + Margin <= sel'.exp
<1>1. ASSUME FeesInv, [FeesNext]_feesVars, sel' \notin {sel, NoQuote}
      PROVE  Serves
  <2>1. FeesNext
    BY <1>1 DEF feesVars
  <2>2. PICK useRelayAdapt \in BOOLEAN, best \in Best :
            selectRandomBroadcaster(useRelayAdapt, best)
    BY <1>1, <2>1, OnlySelectChooses
  <2>. QED
    BY <1>1, <2>2, SelectStep
<1>2. FeesInv /\ [FeesNext]_feesVars => [sel' \notin {sel, NoQuote} => Serves]_feesVars
  BY <1>1
<1>. QED
  BY <1>2, FeesInductive, PTL DEF FeesSpec, ChosenQuoteServes

=============================================================================
