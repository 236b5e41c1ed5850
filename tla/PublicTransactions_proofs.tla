----------------------- MODULE PublicTransactions_proofs -----------------------
(***************************************************************************)
(* The safety properties of PublicTransactions, for every set of calls,    *)
(* every amount, and every bound on nonces, retries and faults.            *)
(***************************************************************************)
EXTENDS PublicTransactions, FiniteSetTheorems, SequenceTheorems, WellFoundedInduction, TLAPS

-----------------------------------------------------------------------------
(* The inductive invariant. *)

\* A transaction in the pool is the one that its call has signed last, and the
\* call has not gone on to another.
PoolSigned ==
    \A n \in 0..MaxNonce : pool[n] # NoTx =>
        /\ pool[n] = Signed(pool[n].call)
        /\ call[pool[n].call].pc \in {"send", "wait", "failed"}

\* The step that a call is at.
StepInv ==
    \A c \in Call :
        /\ call[c].pc \in {"start", "allowance"} => call[c].step = "other"
        /\ call[c].pc = "check" => call[c].step = "approve"
        /\ call[c].seen <= Len(mined)

\* All nonces before the one that a call is about to take are taken.
BehindInv ==
    \A c \in Call : call[c].pc \in {"estimate", "send"} =>
        \A k \in Len(mined)..(call[c].nonce - 1) : pool[k] # NoTx

\* What a call has on chain of its step is what it has signed last; of another
\* step, it is the approval before its shield.
SignedInv ==
    \A n \in DOMAIN mined : \A c \in Call \ overtaken : mined[n].tx.call = c =>
        IF mined[n].tx.step = call[c].step
        THEN /\ mined[n].tx = Signed(c)
             /\ call[c].pc \in {"send", "wait", "check", "done", "failed"}
        ELSE mined[n].tx.step = "approve" /\ call[c].step = "shield"

\* A step is on chain at one nonce.
OnceInv ==
    \A m, n \in DOMAIN mined :
        /\ mined[m].tx.call = mined[n].tx.call /\ mined[m].tx.call \notin overtaken
        /\ mined[m].tx.step = mined[n].tx.step
        => m = n

\* Another call's transaction was mined since the height of an estimate.
Raced(c, seen) == \E k \in (seen + 1)..Len(mined) : mined[k].tx.call # c

\* What was estimated would still succeed, unless it was raced.
EstimateInv ==
    \A c \in Call :
        /\ \/ call[c].pc = "send" /\ Len(mined) <= call[c].nonce
           \/ Pending(c) # {}
        => Executes(c, call[c].step) \/ Raced(c, call[c].seen)

\* A call about to send, whose replies have all arrived, has nothing pending.
ReplyInv ==
    \A c \in Call \ lost : call[c].pc = "send" => Pending(c) = {}

IInv ==
    /\ TypeOK /\ PoolSigned /\ StepInv /\ BehindInv /\ SignedInv /\ OnceInv
    /\ EstimateInv /\ ReplyInv
    /\ NoNonceGap /\ RevertsOnlyIfRaced /\ ResultTold

-----------------------------------------------------------------------------
(* The pending count, and steps that only move a call.                     *)

LEMMA Bounds == MaxNonce \in Nat /\ MaxRetries \in Nat /\ MaxFaults \in Nat
  BY PublicAssumption

LEMMA PendingCountBounds ==
    ASSUME TypeOK
    PROVE  /\ PendingCount \in Len(mined)..(MaxNonce + 1)
           /\ \A k \in Len(mined)..(PendingCount - 1) : pool[k] # NoTx
<1>. DEFINE Free == {n \in Len(mined)..(MaxNonce + 1) : n <= MaxNonce => pool[n] = NoTx}
<1>1. Len(mined) \in Nat /\ MaxNonce \in Nat /\ Len(mined) <= MaxNonce + 1
  BY PublicAssumption DEF TypeOK
<1>2. Free \subseteq Nat /\ MaxNonce + 1 \in Free
  BY <1>1
<1>. DEFINE Upto == {Len(mined)..n : n \in Free}
<1>3. IsWellFoundedOn(StrictSubsetOrdering(0..(MaxNonce + 1)), SUBSET (0..(MaxNonce + 1)))
  <2>1. IsFiniteSet(0..(MaxNonce + 1))
    BY <1>1, FS_Interval
  <2>2. FiniteSubsetsOf(0..(MaxNonce + 1)) = SUBSET (0..(MaxNonce + 1))
    BY <2>1, FS_FiniteSubsetsOfFinite
  <2>. QED
    BY <2>1, <2>2, FS_StrictSubsetOrderingWellFounded
<1>4. Upto \subseteq SUBSET (0..(MaxNonce + 1)) /\ Upto # {}
  BY <1>1, <1>2
<1>5. PICK s \in Upto : \A u \in Upto : ~ (<<u, s>> \in StrictSubsetOrdering(0..(MaxNonce + 1)))
  <2>. HIDE DEF Upto
  <2>. QED
    BY <1>3, <1>4, WFMin
<1>6. PICK n \in Free : s = Len(mined)..n
  BY <1>5
<1>7. ASSUME NEW k \in Len(mined)..(n - 1), pool[k] = NoTx PROVE FALSE
  <2>1. k \in Free /\ n \in Nat
    BY <1>1, <1>6, <1>7
  <2>2. Len(mined)..k \in Upto /\ s \in Upto
    BY <2>1, <1>5
  <2>3. Len(mined)..k \subseteq s /\ n \in s /\ n \notin Len(mined)..k
    BY <1>1, <1>6, <1>7, <2>1
  <2>. QED
    BY <1>4, <1>5, <2>2, <2>3 DEF StrictSubsetOrdering
<1>8. /\ n \in Len(mined)..(MaxNonce + 1)
      /\ \A k \in Len(mined)..(n - 1) : pool[k] # NoTx
      /\ n <= MaxNonce => pool[n] = NoTx
  BY <1>6, <1>7
<1>. QED
  BY <1>8 DEF PendingCount

\* What the locals r of call c have to be, given what is on chain and pending.
LocalsInv(c, r) ==
    /\ Pending(c) # {} => /\ r.pc \in {"send", "wait", "failed"}
                          /\ r.step = call[c].step /\ r.nonce = call[c].nonce
                          /\ r.seen = call[c].seen
    /\ r.pc \in {"start", "allowance"} => r.step = "other"
    /\ r.pc = "check" => r.step = "approve"
    /\ r.seen <= Len(mined)
    /\ r.pc \in {"estimate", "send"} =>
          \A k \in Len(mined)..(r.nonce - 1) : pool[k] # NoTx
    /\ \/ r.pc = "send" /\ Len(mined) <= r.nonce
       \/ Pending(c) # {}
       => Executes(c, r.step) \/ Raced(c, r.seen)
    /\ c \notin lost /\ r.pc = "send" => Pending(c) = {}
    /\ r.pc = "done" => \E n \in Mined(c, r.step) : mined[n].ok

\* The transactions of a call on chain, when its locals are r.
ChainOf(c, r) ==
    \A n \in DOMAIN mined : mined[n].tx.call = c =>
        IF mined[n].tx.step = r.step
        THEN /\ mined[n].tx = [call |-> c, step |-> r.step, nonce |-> r.nonce, seen |-> r.seen]
             /\ r.pc \in {"send", "wait", "check", "done", "failed"}
        ELSE mined[n].tx.step = "approve" /\ r.step = "shield"

LEMMA CallStep ==
    ASSUME IInv, NEW c \in Call, NEW r \in Locals, call' = [call EXCEPT ![c] = r],
           UNCHANGED node, lost' = lost, faults' \in 0..MaxFaults,
           gaveUp \subseteq gaveUp', gaveUp' \subseteq Call,
           overtaken \subseteq overtaken', overtaken' \subseteq Call,
           LocalsInv(c, r),
           c \notin overtaken' => ChainOf(c, r),
           r.pc = "failed" /\ c \notin lost \cup gaveUp' => Pending(c) = {}
    PROVE  IInv'
<1>. USE DEF node
<1>1. TypeOK'
  BY DEF IInv, TypeOK
<1>2. \A d \in Call : call'[d] = IF d = c THEN r ELSE call[d]
  BY DEF IInv, TypeOK
<1>3. \A d \in Call : Pending(d)' = Pending(d)
  BY DEF Pending
<1>4. PoolSigned'
  <2>. SUFFICES ASSUME NEW n \in 0..MaxNonce, pool[n] # NoTx
                PROVE  /\ pool[n] = Signed(pool[n].call)'
                       /\ call'[pool[n].call].pc \in {"send", "wait", "failed"}
    BY DEF PoolSigned, Signed
  <2>1. pool[n] \in Tx /\ pool[n].call \in Call /\ n \in DOMAIN pool
    BY DEF IInv, TypeOK, Tx
  <2>2. pool[n] = Signed(pool[n].call) /\ call[pool[n].call].pc \in {"send", "wait", "failed"}
    BY DEF IInv, PoolSigned
  <2>3. pool[n].call = c => Pending(c) # {}
    BY <2>1 DEF Pending
  <2>. QED
    BY <1>2, <2>1, <2>2, <2>3 DEF Signed, LocalsInv
<1>5. StepInv'
  BY <1>2 DEF IInv, StepInv, LocalsInv
<1>6. BehindInv'
  BY <1>2 DEF IInv, BehindInv, LocalsInv
<1>7. SignedInv'
  <2>. SUFFICES ASSUME NEW n \in DOMAIN mined, NEW d \in Call \ overtaken', mined[n].tx.call = d
                PROVE  IF mined[n].tx.step = call'[d].step
                       THEN /\ mined[n].tx = Signed(d)'
                            /\ call'[d].pc \in {"send", "wait", "check", "done", "failed"}
                       ELSE mined[n].tx.step = "approve" /\ call'[d].step = "shield"
    BY DEF SignedInv
  <2>1. CASE d = c
    BY <1>2, <2>1 DEF ChainOf, Signed
  <2>2. CASE d # c
    BY <1>2, <2>2 DEF IInv, SignedInv, Signed
  <2>. QED
    BY <2>1, <2>2
<1>8. OnceInv'
  BY DEF IInv, OnceInv
<1>9. EstimateInv'
  BY <1>2, <1>3 DEF IInv, EstimateInv, LocalsInv, Executes, Raced
<1>10. ReplyInv'
  BY <1>2, <1>3 DEF IInv, ReplyInv, LocalsInv
<1>11. NoNonceGap' /\ RevertsOnlyIfRaced'
  BY DEF IInv, NoNonceGap, RevertsOnlyIfRaced
<1>12. ResultTold'
  <2>1. ASSUME NEW d \in Call PROVE (At(d, "done") => \E n \in Mined(d, call[d].step) : mined[n].ok)'
    <3>1. CASE d = c
      BY <1>2, <3>1 DEF LocalsInv, Mined, At
    <3>2. CASE d # c
      BY <1>2, <3>2 DEF IInv, ResultTold, At, Mined
    <3>. QED
      BY <3>1, <3>2
  <2>2. ASSUME NEW d \in Call PROVE (At(d, "failed") /\ d \notin lost \cup gaveUp => Pending(d) = {})'
    <3>1. CASE d = c
      BY <1>2, <1>3, <3>1 DEF At
    <3>2. CASE d # c
      BY <1>2, <1>3, <3>2 DEF IInv, ResultTold, At
    <3>. QED
      BY <3>1, <3>2
  <2>. QED
    BY <2>1, <2>2 DEF ResultTold
<1>. QED
  BY <1>1, <1>4, <1>5, <1>6, <1>7, <1>8, <1>9, <1>10, <1>11, <1>12 DEF IInv

-----------------------------------------------------------------------------
(* Each step.                                                              *)

\* The pool holds at most the last signed transaction of a call, and only while
\* the call may wait for it.
LEMMA PendingOf ==
    ASSUME IInv, NEW c \in Call
    PROVE  /\ call[c] \in Locals
           /\ call[c].pc \notin {"send", "wait", "failed"} => Pending(c) = {}
           /\ Pending(c) # {} => Len(mined) <= call[c].nonce
           /\ Pending(c) \subseteq {call[c].nonce}
           /\ c \notin overtaken => ChainOf(c, call[c])
           /\ LocalsInv(c, call[c])
<1>1. call[c] \in Locals /\ Len(mined) \in Nat
  BY DEF IInv, TypeOK
<1>2. ASSUME NEW n \in Pending(c)
      PROVE  /\ call[c].pc \in {"send", "wait", "failed"}
             /\ Len(mined) <= call[c].nonce /\ n = call[c].nonce
  <2>1. n \in 0..MaxNonce /\ pool[n] # NoTx /\ pool[n].call = c
    BY <1>2 DEF Pending, IInv, TypeOK
  <2>2. /\ pool[n] = Signed(c) /\ call[c].pc \in {"send", "wait", "failed"}
        /\ pool[n].nonce = n /\ Len(mined) <= n
    BY <2>1 DEF IInv, PoolSigned, TypeOK
  <2>3. n = call[c].nonce
    BY <2>2 DEF Signed
  <2>. QED
    BY <2>2, <2>3
<1>3. c \notin overtaken => ChainOf(c, call[c])
  BY DEF IInv, SignedInv, ChainOf, Signed
<1>4. LocalsInv(c, call[c])
  BY <1>2 DEF IInv, LocalsInv, StepInv, BehindInv, EstimateInv, ReplyInv, ResultTold, At
<1>. QED
  BY <1>1, <1>2, <1>3, <1>4

LEMMA BalanceOfStep ==
    ASSUME IInv, NEW c \in Call, BalanceOf(c)
    PROVE  IInv'
<1>. DEFINE r == [call[c] EXCEPT !.pc = IF balance < Amount[c] THEN "failed" ELSE "allowance"]
<1>1. r \in Locals /\ Pending(c) = {} /\ call[c].step = "other"
  BY PendingOf DEF BalanceOf, At, Locals, PC, IInv, StepInv
<1>2. LocalsInv(c, r)
  BY <1>1, PendingOf DEF LocalsInv, Locals
<1>3. c \notin overtaken => ChainOf(c, r)
  BY <1>1, PendingOf DEF BalanceOf, At, ChainOf, Locals
<1>4. faults \in 0..MaxFaults /\ gaveUp \subseteq Call /\ overtaken \subseteq Call
  BY DEF IInv, TypeOK
<1>5. call' = [call EXCEPT ![c] = r] /\ UNCHANGED <<node, history>>
  BY DEF BalanceOf, Goto, IInv, TypeOK
<1>. HIDE DEF r
<1>. QED
  BY <1>1, <1>2, <1>3, <1>4, <1>5, CallStep DEF history

LEMMA HistoryType ==
    ASSUME IInv
    PROVE  faults \in 0..MaxFaults /\ gaveUp \subseteq Call /\ overtaken \subseteq Call
  BY DEF IInv, TypeOK

LEMMA AllowanceStep ==
    ASSUME IInv, NEW c \in Call, Allowance(c)
    PROVE  IInv'
<1>. DEFINE r == [call[c] EXCEPT !.pc = "nonce",
                                 !.step = IF allowance < Amount[c] THEN "approve" ELSE "shield"]
<1>1. r \in Locals /\ Pending(c) = {} /\ call[c].step = "other"
  BY PendingOf DEF Allowance, At, Locals, PC, Step, IInv, StepInv
<1>2. LocalsInv(c, r)
  BY <1>1, PendingOf DEF LocalsInv, Locals
<1>3. c \notin overtaken => ChainOf(c, r)
  BY <1>1, PendingOf DEF Allowance, At, ChainOf, Locals
<1>4. call' = [call EXCEPT ![c] = r] /\ UNCHANGED <<node, history>>
  BY DEF Allowance, GotoStep, IInv, TypeOK
<1>. HIDE DEF r
<1>. QED
  BY <1>1, <1>2, <1>3, <1>4, HistoryType, CallStep DEF history

LEMMA BeginStep ==
    ASSUME IInv, NEW c \in Call, Begin(c)
    PROVE  IInv'
<1>. DEFINE r == [call[c] EXCEPT !.pc = "nonce", !.step = "other"]
<1>1. r \in Locals /\ Pending(c) = {} /\ call[c].step = "other"
  BY PendingOf DEF Begin, At, Locals, PC, Step, IInv, StepInv
<1>2. LocalsInv(c, r)
  BY <1>1, PendingOf DEF LocalsInv, Locals
<1>3. c \notin overtaken => ChainOf(c, r)
  BY <1>1, PendingOf DEF Begin, At, ChainOf, Locals
<1>4. call' = [call EXCEPT ![c] = r] /\ UNCHANGED <<node, history>>
  BY DEF Begin, GotoStep, IInv, TypeOK
<1>. HIDE DEF r
<1>. QED
  BY <1>1, <1>2, <1>3, <1>4, HistoryType, CallStep DEF history

\* The approval is the only step before the check.
LEMMA CheckAllowanceStep ==
    ASSUME IInv, NEW c \in Call, CheckAllowance(c)
    PROVE  IInv'
<1>. DEFINE failed == [call[c] EXCEPT !.pc = "failed"]
            shield == [call[c] EXCEPT !.pc = "nonce", !.step = "shield"]
            r == IF allowance < Amount[c] THEN failed ELSE shield
<1>1. r \in Locals /\ Pending(c) = {} /\ call[c].step = "approve" /\ call[c].pc = "check"
  BY PendingOf DEF CheckAllowance, At, Locals, PC, Step, IInv, StepInv
<1>2. LocalsInv(c, r)
  BY <1>1, PendingOf DEF LocalsInv, Locals
<1>3. c \notin overtaken => ChainOf(c, r)
  BY <1>1, PendingOf DEF ChainOf, Locals
<1>4. call' = [call EXCEPT ![c] = r] /\ UNCHANGED <<node, history>>
  BY DEF CheckAllowance, Goto, GotoStep, IInv, TypeOK
<1>. HIDE DEF r
<1>. QED
  BY <1>1, <1>2, <1>3, <1>4, HistoryType, CallStep DEF history

LEMMA AttemptLocals ==
    ASSUME NEW q \in Locals, NEW n \in 0..MaxNonce, NEW a \in 0..MaxRetries
    PROVE  LET r == [pc |-> "estimate", step |-> q.step, nonce |-> n, attempt |-> a, seen |-> q.seen]
           IN  r \in Locals /\ r.pc = "estimate" /\ r.nonce = n /\ r.step = q.step /\ r.seen = q.seen
  BY DEF Locals, PC

LEMMA SendLocals ==
    ASSUME NEW q \in Locals, NEW h \in 0..(MaxNonce + 1)
    PROVE  LET r == [q EXCEPT !.pc = "send", !.seen = h]
           IN  /\ r \in Locals /\ r.pc = "send" /\ r.nonce = q.nonce /\ r.step = q.step
               /\ r.seen = h
  BY DEF Locals, PC

LEMMA GotoLocals ==
    ASSUME NEW q \in Locals, NEW pc \in PC
    PROVE  LET r == [q EXCEPT !.pc = pc]
           IN  /\ r \in Locals /\ r.pc = pc /\ r.nonce = q.nonce /\ r.step = q.step
               /\ r.seen = q.seen
  BY DEF Locals

\* Both counts leave no nonce free behind the one they give.
LEMMA TransactionCountStep ==
    ASSUME IInv, NEW c \in Call, TransactionCount(c)
    PROVE  IInv'
<1>. DEFINE nonce == IF c \in Latest THEN Len(mined) ELSE PendingCount
            r == [pc |-> "estimate", step |-> call[c].step, nonce |-> nonce, attempt |-> 0,
                  seen |-> call[c].seen]
<1>1. /\ nonce \in Nat /\ nonce <= MaxNonce
      /\ \A k \in Len(mined)..(nonce - 1) : pool[k] # NoTx
  BY PendingCountBounds, PublicAssumption DEF TransactionCount, IInv, TypeOK
<1>2. call[c] \in Locals /\ Pending(c) = {} /\ call[c].pc = "nonce"
  BY PendingOf DEF TransactionCount, At
<1>3. call' = [call EXCEPT ![c] = r] /\ UNCHANGED <<node, history>>
  BY DEF TransactionCount, Attempt, IInv, TypeOK
<1>. HIDE DEF nonce
<1>4. /\ r \in Locals /\ r.pc = "estimate" /\ r.nonce = nonce /\ r.step = call[c].step
      /\ r.seen = call[c].seen
  <2>1. nonce \in 0..MaxNonce /\ 0 \in 0..MaxRetries
    BY <1>1, Bounds
  <2>. QED
    BY <2>1, <1>2, AttemptLocals
<1>. HIDE DEF r
<1>5. LocalsInv(c, r)
  <2>1. call[c].seen <= Len(mined)
    BY DEF IInv, StepInv
  <2>. QED
    BY <1>1, <1>2, <1>4, <2>1 DEF LocalsInv
<1>6. c \notin overtaken => ChainOf(c, r)
  <2>1. c \notin overtaken => ChainOf(c, call[c])
    BY PendingOf
  <2>. QED
    BY <1>2, <1>4, <2>1 DEF ChainOf
<1>. QED
  BY <1>2, <1>3, <1>4, <1>5, <1>6, HistoryType, CallStep DEF history

LEMMA EstimateGasStep ==
    ASSUME IInv, NEW c \in Call, EstimateGas(c)
    PROVE  IInv'
<1>. DEFINE send == [call[c] EXCEPT !.pc = "send", !.seen = Len(mined)]
            failed == [call[c] EXCEPT !.pc = "failed"]
            r == IF Executes(c, call[c].step) THEN send ELSE failed
<1>1. call[c] \in Locals /\ Pending(c) = {} /\ call[c].pc = "estimate"
  BY PendingOf DEF EstimateGas, At
<1>2. /\ Len(mined) \in 0..(MaxNonce + 1) /\ BehindInv /\ call[c].seen <= Len(mined)
  BY Bounds DEF IInv, TypeOK, StepInv
<1>3. /\ r \in Locals /\ LocalsInv(c, r)
      /\ c \notin overtaken => ChainOf(c, r)
  <2>1. CASE Executes(c, call[c].step)
    <3>1. /\ r \in Locals /\ r.pc = "send" /\ r.nonce = call[c].nonce
          /\ r.step = call[c].step /\ r.seen = Len(mined)
      BY <1>1, <1>2, <2>1, SendLocals
    <3>. HIDE DEF r
    <3>2. LocalsInv(c, r)
      <4>1. \A k \in Len(mined)..(call[c].nonce - 1) : pool[k] # NoTx
        BY <1>1, <1>2 DEF BehindInv
      <4>2. r.seen <= Len(mined)
        BY <1>2, <3>1
      <4>. QED
        BY <1>1, <2>1, <3>1, <4>1, <4>2 DEF LocalsInv
    <3>3. c \notin overtaken => ChainOf(c, r)
      <4>1. c \notin overtaken => ChainOf(c, call[c])
        BY PendingOf
      <4>. QED
        BY <1>1, <3>1, <4>1 DEF ChainOf
    <3>. QED
      BY <3>1, <3>2, <3>3
  <2>2. CASE ~Executes(c, call[c].step)
    <3>1. r \in Locals /\ r.pc = "failed" /\ r.step = call[c].step /\ r.seen = call[c].seen
      BY <1>1, <2>2, GotoLocals DEF PC
    <3>. HIDE DEF r
    <3>2. LocalsInv(c, r)
      <4>1. r.seen <= Len(mined)
        BY <1>2, <3>1
      <4>. QED
        BY <1>1, <3>1, <4>1 DEF LocalsInv
    <3>3. c \notin overtaken => ChainOf(c, r)
      <4>1. c \notin overtaken => ChainOf(c, call[c])
        BY PendingOf
      <4>. QED
        BY <1>1, <3>1, <4>1 DEF ChainOf
    <3>. QED
      BY <3>1, <3>2, <3>3
  <2>. QED
    BY <2>1, <2>2
<1>4. call' = [call EXCEPT ![c] = r] /\ UNCHANGED <<node, history>>
  BY DEF EstimateGas, Refused, Goto, IInv, TypeOK
<1>. HIDE DEF r
<1>. QED
  BY <1>1, <1>3, <1>4, HistoryType, CallStep DEF history

\* A nonce is counted up past one that is mined, for another's transaction if the
\* call is not overtaken.
LEMMA NonceTooLowStep ==
    ASSUME IInv, NEW c \in Call, NonceTooLow(c)
    PROVE  IInv'
<1>. DEFINE again == [pc |-> "estimate", step |-> call[c].step, nonce |-> call[c].nonce + 1,
                      attempt |-> call[c].attempt + 1, seen |-> call[c].seen]
            failed == [call[c] EXCEPT !.pc = "failed"]
            r == IF c \in Latest /\ call[c].attempt < MaxRetries /\ call[c].nonce < MaxNonce
                 THEN again ELSE failed
<1>1. /\ call[c].pc = "send" /\ call[c].nonce < Len(mined)
      /\ call[c] \in Locals /\ Len(mined) \in Nat /\ Pending(c) = {}
  <2>1. /\ call[c].pc = "send" /\ call[c].nonce < Len(mined) /\ Len(mined) \in Nat
    BY DEF NonceTooLow, At, IInv, TypeOK
  <2>2. call[c] \in Locals /\ (Pending(c) # {} => Len(mined) <= call[c].nonce)
    BY PendingOf
  <2>3. call[c].nonce \in Nat
    BY <2>2, Bounds DEF Locals
  <2>. QED
    BY <2>1, <2>2, <2>3
<1>2. r \in Locals
  <2>1. failed \in Locals
    BY <1>1, GotoLocals DEF PC
  <2>2. ASSUME call[c].attempt < MaxRetries, call[c].nonce < MaxNonce
        PROVE  again \in Locals
    <3>1. call[c].nonce + 1 \in 0..MaxNonce /\ call[c].attempt + 1 \in 0..MaxRetries
      BY <1>1, <2>2, Bounds DEF Locals
    <3>. QED
      BY <1>1, <3>1, AttemptLocals
  <2>. QED
    BY <2>1, <2>2
<1>3. LocalsInv(c, r)
  <2>1. /\ r.pc \in {"estimate", "failed"} /\ r.step = call[c].step /\ r.seen = call[c].seen
        /\ r.pc = "estimate" => r.nonce = call[c].nonce + 1
    BY <1>1 DEF Locals
  <2>2. /\ call[c].seen <= Len(mined)
        /\ call[c].nonce \in Int /\ ~ Len(mined) <= call[c].nonce
    BY <1>1, PendingOf, PublicAssumption DEF LocalsInv, Locals
  <2>3. \A k \in Len(mined)..(call[c].nonce + 1 - 1) : FALSE
    BY ONLY <1>1, <2>2
  <2>. HIDE DEF r
  <2>. QED
    BY ONLY <1>1, <2>1, <2>2, <2>3 DEF LocalsInv
<1>4. c \notin overtaken' => ChainOf(c, r)
  <2>1. \A n \in DOMAIN mined : mined[n].tx.nonce = n - 1 /\ n \in 1..Len(mined)
    BY DEF IInv, TypeOK
  <2>2. ASSUME c \notin overtaken', NEW n \in DOMAIN mined, mined[n].tx.call = c,
               mined[n].tx.step = call[c].step
        PROVE  FALSE
    <3>1. c \notin overtaken /\ mined[call[c].nonce + 1].tx # Signed(c)
      BY <2>2 DEF NonceTooLow
    <3>2. mined[n].tx = Signed(c)
      BY <2>2, <3>1 DEF IInv, SignedInv
    <3>3. n - 1 = call[c].nonce
      BY <2>1, <3>2 DEF Signed
    <3>. QED
      BY <1>1, <2>1, <3>1, <3>2, <3>3 DEF Locals
  <2>3. r.step = call[c].step
    BY <1>1 DEF Locals
  <2>4. c \notin overtaken' => ChainOf(c, call[c])
    BY PendingOf DEF NonceTooLow
  <2>. HIDE DEF r
  <2>. QED
    BY <2>2, <2>3, <2>4 DEF ChainOf
<1>5. /\ call' = [call EXCEPT ![c] = r]
      /\ overtaken \subseteq overtaken' /\ overtaken' \subseteq Call
      /\ UNCHANGED <<node, faults, lost, gaveUp>>
  BY HistoryType DEF NonceTooLow, Refused, Attempt, Goto, IInv, TypeOK
<1>. HIDE DEF r
<1>. QED
  BY <1>1, <1>2, <1>3, <1>4, <1>5, HistoryType, CallStep

LEMMA AlreadyPendingStep ==
    ASSUME IInv, NEW c \in Call, AlreadyPending(c)
    PROVE  IInv'
<1>. DEFINE r == [call[c] EXCEPT !.pc = "failed"]
<1>1. r \in Locals /\ call[c].pc = "send"
  BY PendingOf DEF AlreadyPending, At, Locals, PC
<1>2. LocalsInv(c, r)
  BY <1>1, PendingOf DEF LocalsInv, Locals
<1>3. c \notin overtaken => ChainOf(c, r)
  BY <1>1, PendingOf DEF ChainOf, Locals
<1>4. c \notin lost => Pending(c) = {}
  BY <1>1 DEF IInv, ReplyInv
<1>5. call' = [call EXCEPT ![c] = r] /\ UNCHANGED <<node, history>>
  BY DEF AlreadyPending, Refused, Goto, IInv, TypeOK
<1>. HIDE DEF r
<1>. QED
  BY <1>1, <1>2, <1>3, <1>4, <1>5, HistoryType, CallStep DEF history

\* What the receipt is of is the transaction that the call has signed.
LEMMA ReceiptStep ==
    ASSUME IInv, NEW c \in Call, WaitForTransactionReceipt(c)
    PROVE  IInv'
<1>. DEFINE receipt == mined[call[c].nonce + 1]
            r == [call[c] EXCEPT !.pc = IF ~receipt.ok THEN "failed"
                                        ELSE IF call[c].step = "approve" THEN "check" ELSE "done"]
<1>1. /\ call[c].pc = "wait" /\ call[c].nonce < Len(mined) /\ receipt.tx = Signed(c)
      /\ call[c] \in Locals /\ Len(mined) \in Nat
  BY PendingOf DEF WaitForTransactionReceipt, At, IInv, TypeOK
<1>2. r \in Locals /\ Pending(c) = {}
  BY <1>1, PendingOf DEF Locals, PC
<1>3. call[c].nonce + 1 \in DOMAIN mined
  BY <1>1 DEF IInv, TypeOK, Locals
<1>4. LocalsInv(c, r)
  <2>1. r.pc = "done" => \E n \in Mined(c, r.step) : mined[n].ok
    BY <1>1, <1>3 DEF Mined, Signed, Locals
  <2>2. /\ r.pc \in {"failed", "check", "done"} /\ (r.pc = "check" => r.step = "approve")
        /\ r.seen <= Len(mined)
    BY <1>1 DEF Locals, IInv, StepInv
  <2>. HIDE DEF r
  <2>. QED
    BY <1>2, <2>1, <2>2 DEF LocalsInv
<1>5. c \notin overtaken => ChainOf(c, r)
  BY <1>1, <1>2, PendingOf DEF ChainOf, Locals
<1>6. call' = [call EXCEPT ![c] = r] /\ UNCHANGED <<node, history>>
  BY DEF WaitForTransactionReceipt, Goto, IInv, TypeOK
<1>. HIDE DEF r, receipt
<1>. QED
  BY <1>2, <1>4, <1>5, <1>6, HistoryType, CallStep DEF history

LEMMA ProviderFailsStep ==
    ASSUME IInv, NEW c \in Call, ProviderFails(c)
    PROVE  IInv'
<1>. DEFINE r == [call[c] EXCEPT !.pc = "failed"]
<1>1. r \in Locals /\ call[c].pc \notin {"done", "failed"} /\ call[c] \in Locals
  BY PendingOf DEF ProviderFails, Locals, PC
<1>2. LocalsInv(c, r)
  BY <1>1, PendingOf DEF LocalsInv, Locals
<1>3. c \notin overtaken => ChainOf(c, r)
  BY <1>1, PendingOf DEF ChainOf, Locals
<1>4. c \notin lost \cup gaveUp' => Pending(c) = {}
  BY <1>1, PendingOf DEF ProviderFails, At, IInv, ReplyInv
<1>5. /\ call' = [call EXCEPT ![c] = r] /\ UNCHANGED <<node, lost, overtaken>>
      /\ gaveUp \subseteq gaveUp' /\ gaveUp' \subseteq Call /\ faults' \in 0..MaxFaults
  BY HistoryType, PublicAssumption DEF ProviderFails, Goto, IInv, TypeOK
<1>. HIDE DEF r
<1>. QED
  BY <1>1, <1>2, <1>3, <1>4, <1>5, HistoryType, CallStep

\* A transaction is taken at a nonce behind which there is no gap, and only its
\* call has one in the pool as before.
LEMMA SendStep ==
    ASSUME IInv, NEW c \in Call, NEW reply \in DOMAIN AfterReply, SendRawTransaction(c, reply)
    PROVE  IInv'
<1>. DEFINE n == call[c].nonce
<1>1. /\ call[c] \in Locals /\ call[c].pc = "send" /\ Len(mined) \in Nat
      /\ n \in 0..MaxNonce /\ Len(mined) <= n
  BY PendingOf DEF SendRawTransaction, At, IInv, TypeOK, Locals
<1>2. Signed(c) \in Tx /\ Signed(c) # NoTx /\ Signed(c).nonce = n /\ Signed(c).call = c
  BY <1>1 DEF Signed, Tx, NoTx, Locals, Step
<1>3. \A k \in 0..MaxNonce : pool'[k] = IF k = n THEN Signed(c) ELSE pool[k]
  BY <1>1 DEF SendRawTransaction, IInv, TypeOK
<1>4. /\ call' \in [Call -> Locals]
      /\ \A d \in Call : /\ call'[d].step = call[d].step /\ call'[d].nonce = call[d].nonce
                         /\ call'[d].seen = call[d].seen
      /\ \A d \in Call \ {c} : call'[d] = call[d]
      /\ call'[c].pc \in {"send", "wait", "failed"} /\ (call'[c].pc # "wait" => reply # "hash")
  <2>1. call \in [Call -> Locals]
    BY DEF IInv, TypeOK
  <2>2. /\ AfterReply[reply] \in {"send", "wait", "failed"} /\ AfterReply[reply] \in PC
        /\ AfterReply[reply] # "wait" => reply # "hash"
    BY DEF AfterReply, PC
  <2>. DEFINE pc == AfterReply[reply]
              r == [call[c] EXCEPT !.pc = pc]
  <2>3. call' = [call EXCEPT ![c] = r]
    BY DEF SendRawTransaction, Goto
  <2>. HIDE DEF pc
  <2>4. /\ r \in Locals /\ r.pc = pc /\ r.nonce = call[c].nonce /\ r.step = call[c].step
        /\ r.seen = call[c].seen
    BY <1>1, <2>2, GotoLocals DEF pc
  <2>. HIDE DEF r
  <2>. QED
    BY <2>1, <2>2, <2>3, <2>4 DEF pc
<1>5. /\ UNCHANGED <<mined, balance, allowance, gaveUp, overtaken>>
      /\ faults' \in 0..MaxFaults /\ lost \subseteq lost' /\ lost' \subseteq Call
      /\ reply # "hash" => c \in lost'
  BY Bounds DEF SendRawTransaction, IInv, TypeOK
<1>. HIDE DEF n
<1>6. TypeOK'
  <2>1. pool' \in [0..MaxNonce -> Tx \cup {NoTx}]
    BY <1>1, <1>2 DEF SendRawTransaction, IInv, TypeOK
  <2>2. \A k \in 0..MaxNonce : pool'[k] # NoTx => pool'[k].nonce = k /\ Len(mined) <= k
    BY <1>1, <1>2, <1>3 DEF IInv, TypeOK
  <2>. QED
    BY <1>4, <1>5, <2>1, <2>2 DEF IInv, TypeOK
<1>7. \A d \in Call : Signed(d)' = Signed(d)
  BY <1>4 DEF Signed
<1>8. \A d \in Call \ {c} : Pending(d)' \subseteq Pending(d)
  <2>1. DOMAIN pool = 0..MaxNonce /\ DOMAIN pool' = 0..MaxNonce
    BY <1>6 DEF IInv, TypeOK
  <2>. QED
    BY <1>2, <1>3, <2>1 DEF Pending
<1>9. PoolSigned'
  <2>0. \A k \in 0..MaxNonce : pool'[k] # NoTx => pool'[k].call \in Call
    BY <1>6 DEF TypeOK, Tx
  <2>. SUFFICES ASSUME NEW k \in 0..MaxNonce, pool'[k] # NoTx
                PROVE  /\ pool'[k] = Signed(pool'[k].call)
                       /\ call'[pool'[k].call].pc \in {"send", "wait", "failed"}
    BY <1>7, <2>0 DEF PoolSigned
  <2>1. CASE k = n
    BY <1>2, <1>3, <1>4, <2>1
  <2>2. CASE k # n
    <3>1. pool'[k] = pool[k] /\ pool[k].call \in Call
      BY <1>3, <2>2 DEF IInv, TypeOK, Tx
    <3>2. pool[k] = Signed(pool[k].call) /\ call[pool[k].call].pc \in {"send", "wait", "failed"}
      BY <3>1 DEF IInv, PoolSigned
    <3>. QED
      BY <1>4, <3>1, <3>2
  <2>. QED
    BY <2>1, <2>2
<1>10. StepInv'
  <2>. SUFFICES ASSUME NEW d \in Call
                PROVE  /\ call'[d].pc \in {"start", "allowance"} => call'[d].step = "other"
                       /\ call'[d].pc = "check" => call'[d].step = "approve"
                       /\ call'[d].seen <= Len(mined)
    BY <1>5 DEF StepInv
  <2>1. CASE d = c
    BY <1>1, <1>4, <2>1 DEF IInv, StepInv
  <2>2. CASE d # c
    BY <1>4, <2>2 DEF IInv, StepInv
  <2>. QED
    BY <2>1, <2>2
<1>11. BehindInv'
  <2>. SUFFICES ASSUME NEW d \in Call, call'[d].pc \in {"estimate", "send"},
                       NEW k \in Len(mined)..(call[d].nonce - 1)
                PROVE  pool'[k] # NoTx
    BY <1>4, <1>5 DEF BehindInv
  <2>0. call[d].pc \in {"estimate", "send"} /\ call[d] \in Locals
    BY <1>1, <1>4, PendingOf
  <2>1. pool[k] # NoTx /\ k \in 0..MaxNonce
    BY <1>1, <2>0, Bounds DEF IInv, BehindInv, Locals
  <2>. QED
    BY <1>2, <1>3, <2>1
<1>12. SignedInv'
  BY <1>1, <1>4, <1>5, <1>7 DEF IInv, SignedInv
<1>13. OnceInv'
  BY <1>5 DEF IInv, OnceInv
<1>14. EstimateInv'
  <2>. SUFFICES ASSUME NEW d \in Call,
                       \/ call'[d].pc = "send" /\ Len(mined) <= call[d].nonce
                       \/ Pending(d)' # {}
                PROVE  Executes(d, call[d].step) \/ Raced(d, call[d].seen)
    BY <1>4, <1>5 DEF EstimateInv, Executes, Raced
  <2>1. CASE d = c
    BY <1>1, <2>1 DEF IInv, EstimateInv, n
  <2>2. CASE d # c
    BY <1>4, <1>8, <2>2 DEF IInv, EstimateInv
  <2>. QED
    BY <2>1, <2>2
<1>15. ReplyInv'
  BY <1>4, <1>5, <1>8 DEF IInv, ReplyInv
<1>16. NoNonceGap'
  <2>. SUFFICES ASSUME NEW m \in 0..MaxNonce, pool'[m] # NoTx, NEW k \in Len(mined)..m
                PROVE  pool'[k] # NoTx
    BY <1>5, <1>6 DEF NoNonceGap, TypeOK
  <2>0. k \in 0..MaxNonce
    BY <1>1, Bounds
  <2>1. CASE k = n
    BY <1>2, <1>3, <2>0, <2>1
  <2>2. CASE m = n /\ k # n
    <3>1. pool[k] # NoTx
      BY <1>1, <2>2 DEF IInv, BehindInv, n
    <3>. QED
      BY <1>3, <2>0, <2>2, <3>1
  <2>3. CASE m # n /\ k # n
    <3>1. pool[k] # NoTx
      BY <1>3, <2>3 DEF IInv, NoNonceGap, TypeOK
    <3>. QED
      BY <1>3, <2>0, <2>3, <3>1
  <2>. QED
    BY <2>1, <2>2, <2>3
<1>17. RevertsOnlyIfRaced'
  BY <1>5 DEF IInv, RevertsOnlyIfRaced
<1>18. ResultTold'
  <2>1. ASSUME NEW d \in Call PROVE (At(d, "done") => \E k \in Mined(d, call[d].step) : mined[k].ok)'
    BY <1>4, <1>5 DEF IInv, ResultTold, At, Mined
  <2>2. ASSUME NEW d \in Call PROVE (At(d, "failed") /\ d \notin lost \cup gaveUp => Pending(d) = {})'
    BY <1>4, <1>5, <1>8 DEF IInv, ResultTold, At
  <2>. QED
    BY <2>1, <2>2 DEF ResultTold
<1>. QED
  BY <1>6, <1>9, <1>10, <1>11, <1>12, <1>13, <1>14, <1>15, <1>16, <1>17, <1>18 DEF IInv

\* What is mined is what its call has signed last; for any other call, it is a race.
LEMMA MineStep ==
    ASSUME IInv, Mine
    PROVE  IInv'
<1>. DEFINE L == Len(mined)
            tx == pool[L]
<1>0. /\ L \in 0..MaxNonce /\ tx # NoTx /\ tx \in Tx /\ tx.call \in Call
      /\ mined \in Seq([tx : Tx, ok : BOOLEAN])
  BY Bounds DEF Mine, IInv, TypeOK, Tx
<1>1. PICK c \in Call : c = tx.call
  BY <1>0
<1>. DEFINE ok == Executes(c, tx.step)
<1>2. /\ tx = Signed(c) /\ call[c].pc \in {"send", "wait", "failed"}
      /\ call[c].nonce = L /\ tx.nonce = L
      /\ balance \in Nat /\ allowance \in Nat
      /\ call[c].step = tx.step /\ call[c].seen = tx.seen
  BY <1>0, <1>1 DEF IInv, PoolSigned, TypeOK, Signed
<1>3. mined' = Append(mined, [tx |-> tx, ok |-> ok])
  BY <1>1 DEF Mine
<1>4. /\ Len(mined') = L + 1 /\ DOMAIN mined = 1..L /\ DOMAIN mined' = 1..(L + 1)
      /\ \A n \in 1..L : mined'[n] = mined[n]
      /\ mined'[L + 1].tx = tx /\ mined'[L + 1].ok = ok
      /\ mined' \in Seq([tx : Tx, ok : BOOLEAN])
      /\ \A n \in 1..L : mined[n] \in [tx : Tx, ok : BOOLEAN]
  <2>1. ok \in BOOLEAN
    BY DEF Executes
  <2>2. [tx |-> tx, ok |-> ok] \in [tx : Tx, ok : BOOLEAN]
    BY <1>0, <2>1
  <2>. DEFINE new == [tx |-> tx, ok |-> ok]
  <2>3. new.tx = tx /\ new.ok = ok
    OBVIOUS
  <2>. HIDE DEF ok, tx, new
  <2>4. /\ mined' \in Seq([tx : Tx, ok : BOOLEAN]) /\ Len(mined') = Len(mined) + 1
        /\ \A n \in 1..Len(mined) : mined'[n] = mined[n]
        /\ mined'[Len(mined) + 1] = new
    BY <1>0, <1>3, <2>2, AppendProperties DEF new
  <2>5. \A n \in 1..Len(mined) : mined[n] \in [tx : Tx, ok : BOOLEAN]
    BY <1>0, ElementOfSeq
  <2>. QED
    BY <1>0, <2>3, <2>4, <2>5
<1>5. /\ DOMAIN pool = 0..MaxNonce /\ DOMAIN pool' = 0..MaxNonce
      /\ \A k \in 0..MaxNonce : pool'[k] = IF k = L THEN NoTx ELSE pool[k]
      /\ pool' \in [0..MaxNonce -> Tx \cup {NoTx}]
  BY <1>0, <1>1 DEF Mine, IInv, TypeOK
<1>6. UNCHANGED <<call, faults, lost, gaveUp, overtaken>>
  BY DEF Mine, history
<1>7. balance' \in Nat /\ allowance' \in Nat
  <2>1. Amount[c] \in Nat /\ balance \in Nat /\ allowance \in Nat
    BY <1>0, <1>1, PublicAssumption DEF IInv, TypeOK
  <2>2. /\ \/ allowance' = Amount[c] \/ allowance' = allowance
           \/ Amount[c] <= allowance /\ allowance' = allowance - Amount[c]
        /\ \/ balance' = balance
           \/ Amount[c] <= balance /\ balance' = balance - Amount[c]
    <3>1. /\ allowance' = IF tx.step = "approve" THEN Amount[c]
                          ELSE IF tx.step = "shield" /\ ok THEN allowance - Amount[c]
                          ELSE allowance
          /\ balance' = IF tx.step = "shield" /\ ok THEN balance - Amount[c] ELSE balance
      BY <1>1 DEF Mine
    <3>2. tx.step = "shield" /\ ok => Amount[c] <= balance /\ Amount[c] <= allowance
      BY DEF Executes
    <3>. HIDE DEF tx, ok
    <3>. QED
      BY <3>1, <3>2
  <2>. QED
    BY <2>1, <2>2
<1>. HIDE DEF L, tx, ok
<1>8. TypeOK'
  <2>1. \A n \in DOMAIN mined' : mined'[n].tx.nonce = n - 1
    <3>1. \A n \in 1..L : mined'[n].tx.nonce = n - 1
      BY <1>4 DEF IInv, TypeOK
    <3>2. mined'[L + 1].tx.nonce = (L + 1) - 1
      BY <1>0, <1>2, <1>4
    <3>. QED
      BY <1>0, <1>4, <3>1, <3>2
  <2>2. \A n \in 0..MaxNonce : pool'[n] # NoTx => pool'[n].nonce = n /\ Len(mined') <= n
    <3>1. ASSUME NEW n \in 0..MaxNonce, pool'[n] # NoTx
          PROVE  pool'[n].nonce = n /\ L + 1 <= n
      <4>1. n # L /\ pool[n] # NoTx /\ pool'[n] = pool[n]
        BY <1>5, <3>1
      <4>2. pool[n].nonce = n /\ L <= n
        BY <4>1 DEF IInv, TypeOK, L
      <4>. QED
        BY <1>0, <4>1, <4>2
    <3>. QED
      BY <1>4, <3>1
  <2>. QED
    BY <1>0, <1>1, <1>4, <1>5, <1>6, <1>7, <2>1, <2>2, Bounds DEF IInv, TypeOK
<1>9. \A d \in Call : Pending(d)' \subseteq Pending(d)
  BY <1>5 DEF Pending
<1>10. Pending(c)' = {} /\ L \in Pending(c)
  <2>1. Pending(c) \subseteq {L} /\ L \notin Pending(c)'
    BY <1>0, <1>1, <1>2, <1>5, PendingOf DEF Pending
  <2>2. L \in Pending(c)
    BY <1>0, <1>1, <1>5 DEF Pending, tx
  <2>. QED
    BY <1>0, <1>1, <1>9, <2>1, <2>2
<1>11. PoolSigned'
  BY <1>5, <1>6 DEF IInv, PoolSigned, Signed
<1>12. StepInv'
  <2>1. \A d \in Call : call[d].seen \in Nat
    BY PendingOf, Bounds DEF Locals
  <2>. QED
    BY <1>0, <1>1, <1>4, <1>6, <2>1 DEF IInv, StepInv, L
<1>13. BehindInv'
  <2>. SUFFICES ASSUME NEW d \in Call, call[d].pc \in {"estimate", "send"},
                       NEW k \in (L + 1)..(call[d].nonce - 1)
                PROVE  pool'[k] # NoTx
    BY <1>4, <1>6 DEF BehindInv
  <2>1. call[d].nonce \in 0..MaxNonce
    BY PendingOf DEF Locals
  <2>2. k \in L..(call[d].nonce - 1) /\ k \in 0..MaxNonce /\ k # L
    BY <1>0, <1>1, <2>1, Bounds
  <2>. QED
    BY <1>5, <2>2 DEF IInv, BehindInv, L
<1>14. SignedInv'
  <2>. SUFFICES ASSUME NEW n \in 1..(L + 1), NEW d \in Call \ overtaken, mined'[n].tx.call = d
                PROVE  IF mined'[n].tx.step = call[d].step
                       THEN /\ mined'[n].tx = Signed(d)
                            /\ call[d].pc \in {"send", "wait", "check", "done", "failed"}
                       ELSE mined'[n].tx.step = "approve" /\ call[d].step = "shield"
    BY <1>4, <1>6 DEF SignedInv, Signed
  <2>1. CASE n = L + 1
    BY <1>1, <1>2, <1>4, <2>1
  <2>2. CASE n # L + 1
    BY <1>0, <1>1, <1>4, <2>2 DEF IInv, SignedInv
  <2>. QED
    BY <2>1, <2>2
\* The transaction that is mined has no other of its step before it.
<1>15. ASSUME NEW n \in 1..L, mined[n].tx.call = c, c \notin overtaken PROVE mined[n].tx.step # tx.step
  <2>1. SUFFICES ASSUME mined[n].tx.step = call[c].step PROVE FALSE
    BY <1>2
  <2>2. mined[n].tx = Signed(c)
    BY <1>0, <1>1, <1>4, <1>15, <2>1 DEF IInv, SignedInv
  <2>3. n - 1 = L
    BY <1>2, <1>4, <2>2 DEF IInv, TypeOK, Signed
  <2>. QED
    BY <1>0, <1>1, <2>3
<1>16. OnceInv'
  <2>. SUFFICES ASSUME NEW m \in 1..(L + 1), NEW n \in 1..(L + 1),
                       mined'[m].tx.call = mined'[n].tx.call, mined'[m].tx.call \notin overtaken,
                       mined'[m].tx.step = mined'[n].tx.step
                PROVE  m = n
    BY <1>4, <1>6 DEF OnceInv
  <2>1. CASE m \in 1..L /\ n \in 1..L
    BY <1>4, <2>1 DEF IInv, OnceInv
  <2>2. CASE m = L + 1 /\ n \in 1..L
    BY <1>1, <1>4, <1>15, <2>2
  <2>3. CASE m \in 1..L /\ n = L + 1
    BY <1>1, <1>4, <1>15, <2>3
  <2>. QED
    BY <1>0, <1>1, <2>1, <2>2, <2>3
<1>17. EstimateInv'
  <2>. SUFFICES ASSUME NEW d \in Call,
                       \/ call[d].pc = "send" /\ L + 1 <= call[d].nonce
                       \/ Pending(d)' # {}
                PROVE  Raced(d, call[d].seen)'
    BY <1>4, <1>6 DEF EstimateInv, Raced
  <2>1. d # c
    BY <1>0, <1>1, <1>2, <1>10
  <2>2. mined'[L + 1].tx.call # d
    BY <1>1, <1>4, <2>1
  <2>3. call[d].seen \in Nat /\ call[d].seen <= L
    BY PendingOf, Bounds DEF IInv, StepInv, Locals, L
  <2>4. L + 1 \in (call[d].seen + 1)..Len(mined')
    BY <1>0, <1>1, <1>4, <2>3
  <2>. QED
    BY <1>6, <2>2, <2>4 DEF Raced
<1>18. ReplyInv'
  BY <1>6, <1>9 DEF IInv, ReplyInv
<1>19. NoNonceGap'
  <2>. SUFFICES ASSUME NEW n \in 0..MaxNonce, pool'[n] # NoTx, NEW k \in (L + 1)..n
                PROVE  pool'[k] # NoTx
    BY <1>4, <1>5 DEF NoNonceGap
  <2>1. k \in L..n /\ k \in 0..MaxNonce /\ k # L /\ pool[n] # NoTx
    BY <1>0, <1>1, <1>5, Bounds
  <2>. QED
    BY <1>5, <2>1 DEF IInv, NoNonceGap, L
<1>20. RevertsOnlyIfRaced'
  <2>. SUFFICES ASSUME NEW n \in 1..(L + 1), ~mined'[n].ok
                PROVE  \E k \in (mined'[n].tx.seen + 1)..(n - 1) : mined'[k].tx.call # mined'[n].tx.call
    BY <1>4 DEF RevertsOnlyIfRaced
  <2>1. CASE n \in 1..L
    <3>1. PICK k \in (mined[n].tx.seen + 1)..(n - 1) : mined[k].tx.call # mined[n].tx.call
      BY <1>4, <2>1 DEF IInv, RevertsOnlyIfRaced
    <3>2. mined[n].tx.seen \in Nat
      BY <1>0, <1>1, <1>4, <2>1, Bounds DEF Tx
    <3>3. k \in 1..L
      BY <1>0, <1>1, <2>1, <3>1, <3>2
    <3>. QED
      BY <1>4, <2>1, <3>1, <3>3
  <2>2. CASE n = L + 1
    <3>1. ~Executes(c, call[c].step)
      BY <1>2, <1>4, <2>2 DEF ok
    <3>2. Raced(c, call[c].seen)
      BY <1>0, <1>1, <1>10, <3>1 DEF IInv, EstimateInv
    <3>3. PICK k \in (tx.seen + 1)..L : mined[k].tx.call # c
      BY <1>2, <3>2 DEF Raced, L
    <3>4. k \in 1..L
      BY <1>0, <1>1, <3>3, Bounds DEF Tx
    <3>. QED
      BY <1>0, <1>1, <1>4, <2>2, <3>3, <3>4
  <2>. QED
    BY <1>0, <1>1, <2>1, <2>2
<1>21. ResultTold'
  <2>1. ASSUME NEW d \in Call PROVE (At(d, "done") => \E k \in Mined(d, call[d].step) : mined[k].ok)'
    <3>1. ASSUME NEW k \in Mined(d, call[d].step) PROVE k \in Mined(d, call[d].step)' /\ mined'[k].ok = mined[k].ok
      BY <1>0, <1>1, <1>4, <1>6, <3>1 DEF Mined
    <3>. QED
      BY <1>6, <3>1 DEF IInv, ResultTold, At
  <2>2. ASSUME NEW d \in Call PROVE (At(d, "failed") /\ d \notin lost \cup gaveUp => Pending(d) = {})'
    BY <1>6, <1>9 DEF IInv, ResultTold, At
  <2>. QED
    BY <2>1, <2>2 DEF ResultTold
<1>. QED
  BY <1>8, <1>11, <1>12, <1>13, <1>14, <1>16, <1>17, <1>18, <1>19, <1>20, <1>21 DEF IInv

-----------------------------------------------------------------------------
(* The theorems.                                                           *)

LEMMA InitIInv == Init => IInv
<1>. SUFFICES ASSUME Init PROVE IInv
  OBVIOUS
<1>1. Len(mined) = 0 /\ DOMAIN mined = {} /\ mined \in Seq([tx : Tx, ok : BOOLEAN])
  BY DEF Init
<1>2. \A n \in 0..MaxNonce : pool[n] = NoTx
  BY DEF Init
<1>3. \A c \in Call : call[c] = [pc |-> "start", step |-> "other", nonce |-> 0, attempt |-> 0, seen |-> 0]
  BY DEF Init
<1>4. call \in [Call -> Locals]
  BY Bounds DEF Init, Locals, PC, Step
<1>5. TypeOK
  BY <1>1, <1>2, <1>4, Bounds, PublicAssumption DEF Init, TypeOK
<1>6. \A c \in Call : Pending(c) = {}
  BY <1>2 DEF Init, Pending
<1>7. PoolSigned /\ StepInv /\ BehindInv /\ SignedInv /\ OnceInv
  BY <1>1, <1>2, <1>3 DEF PoolSigned, StepInv, BehindInv, SignedInv, OnceInv
<1>8. EstimateInv /\ ReplyInv /\ ResultTold
  BY <1>3, <1>6 DEF EstimateInv, ReplyInv, ResultTold, At
<1>9. NoNonceGap /\ RevertsOnlyIfRaced
  BY <1>1, <1>2 DEF Init, NoNonceGap, RevertsOnlyIfRaced
<1>. QED
  BY <1>5, <1>7, <1>8, <1>9 DEF IInv

LEMMA NextIInv == IInv /\ [Next]_vars => IInv'
<1>. SUFFICES ASSUME IInv, [Next]_vars PROVE IInv'
  OBVIOUS
<1>1. CASE Mine
  BY <1>1, MineStep
<1>2. ASSUME NEW c \in Call, Run(c) PROVE IInv'
  <2>1. CASE BalanceOf(c)
    BY <2>1, BalanceOfStep
  <2>2. CASE Allowance(c)
    BY <2>2, AllowanceStep
  <2>3. CASE Begin(c)
    BY <2>3, BeginStep
  <2>4. CASE CheckAllowance(c)
    BY <2>4, CheckAllowanceStep
  <2>5. CASE TransactionCount(c)
    BY <2>5, TransactionCountStep
  <2>6. CASE EstimateGas(c)
    BY <2>6, EstimateGasStep
  <2>7. CASE NonceTooLow(c)
    BY <2>7, NonceTooLowStep
  <2>8. CASE AlreadyPending(c)
    BY <2>8, AlreadyPendingStep
  <2>9. CASE \E reply \in DOMAIN AfterReply : SendRawTransaction(c, reply)
    BY <2>9, SendStep
  <2>10. CASE WaitForTransactionReceipt(c)
    BY <2>10, ReceiptStep
  <2>. QED
    BY <1>2, <2>1, <2>2, <2>3, <2>4, <2>5, <2>6, <2>7, <2>8, <2>9, <2>10 DEF Run
<1>3. ASSUME NEW c \in Call, ProviderFails(c) PROVE IInv'
  BY <1>3, ProviderFailsStep
<1>4. CASE UNCHANGED vars
  BY <1>4 DEF vars, IInv, TypeOK, PoolSigned, StepInv, BehindInv, SignedInv, OnceInv, EstimateInv,
     ReplyInv, NoNonceGap, RevertsOnlyIfRaced, ResultTold, Signed, Executes, Raced, Pending, Mined, At
<1>. QED
  BY <1>1, <1>2, <1>3, <1>4 DEF Next

\* The invariant holds in every state, whatever the calls, amounts, nonces and
\* faults (transaction/sender.go, ShieldERC20).
THEOREM Inductive == Spec => []IInv
<1>. QED
  BY InitIInv, NextIInv, PTL DEF Spec

\* No transaction waits behind a nonce that nobody has sent
\* (SignAndSendEIP1559TransactionWithLatestNonce).
THEOREM NoNonceGapHolds == Spec => []NoNonceGap
<1>1. IInv => NoNonceGap
  BY DEF IInv
<1>. QED
  BY <1>1, Inductive, PTL

\* A step of a call is mined at most once, unless the call was overtaken by its
\* own transaction (isNonceAlreadyUsedError).
THEOREM MinedOnceHolds == Spec => []MinedOnceUnlessOvertaken
<1>1. IInv => MinedOnceUnlessOvertaken
  <2>. SUFFICES ASSUME IInv, NEW c \in Call \ overtaken, NEW step \in Step
                PROVE  Cardinality(Mined(c, step)) <= 1
    BY DEF MinedOnceUnlessOvertaken
  <2>1. \A m, n \in Mined(c, step) : m = n
    BY DEF IInv, OnceInv, Mined
  <2>2. CASE Mined(c, step) = {}
    BY <2>2, FS_EmptySet
  <2>3. CASE Mined(c, step) # {}
    <3>1. PICK n : n \in Mined(c, step)
      BY <2>3
    <3>2. Mined(c, step) = {n}
      BY <2>1, <3>1
    <3>3. Cardinality({n}) = 1
      BY FS_Singleton
    <3>. QED
      BY <3>2, <3>3
  <2>. QED
    BY <2>2, <2>3
<1>. QED
  BY <1>1, Inductive, PTL

\* A shield reverts on chain only when another call's transaction was mined since
\* its gas was estimated (ShieldERC20).
THEOREM RevertsOnlyIfRacedHolds == Spec => []RevertsOnlyIfRaced
<1>1. IInv => RevertsOnlyIfRaced
  BY DEF IInv
<1>. QED
  BY <1>1, Inductive, PTL

\* What a call returns is what became of its transaction
\* (WaitForTransactionReceipt, SignAndSendEIP1559Transaction).
THEOREM ResultToldHolds == Spec => []ResultTold
<1>1. IInv => ResultTold
  BY DEF IInv
<1>. QED
  BY <1>1, Inductive, PTL

=============================================================================
