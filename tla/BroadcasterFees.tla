---------------------------- MODULE BroadcasterFees ----------------------------
(***************************************************************************)
(* The quotes of the broadcasters for one token of one chain: fee messages *)
(* arrive late, again or never (fees_message.go), are cached               *)
(* (fee_cache.go), judged by the status that the poller and the            *)
(* application ask for (status.go), and searched when the runtime wants a  *)
(* broadcaster to pay (search.go, sdk/broadcaster.go). The fees of trusted *)
(* signers bound those of all others. Publishing is the broadcasters' part.*)
(***************************************************************************)
EXTENDS Integers, FiniteSets, Sequences

CONSTANTS
    Broadcaster, \* broadcasters that publish quotes
    Trusted,     \* those whose fees bound the others' (TrustedFeeSigner)
    Offer,       \* broadcaster -> the fees it may quote, each with its kind
    Filters,     \* pairs of an allowlist and a blocklist
    NoQuote,     \* no quote
    Validity,    \* ticks after which a quote expires
    Margin,      \* feeExpirationMinimumMS
    Window,      \* the age from which a message is looked at twice
    Timeout,     \* FeeExpirationTimeoutMS
    Touch,       \* the 5 s by which the timeout is postponed
    Lower, Upper, Near, \* percentages: the band of a fee, and a random choice
    MaxQuotes,   \* bound: how many quotes each broadcaster publishes
    MaxTime      \* bound: ticks

\* A plain quote; no wallet available; another relay adapt contract; a list of
\* proofs that is not active; a version out of range.
Kind == {"plain", "busy", "otherAdapt", "otherList", "oldVersion"}

ASSUME FeesAssumption ==
    /\ Trusted \subseteq Broadcaster
    /\ \A b \in Broadcaster : Offer[b] \subseteq Nat \X Kind
    /\ Filters \subseteq [allow : SUBSET Broadcaster, block : SUBSET Broadcaster]
    /\ {Validity, Margin, Window, Timeout, Touch, Lower, Upper, Near} \subseteq Nat
    /\ MaxTime \in Nat \ {0}

VARIABLES
    now,        \* the clock
    net,        \* broadcaster -> the quotes it has published, in order
    cache,      \* broadcaster -> its cached quote (forNetwork)
    authorized, \* trusted signer -> its authorized quote
    last,       \* lastSubscribedFeeMessageReceivedAt
    filter,     \* the AddressFilter
    polled,     \* the poller has asked in this tick
    sel, selAt, \* the quote the runtime pays while it proves, and since when
    heard,      \* history: broadcaster -> the quotes of it that were handled
    quoted,     \* history: and those of them that were cached
    late,       \* history: broadcasters with a quote handled after a newer one
    heardAt,    \* history: when a quote was last cached
    taken       \* history: who has had the report of a silence since then

feesVars == <<now, net, cache, authorized, last, filter, polled, sel, selAt, heard,
          quoted, late, heardAt, taken>>

Quote == [from : Broadcaster, id : Nat, fee : Nat, kind : Kind,
          at : 1..MaxTime, exp : Nat]

ASSUME NoQuoteAssumption == NoQuote \notin Quote

NoQuotes == [b \in Broadcaster |-> NoQuote]

-----------------------------------------------------------------------------
(* The judgement of a quote. *)

\* Mutant of cachedFeeExpired: a quote is good until it expires.
FeeExpiredExactly(exp) == exp < now

cachedFeeExpired(exp) == exp < now + Margin

isExpiredFeeTimestamp(m) == m.at < now - Window /\ m.exp < now + Window

\* Both ends of the band around a fee are rounded down to a unit.
InBand(fee, mid) ==
    fee \in (mid - (mid * Lower) \div 100)..(mid + (mid * Upper) \div 100)

\* The fees that may bound the others: the latest, any of them if several.
GetAuthorizedFee ==
    LET known == {authorized[t] : t \in Trusted} \ {NoQuote}
    IN  {q \in known : \A r \in known : r.exp <= q.exp}

\* The allowlist counts only if it is not empty.
Filter(addresses) ==
    {b \in addresses \ filter.block : filter.allow = {} \/ b \in filter.allow}

Cached == {b \in Broadcaster : cache[b] # NoQuote}

cachedFeeUnavailableOrExpired(q, useRelayAdapt) ==
    \/ useRelayAdapt /\ q.kind = "otherAdapt"
    \/ q.kind = "busy"
    \/ cachedFeeExpired(q.exp)

-----------------------------------------------------------------------------
(* The search. best is the authorized fee that GetAuthorizedFee has given.   *)

FindBroadcastersForToken(useRelayAdapt, best) ==
    IF Trusted # {} /\ best = NoQuote THEN {}
    ELSE {cache[b] : b \in {c \in Filter(Cached) :
             /\ ~cachedFeeUnavailableOrExpired(cache[c], useRelayAdapt)
             /\ Trusted # {} => InBand(cache[c].fee, best.fee)}}

\* Those that a random choice may take: within a percentage of the cheapest.
NearCheapest(found) ==
    {q \in found : \A r \in found : q.fee <= (r.fee * (100 + Near)) \div 100}

Best == IF GetAuthorizedFee = {} THEN {NoQuote} ELSE GetAuthorizedFee

-----------------------------------------------------------------------------
(* The status, which postpones the timeout as it reports it. *)

Overdue == now - last > Timeout

LiveQuotes == {b \in Filter(Cached) : ~cachedFeeExpired(cache[b].exp)}

connectionStatus ==
    IF Overdue THEN "Disconnected"
    ELSE IF Cached = {} THEN "Searching"
    ELSE IF LiveQuotes = {} THEN "Disconnected"
    ELSE IF \A b \in LiveQuotes : cache[b].kind = "busy" THEN "AllUnavailable"
    ELSE "Connected"

Report(who) ==
    IF Overdue THEN last' = now + Touch /\ taken' = taken \cup {who}
    ELSE UNCHANGED <<last, taken>>

-----------------------------------------------------------------------------
(* A fee message. *)

\* Mutant of AddTokenFees: every message that gets so far is a sign of life.
TouchThenAdd(m) ==
    /\ last' = now
    /\ IF m.kind # "otherList" /\ ~cachedFeeExpired(m.exp)
       THEN /\ cache' = [cache EXCEPT ![m.from] = m]
            /\ heardAt' = now
            /\ taken' = {}
            /\ quoted' = [quoted EXCEPT ![m.from] = @ \cup {m.id}]
       ELSE UNCHANGED <<cache, quoted, heardAt, taken>>

\* Mutant of AddTokenFees: a broadcaster keeps its first quote.
AddFirst(m) ==
    IF m.kind # "otherList" /\ ~cachedFeeExpired(m.exp)
    THEN /\ cache' = IF cache[m.from] = NoQuote THEN [cache EXCEPT ![m.from] = m] ELSE cache
         /\ last' = now
         /\ heardAt' = now
         /\ taken' = {}
         /\ quoted' = [quoted EXCEPT ![m.from] = @ \cup {m.id}]
    ELSE UNCHANGED <<cache, last, quoted, heardAt, taken>>

AddTokenFees(m) ==
    IF m.kind # "otherList" /\ ~cachedFeeExpired(m.exp)
    THEN /\ cache' = [cache EXCEPT ![m.from] = m]
         /\ last' = now
         /\ heardAt' = now
         /\ taken' = {}
         /\ quoted' = [quoted EXCEPT ![m.from] = @ \cup {m.id}]
    ELSE UNCHANGED <<cache, last, quoted, heardAt, taken>>

AddAuthorizedFees(m) ==
    IF /\ m.from \in Trusted
       /\ authorized[m.from] = NoQuote \/ authorized[m.from].exp < m.exp
    THEN [authorized EXCEPT ![m.from] = m]
    ELSE authorized

\* One delivery of a message; one that is skipped changes nothing.
HandleFeesMessage(m, best) ==
    /\ ~isExpiredFeeTimestamp(m)
    /\ m.kind # "oldVersion"
    /\ m.from \notin Trusted /\ Trusted # {} => best # NoQuote /\ InBand(m.fee, best.fee)
    /\ authorized' = AddAuthorizedFees(m)
    /\ AddTokenFees(m)
    /\ heard' = [heard EXCEPT ![m.from] = @ \cup {m.id}]
    /\ late' = IF \E i \in heard[m.from] : i > m.id THEN late \cup {m.from} ELSE late
    /\ UNCHANGED <<now, net, filter, polled, sel, selAt>>

-----------------------------------------------------------------------------

FeesInit ==
    /\ now = 1
    /\ net = [b \in Broadcaster |-> <<>>]
    /\ cache = NoQuotes
    /\ authorized = [t \in Trusted |-> NoQuote]
    /\ last = now
    /\ filter \in Filters
    /\ polled = FALSE
    /\ sel = NoQuote
    /\ selAt = now
    /\ heard = [b \in Broadcaster |-> {}]
    /\ quoted = heard
    /\ late = {}
    /\ heardAt = now
    /\ taken = {}

\* A broadcaster publishes a quote, at most one a tick.
PublishFees(b, fee, kind) ==
    /\ Len(net[b]) < MaxQuotes[b]
    /\ net[b] # <<>> => net[b][Len(net[b])].at < now
    /\ net' = [net EXCEPT ![b] = Append(@, [from |-> b, id |-> Len(@) + 1, fee |-> fee,
                                 kind |-> kind, at |-> now, exp |-> now + Validity])]
    /\ UNCHANGED <<now, cache, authorized, last, filter, polled, sel, selAt, heard,
                   quoted, late, heardAt, taken>>

\* The poller asks, and restarts a client that is disconnected.
pollStatus ==
    /\ ~polled
    /\ polled' = TRUE
    /\ Report("poller")
    /\ cache' = IF connectionStatus = "Disconnected" THEN NoQuotes ELSE cache
    /\ UNCHANGED <<now, net, authorized, filter, sel, selAt, heard, quoted, late, heardAt>>

\* The application asks, and takes a report that the poller will not see.
Status ==
    /\ Overdue
    /\ Report("app")
    /\ UNCHANGED <<now, net, cache, authorized, filter, polled, sel, selAt, heard,
                   quoted, late, heardAt>>

\* It forgets the quotes of the chain before it asks, and then restarts.
TryReconnectForgets ==
    /\ cache' = NoQuotes
    /\ Report("poller")
    /\ UNCHANGED <<now, net, authorized, filter, polled, sel, selAt, heard, quoted, late, heardAt>>

SetAddressFilters ==
    /\ filter' \in Filters \ {filter}
    /\ UNCHANGED <<now, net, cache, authorized, last, polled, sel, selAt, heard, quoted, late, heardAt, taken>>

\* The runtime chooses whom it pays, and starts to prove.
selectRandomBroadcaster(useRelayAdapt, best) ==
    /\ sel = NoQuote
    /\ sel' \in NearCheapest(FindBroadcastersForToken(useRelayAdapt, best))
    /\ selAt' = now
    /\ UNCHANGED <<now, net, cache, authorized, last, filter, polled, heard, quoted, late, heardAt, taken>>

\* The proved transaction is sent with the fees id of the quote.
submitViaBroadcaster ==
    /\ sel # NoQuote
    /\ sel' = NoQuote
    /\ selAt' = 1
    /\ UNCHANGED <<now, net, cache, authorized, last, filter, polled, heard, quoted, late, heardAt, taken>>

\* A tick is longer than the delay of the poller.
Tick ==
    /\ polled
    /\ now < MaxTime
    /\ now' = now + 1
    /\ polled' = FALSE
    /\ UNCHANGED <<net, cache, authorized, last, filter, sel, selAt, heard, quoted, late, heardAt,
                   taken>>

FeesNext ==
    \/ \E b \in Broadcaster : \E offer \in Offer[b] : PublishFees(b, offer[1], offer[2])
    \/ \E b \in Broadcaster, best \in Best : \E i \in DOMAIN net[b] :
          HandleFeesMessage(net[b][i], best)
    \/ pollStatus \/ Status \/ TryReconnectForgets \/ SetAddressFilters
    \/ \E useRelayAdapt \in BOOLEAN, best \in Best :
          selectRandomBroadcaster(useRelayAdapt, best)
    \/ submitViaBroadcaster \/ Tick

FeesSpec == FeesInit /\ [][FeesNext]_feesVars

-----------------------------------------------------------------------------

\* The shape of the state (feeCacheState and the fields of FeeCache).
FeesTypeOK ==
    /\ now \in 1..MaxTime /\ selAt \in 1..now /\ heardAt \in 1..now
    /\ \A b \in Broadcaster : net[b] \in Seq(Quote)
    /\ \A b \in Cached : cache[b] \in Quote /\ cache[b].from = b
    /\ authorized \in [Trusted -> Quote \cup {NoQuote}]
    /\ last \in 1..(now + Touch)
    /\ filter \in Filters /\ polled \in BOOLEAN
    /\ sel \in Quote \cup {NoQuote}
    /\ \A b \in Broadcaster : heard[b] \subseteq DOMAIN net[b]
    /\ \A b \in Broadcaster : quoted[b] \subseteq heard[b]
    /\ late \subseteq Broadcaster /\ taken \subseteq {"app", "poller"}

\* Whatever the order in which the messages of a trusted signer arrive, its
\* authorized fee is the latest one it was heard to publish (AddAuthorizedFees);
\* a broadcaster's cached quote is the newest of those cached, unless its
\* messages were delivered out of order (AddTokenFees overwrites without a
\* comparison).
LatestFeesUnlessLate ==
    /\ \A t \in Trusted :
          IF heard[t] = {} THEN authorized[t] = NoQuote
          ELSE authorized[t] \in {net[t][i] : i \in heard[t]}
               /\ \A i \in heard[t] : net[t][i].exp <= authorized[t].exp
    /\ \A b \in Cached \ late :
          \A i \in quoted[b] : i <= cache[b].id

\* A client that has cached no quote for longer than the timeout is restarted,
\* unless the application's call of Status took the report (connectionStatus).
SilenceNoticedUnlessAsked ==
    polled /\ now - heardAt > Timeout => taken # {}

\* The quote that the runtime chooses serves it: the fee lies in the band of a
\* fee authorized by then, although the quote may have been cached under another
\* one; no quote that would have served as well is cheaper by more than the
\* percentage; and it stays valid for the margin, in which the transaction is to
\* be sent. (FindBroadcastersForToken, FindRandomBroadcasterForToken, cachedFeeExpired)
ChosenQuoteServes ==
    [][sel' \notin {sel, NoQuote} =>
          /\ Trusted # {} => \E best \in GetAuthorizedFee : InBand(sel'.fee, best.fee)
          /\ \A b \in LiveQuotes :
                /\ cache[b].kind = "plain"
                /\ \A best \in GetAuthorizedFee : InBand(cache[b].fee, best.fee)
                => 100 * sel'.fee <= (100 + Near) * cache[b].fee
          /\ now + Margin <= sel'.exp]_feesVars

=============================================================================
