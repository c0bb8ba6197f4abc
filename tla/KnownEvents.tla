----------------------------- MODULE KnownEvents -----------------------------
(***************************************************************************)
(* What the explorer tells of a transaction: parseKnownEvents of           *)
(* lib/domain/known-events.ts, from the logs that its calls have emitted.  *)
(* The logs of one call repeat each other (a mint is also a transfer from  *)
(* the zero address), so that some are hidden and others told as one.      *)
(*                                                                         *)
(* Modelled are the calls whose logs depend on one another, seen by nobody *)
(* in particular (no viewer); a log of any other kind is told by itself.   *)
(* Zones are known by their logs.  A memo is one that can be displayed.    *)
(***************************************************************************)
EXTENDS Integers, SequencesExt, FiniteSetsExt

CONSTANTS Accounts, Tokens, Amounts,
          MaxCalls  \* bound: the calls of a transaction

VARIABLES calls,    \* what the transaction did
          logs      \* the logs of its receipt

vars == <<calls, logs>>

zeroAddress == "zero"
STABLECOIN_EXCHANGE == "dex"
FEE_MANAGER == "feeManager"
RECEIVE_POLICY_GUARD == "guard"
STREAM_CHANNEL == "channel"
Portal == "portal"
Nobody == "nobody"

KnownAddresses == {zeroAddress, STABLECOIN_EXCHANGE, FEE_MANAGER, RECEIVE_POLICY_GUARD,
                   STREAM_CHANNEL, Portal, Nobody}

WithMemo == {"send", "mint", "burn"}
OfTwo == WithMemo \cup {"block", "topUp"}
Kinds == OfTwo \cup {"deposit", "withdraw", "swap", "place"}
Calls ==
    {c \in [kind : Kinds, from : Accounts, to : Accounts \cup {Nobody}, token : Tokens,
            amount : Amounts, memo : BOOLEAN] :
        /\ c.from # c.to
        /\ c.to # Nobody <=> c.kind \in OfTwo
        /\ c.memo => c.kind \in WithMemo}

\* What is bought with a token on the exchange
Bought(token) == CHOOSE t \in Tokens : t # token

-----------------------------------------------------------------------------
(* The logs of a call *)

Log(name, address, from, to, token, amount) ==
    [eventName |-> name, address |-> address, from |-> from, to |-> to,
     token |-> token, amount |-> amount]

Transfer(c, from, to) == Log("Transfer", c.token, from, to, c.token, c.amount)
Memoed(c, from, to) ==
    IF c.memo THEN <<Transfer(c, from, to), [Transfer(c, from, to) EXCEPT !.eventName = "TransferWithMemo"]>>
              ELSE <<Transfer(c, from, to)>>

\* The fee of a deposit; its log has the net amount.
Fee == 1

Emitted(c) ==
    LET by(name, address) == <<Log(name, address, c.from, c.to, c.token, c.amount)>> IN
    CASE c.kind = "send" -> Memoed(c, c.from, c.to)
      [] c.kind = "mint" -> Memoed(c, zeroAddress, c.to) \o by("Mint", c.token)
      [] c.kind = "burn" -> Memoed(c, c.from, zeroAddress) \o by("Burn", c.token)
      [] c.kind = "deposit" -> <<Transfer(c, c.from, Portal),
              Log("DepositMade", Portal, c.from, Portal, c.token, c.amount - Fee)>>
      [] c.kind = "withdraw" -> <<Transfer(c, Portal, c.from),
              Log("WithdrawalProcessed", Portal, Portal, c.from, c.token, c.amount)>>
      [] c.kind = "block" -> <<Transfer(c, c.from, RECEIVE_POLICY_GUARD)>>
              \o by("TransferBlocked", RECEIVE_POLICY_GUARD)
      [] c.kind = "swap" -> <<Transfer(c, c.from, STABLECOIN_EXCHANGE),
              Transfer([c EXCEPT !.token = Bought(c.token)], STABLECOIN_EXCHANGE, c.from)>>
      [] c.kind = "place" -> <<Transfer(c, c.from, STABLECOIN_EXCHANGE)>>
      [] c.kind = "topUp" -> <<Transfer(c, c.from, STREAM_CHANNEL)>>
              \o by("TopUp", STREAM_CHANNEL)

Init == calls = <<>> /\ logs = <<>>

Make(c) ==
    /\ Len(calls) < MaxCalls
    /\ calls' = Append(calls, c)
    /\ logs' = logs \o Emitted(c)

Next == \E c \in Calls : Make(c)

-----------------------------------------------------------------------------
(* Which logs are hidden, in a sequence of logs *)

Named(events, names) == {e \in ToSet(events) : e.eventName \in names}

isTransferEvent(e) == e.eventName \in {"Transfer", "TransferWithMemo"}

\* createZonePortalMetadata
zonePortals(events) ==
    {e.address : e \in Named(events, {"DepositMade", "WithdrawalProcessed"})}

\* Faulty variant: what the fee takes is left out.
createZoneDepositTransferKeyNet(e) == <<e.from, e.address, e.token, e.amount>>

\* createZoneDepositTransferKey, of a DepositMade
createZoneDepositTransferKey(e) == <<e.from, e.address, e.token, (e.amount + Fee)>>

\* The keys of preferenceMap and of blockedTransferKeys: the logs that are told
\* in place of a transfer.
Preferred(events) ==
    [memo     |-> {<<e.from, e.to>> : e \in Named(events, {"TransferWithMemo"})},
     mint     |-> {<<e.address, e.amount, e.to>> : e \in Named(events, {"Mint"})},
     burn     |-> {<<e.address, e.amount, e.from>> : e \in Named(events, {"Burn"})},
     deposit  |-> {createZoneDepositTransferKey(e) : e \in Named(events, {"DepositMade"})},
     withdraw |-> {<<e.address, e.to, e.token, e.amount>> :
                      e \in Named(events, {"WithdrawalProcessed"})},
     blocked  |-> {<<e.token, e.from, e.amount>> : e \in Named(events, {"TransferBlocked"})}]

Hidden(e, preferred, portals) ==
    /\ isTransferEvent(e)
    /\ \/ e.eventName = "Transfer" /\ <<e.from, e.to>> \in preferred.memo
       \/ e.to = RECEIVE_POLICY_GUARD /\ <<e.address, e.from, e.amount>> \in preferred.blocked
       \/ e.to \in portals /\ <<e.from, e.to, e.address, e.amount>> \in preferred.deposit
       \/ e.from \in portals /\ <<e.from, e.to, e.address, e.amount>> \in preferred.withdraw
       \/ e.from = zeroAddress /\ <<e.address, e.amount, e.to>> \in preferred.mint
       \/ e.to = zeroAddress /\ <<e.address, e.amount, e.from>> \in preferred.burn

\* filter of an array: what it has at the given places, in their order
Nth(places, k) == CHOOSE i \in places : Cardinality({j \in places : j < i}) = k - 1
Kept(array, places) == [k \in 1..Cardinality(places) |-> array[Nth(places, k)]]

dedupedEvents(events) ==
    LET preferred == Preferred(events)
        portals == zonePortals(events)
    IN  Kept(events, {i \in DOMAIN events : ~Hidden(events[i], preferred, portals)})

-----------------------------------------------------------------------------
(* What is told: the type, the amounts of tokens, the parties and the memo *)

Event(type, amounts, from, to, note) ==
    [type |-> type, amounts |-> amounts, from |-> from, to |-> to, note |-> note]

\* Every transfer to the exchange that has one after it that comes back, of which
\* it takes the first
Returns(deduped, i) ==
    {k \in DOMAIN deduped :
        k > i /\ isTransferEvent(deduped[k]) /\ deduped[k].from = STABLECOIN_EXCHANGE}

Sold(deduped) ==
    {i \in DOMAIN deduped :
        /\ isTransferEvent(deduped[i]) /\ deduped[i].to = STABLECOIN_EXCHANGE
        /\ Returns(deduped, i) # {}}

Swap(sold, bought) ==
    Event("swap", <<<<sold.token, sold.amount>>, <<bought.token, bought.amount>>>>,
          Nobody, Nobody, FALSE)

\* streamChannelTokens: the token of the first transfer between the channel and
\* one of the two
streamChannelToken(deduped, e) ==
    deduped[Min({i \in DOMAIN deduped :
        /\ isTransferEvent(deduped[i])
        /\ \/ deduped[i].to = STREAM_CHANNEL /\ deduped[i].from \in {e.from, e.to}
           \/ deduped[i].from = STREAM_CHANNEL /\ deduped[i].to \in {e.from, e.to}})].address

IsOfChannel(deduped, e) ==
    /\ \E f \in ToSet(deduped) : f.address = STREAM_CHANNEL
    /\ isTransferEvent(e) /\ STREAM_CHANNEL \in {e.from, e.to}

\* mintBurnMemos
HasMemo(events, from, to, e) ==
    \E m \in Named(events, {"TransferWithMemo"}) :
        m.address = e.address /\ m.amount = e.amount /\ m.from = from /\ m.to = to

\* The detectors of createDetectors
Detected(events, deduped, e) ==
    LET of(type, from, to, note) == Event(type, <<<<e.token, e.amount>>>>, from, to, note) IN
    CASE isTransferEvent(e) /\ e.to \in zonePortals(events) /\ e.from # zeroAddress ->
            of("zone deposit", e.from, e.to, FALSE)
      [] isTransferEvent(e) /\ e.from \in zonePortals(events) /\ e.to # zeroAddress ->
            of("zone withdrawal", e.from, e.to, FALSE)
      [] e.eventName = "DepositMade" -> of("zone deposit", e.from, e.address, FALSE)
      [] e.eventName = "WithdrawalProcessed" -> of("zone withdrawal", e.address, e.to, FALSE)
      [] isTransferEvent(e) /\ e.to = FEE_MANAGER /\ e.from # zeroAddress ->
            of("fee transfer", e.from, e.to, FALSE)
      [] e.eventName = "Mint" -> of("mint", Nobody, e.to, HasMemo(events, zeroAddress, e.to, e))
      [] e.eventName = "Burn" -> of("burn", Nobody, e.from, HasMemo(events, e.from, zeroAddress, e))
      [] e.eventName = "TransferBlocked" -> of("transfer blocked", e.from, e.to, FALSE)
      [] e.eventName = "TopUp" ->
            Event("top up channel", <<<<streamChannelToken(deduped, e), e.amount>>>>,
                  e.from, e.to, FALSE)
      [] OTHER -> of("send", e.from, e.to, e.eventName = "TransferWithMemo")

\* Without any event, a call is told by its input, a transaction to the sender
\* itself as one, and any other by its fee.
Fallback(fees, input) ==
    CASE input = "call" -> <<Event("contract call", <<>>, Nobody, Nobody, FALSE)>>
      [] input = "self" -> <<Event("self transfer", <<>>, Nobody, Nobody, FALSE)>>
      [] OTHER ->
            IF fees = <<>> THEN <<>>
            ELSE <<Event("fee", FlattenSeq([i \in DOMAIN fees |-> fees[i].amounts]),
                         Nobody, Nobody, FALSE)>>

parseKnownEvents(events, input) ==
    LET deduped == dedupedEvents(events)
        sold == Sold(deduped)
        bought(i) == Min(Returns(deduped, i))
        swapIndices == sold \cup {bought(i) : i \in sold}
        swaps == [i \in sold |-> Swap(deduped[i], deduped[bought(i)])]
        mapped == {i \in DOMAIN deduped : i \notin swapIndices /\ ~IsOfChannel(deduped, deduped[i])}
        detected == [i \in mapped |-> Detected(events, deduped, deduped[i])]
        fees == {i \in mapped : detected[i].type = "fee transfer"}
        knownEvents == Kept(swaps, sold) \o Kept(detected, mapped \ fees)
    IN  IF knownEvents # <<>> THEN knownEvents
        ELSE Fallback(Kept(detected, fees), input)

-----------------------------------------------------------------------------
(* Properties *)

TypeOK ==
    /\ calls \in Seq(Calls) /\ Len(calls) <= MaxCalls
    /\ Len(logs) <= 3 * Len(calls)

\* What a reader should be told of a call
Told(c) ==
    LET of(type, from, to) == Event(type, <<<<c.token, c.amount>>>>, from, to, c.memo) IN
    CASE c.kind = "send" -> of("send", c.from, c.to)
      [] c.kind = "mint" -> of("mint", Nobody, c.to)
      [] c.kind = "burn" -> of("burn", Nobody, c.from)
      [] c.kind = "deposit" ->
            Event("zone deposit", <<<<c.token, c.amount - Fee>>>>, c.from, Portal, FALSE)
      [] c.kind = "withdraw" -> of("zone withdrawal", Portal, c.from)
      [] c.kind = "block" -> of("transfer blocked", c.from, c.to)
      [] c.kind = "place" -> of("send", c.from, STABLECOIN_EXCHANGE)
      [] c.kind = "topUp" -> of("top up channel", c.from, c.to)
      [] c.kind = "swap" ->
            Event("swap", <<<<c.token, c.amount>>, <<Bought(c.token), c.amount>>>>,
                  Nobody, Nobody, FALSE)

\* Calls whose logs are taken for each other's: a memo between two accounts
\* hides every transfer without one between them, whatever its token and its
\* amount; what a swap returns is paired with every order placed before it too;
\* equal mints or burns share a memo, and channels of one account a token.  The
\* call c comes before d.
Mixed(c, d) ==
    \/ c.kind = "send" /\ d.kind = "send" /\ c.memo # d.memo /\ c.from = d.from /\ c.to = d.to
    \/ c.kind = "place" /\ d.kind = "swap"
    \/ /\ c.kind = d.kind /\ c.kind \in {"mint", "burn"} /\ c.memo # d.memo
       /\ c.token = d.token /\ c.amount = d.amount
       /\ IF c.kind = "mint" THEN c.to = d.to ELSE c.from = d.from
    \/ /\ c.kind = "topUp" /\ d.kind = "topUp" /\ c.token # d.token
       /\ {c.from, c.to} \cap {d.from, d.to} # {}

Times(e, s) == Cardinality({i \in DOMAIN s : s[i] = e})
FeeLog == Log("Transfer", "feeToken", "payer", FEE_MANAGER, "feeToken", Fee)

\* A transaction is told as what its calls did, each once: whichever logs repeat
\* a call none of it is told twice, none is hidden by another call and nothing
\* is told of the fee; unless two calls are mixed up.  A transaction without
\* calls is told by its input or its fee.
CallsAreTold ==
    LET told == parseKnownEvents(Append(logs, FeeLog), "none")
        meant == [i \in DOMAIN calls |-> Told(calls[i])]
    IN  IF calls = <<>>
        THEN /\ Len(told) = 1 /\ told[1].type = "fee"
             /\ parseKnownEvents(<<FeeLog>>, "call")[1].type = "contract call"
        ELSE (\A i, j \in DOMAIN calls : i < j => ~Mixed(calls[i], calls[j])) =>
                 /\ Len(told) = Len(meant)
                 /\ \A e \in ToSet(meant) : Times(e, told) = Times(e, meant)
=============================================================================
