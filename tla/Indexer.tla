------------------------------ MODULE Indexer -------------------------------
(***************************************************************************)
(* The directory's indexer: a gap filler that compares the latest block    *)
(* recorded with the chain, and a processor that applies the events of the *)
(* missing blocks to the database, one block after the other.  The two     *)
(* goroutines meet in an unbuffered channel.                               *)
(*                                                                         *)
(* Every database statement commits on its own, so an event is applied, a  *)
(* block is recorded, and a provider's metadata is stored in separate      *)
(* steps; the service may stop between any two of them and start again     *)
(* from what is recorded.                                                  *)
(***************************************************************************)
EXTENDS Integers, Sequences, FiniteSets, Functions

CONSTANTS
    Chains,     \* chains to index: sequences of blocks, which are sequences of events
    Providers,  \* providers of a service
    Ids,        \* contract identifiers
    MaxNonce,   \* highest nonce of an event
    MaxFaults   \* bound: failed reads and writes, and restarts

VARIABLES
    chain,      \* the chain that is indexed
    height,     \* its latest block
    block,      \* the height in table blocks, zero when the table is empty
    status,     \* the height in table indexer_status
    db,         \* the tables providers, provider_metadata, contracts and
                \* contract_settlement_events
    filler,     \* the gap filler: the latest stored block it has read
    processor,  \* the block gap processor
    begun,      \* history: heights whose events were taken up ...
    handled,    \* ... and those whose events were all handled
    replayed,   \* history: a block was taken up again
    rewound,    \* history: a block was taken up that was recorded already
    lost,       \* history: an event could not be written
    missed,     \* history: providers whose metadata was not downloaded
    faults

history == <<begun, handled, replayed, rewound, lost, missed>>
vars == <<chain, height, block, status, db, filler, processor, history, faults>>

\* An event of the chain.  No settlement pays a negative amount.
IsEvent(e) ==
    /\ e.type \in {"bond", "mod", "open", "settle", "close"}
    /\ e.provider \in Providers /\ e.id \in Ids /\ e.nonce \in 0 .. MaxNonce
    /\ e.paid \in Nat

IsSequence(s) == Len(s) \in Nat /\ DOMAIN s = 1 .. Len(s)

\* Where the events of a chain are, by height and index.
Places(c)    == UNION {{h} \X DOMAIN c[h] : h \in DOMAIN c}
Before(x, y) == x[1] < y[1] \/ (x[1] = y[1] /\ x[2] < y[2])

\* How the events of a market that began without providers and contracts follow each
\* other.  OpenContract takes the next identifier and needs a provider, which has bonded;
\* a contract is settled or closed only once it is there.
IsMarketHistory(c) ==
    LET at(x) == c[x[1]][x[2]]
    IN  \A x \in Places(c) : at(x).type = "open" =>
          /\ \A y \in Places(c) : at(y).id = at(x).id =>
               /\ at(y).type = "open" => y = x
               /\ at(y).type \in {"settle", "close"} => Before(x, y)
          /\ \E y \in Places(c) : /\ at(y).type = "bond" /\ at(y).provider = at(x).provider
                                  /\ Before(y, x)

ASSUME IndexerAssumptions ==
    /\ {MaxNonce, MaxFaults} \subseteq Nat
    /\ \A c \in Chains : IsSequence(c) /\ \A h \in DOMAIN c :
         IsSequence(c[h]) /\ \A i \in DOMAIN c[h] : IsEvent(c[h][i])

ASSUME MarketHistories == \A c \in Chains : IsMarketHistory(c)

-----------------------------------------------------------------------------
(* Events *)

NoProvider == [exists |-> FALSE, bond |-> 0, metadataNonce |-> 0]
NoContract == [height |-> 0, provider |-> "", delegate |-> "", nonce |-> 0, paid |-> 0,
               settlementHeight |-> 0]

Known(p)    == db.providers[p].exists
Indexed(id) == db.contracts[id].height > 0

\* handleBondProviderEvent: a provider that is not known yet is created.
HandleBondProviderEvent(e) ==
    [db EXCEPT !.providers[e.provider].exists = TRUE, !.providers[e.provider].bond = e.bond]

\* handleModProviderEvent up to the metadata.
HandleModProviderEvent(e) ==
    IF Known(e.provider) THEN [db EXCEPT !.providers[e.provider].metadataNonce = e.nonce]
                         ELSE db

\* Mutant: metadata is downloaded once only.
IsMetaDataUpdated_First(e) == db.providers[e.provider].metadataNonce = 0

IsMetaDataUpdated(e) ==
    \/ db.providers[e.provider].metadataNonce = 0
    \/ db.providers[e.provider].metadataNonce < e.nonce

\* Mutant: the key does not have the height, as before migration 019.
Conflicts_AnyHeight(e, h) ==
    \E id \in Ids \ {e.id} :
        /\ db.contracts[id].height > 0
        /\ db.contracts[id].provider = e.provider
        /\ db.contracts[id].delegate = e.delegate

\* The unique key of table contracts besides the identifier.
Conflicts(e, h) ==
    \E id \in Ids \ {e.id} :
        /\ db.contracts[id].height = h
        /\ db.contracts[id].provider = e.provider
        /\ db.contracts[id].delegate = e.delegate

\* handleOpenContractEvent: the contract is inserted, or updated in all but its nonce
\* and payments.  The event has no settlement height.
HandleOpenContractEvent(e, h) ==
    IF Known(e.provider) /\ ~Conflicts(e, h)
    THEN [db EXCEPT !.contracts[e.id] =
            [@ EXCEPT !.height = h, !.provider = e.provider, !.delegate = e.delegate,
                      !.settlementHeight = 0]]
    ELSE db

\* Mutant: a settlement stores what it paid, not the sum.
HandleContractSettlementEvent_Last(e, h) ==
    IF Indexed(e.id)
    THEN [db EXCEPT !.contracts[e.id] = [@ EXCEPT !.nonce = e.nonce, !.paid = e.paid,
                                                  !.settlementHeight = h],
                    !.settlements[e.id][e.nonce] = IF e.tx THEN e.paid ELSE @]
    ELSE db

\* Mutant: the first settlement height is kept.
HandleContractSettlementEvent_First(e, h) ==
    IF Indexed(e.id)
    THEN [db EXCEPT !.contracts[e.id] = [@ EXCEPT !.nonce = e.nonce, !.paid = @ + e.paid,
                                         !.settlementHeight = IF @ = 0 THEN h ELSE @],
                    !.settlements[e.id][e.nonce] = IF e.tx THEN e.paid ELSE @]
    ELSE db

\* Mutant: only what a transaction paid is added up.
HandleContractSettlementEvent_TxOnly(e, h) ==
    IF Indexed(e.id)
    THEN [db EXCEPT !.contracts[e.id] = [@ EXCEPT !.nonce = e.nonce,
                                         !.paid = IF e.tx THEN @ + e.paid ELSE @,
                                         !.settlementHeight = h],
                    !.settlements[e.id][e.nonce] = IF e.tx THEN e.paid ELSE @]
    ELSE db

\* The row of a contract after a settlement: what was paid is added to it.
SettledRow(c, e, h) ==
    [c EXCEPT !.nonce = e.nonce, !.paid = @ + e.paid, !.settlementHeight = h]

\* handleContractSettlementEvent: what was paid is added up.  A settlement that belongs
\* to a transaction is recorded by its nonce, over an earlier one with that nonce; one
\* of the end blocker is recorded as a close.
HandleContractSettlementEvent(e, h) ==
    IF Indexed(e.id)
    THEN [db EXCEPT !.contracts[e.id] = SettledRow(@, e, h),
                    !.settlements[e.id][e.nonce] = IF e.tx THEN e.paid ELSE @]
    ELSE db

\* handleCloseContractEvent.  Recording the close fails, its client being empty, after
\* the contract was updated.
HandleCloseContractEvent(e, h) ==
    IF Indexed(e.id) THEN [db EXCEPT !.contracts[e.id].settlementHeight = h] ELSE db

\* handleAbciEvent.
HandleAbciEvent(e, h) ==
    CASE e.type = "bond"   -> HandleBondProviderEvent(e)
      [] e.type = "mod"    -> HandleModProviderEvent(e)
      [] e.type = "open"   -> HandleOpenContractEvent(e, h)
      [] e.type = "settle" -> HandleContractSettlementEvent(e, h)
      [] e.type = "close"  -> HandleCloseContractEvent(e, h)

-----------------------------------------------------------------------------
(* The gap filler *)

Fault == faults < MaxFaults /\ faults' = faults + 1

\* gapFiller reads the latest block recorded ...
FindLatestBlock ==
    /\ filler = -1
    /\ filler' = block
    /\ UNCHANGED <<chain, height, block, status, db, processor, history, faults>>

Waiting == [pc |-> "waiting", i |-> 0, end |-> 0, k |-> 0]

\* Mutant: the gap starts one block late.
OfferGap_SkipsOne ==
    /\ filler >= 0
    /\ processor' = IF height > filler /\ processor = Waiting
                    THEN [pc |-> "fetch", i |-> filler + 2, end |-> height, k |-> 0]
                    ELSE processor
    /\ filler' = -1
    /\ UNCHANGED <<chain, height, block, status, db, history, faults>>

\* Mutant: a gap of one block is left.
OfferGap_LeavesOne ==
    /\ filler >= 0
    /\ processor' = IF height > filler + 1 /\ processor = Waiting
                    THEN [pc |-> "fetch", i |-> filler + 1, end |-> height, k |-> 0]
                    ELSE processor
    /\ filler' = -1
    /\ UNCHANGED <<chain, height, block, status, db, history, faults>>

\* ... and then the latest one of the chain, and hands the gap over if the processor is
\* waiting for one.
OfferGap ==
    /\ filler >= 0
    /\ processor' = IF height > filler /\ processor = Waiting
                    THEN [pc |-> "fetch", i |-> filler + 1, end |-> height, k |-> 0]
                    ELSE processor
    /\ filler' = -1
    /\ UNCHANGED <<chain, height, block, status, db, history, faults>>

-----------------------------------------------------------------------------
(* The block gap processor *)

Event == chain[processor.i][processor.k]

\* The step after an event was handled.
Following ==
    IF processor.k < Len(chain[processor.i])
    THEN [processor EXCEPT !.pc = "event", !.k = @ + 1]
    ELSE [processor EXCEPT !.pc = "insert", !.k = 0]

FillerUnchanged == UNCHANGED <<chain, height, filler>>

\* consumeHistoricalBlock reads the block, and gives the gap up when it cannot.
FetchBlock ==
    /\ processor.pc = "fetch"
    /\ processor' = Following
    /\ begun' = begun \cup {processor.i}
    /\ replayed' = (replayed \/ processor.i \in begun)
    /\ rewound' = (rewound \/ processor.i <= block)
    /\ FillerUnchanged
    /\ UNCHANGED <<block, status, db, handled, lost, missed, faults>>

FetchBlockFails ==
    /\ processor.pc = "fetch"
    /\ Fault
    /\ processor' = Waiting
    /\ FillerUnchanged
    /\ UNCHANGED <<block, status, db, history>>

\* One event of the block.  One that cannot be written is passed over.
HandleEvent ==
    /\ processor.pc = "event"
    /\ db' = HandleAbciEvent(Event, processor.i)
    /\ processor' = IF /\ Event.type = "mod"
                       /\ Known(Event.provider)
                       /\ IsMetaDataUpdated(Event)
                    THEN [processor EXCEPT !.pc = "metadata"]
                    ELSE Following
    /\ FillerUnchanged
    /\ UNCHANGED <<block, status, history, faults>>

HandleEventFails ==
    /\ processor.pc = "event"
    /\ Fault
    /\ processor' = Following
    /\ lost' = TRUE
    /\ FillerUnchanged
    /\ UNCHANGED <<block, status, db, begun, handled, replayed, rewound, missed>>

\* The metadata is downloaded and stored under the nonce of the event.  A download that
\* fails is not tried again.
UpsertProviderMetadata ==
    /\ processor.pc = "metadata"
    /\ db' = [db EXCEPT !.metadata[Event.provider] = Event.nonce]
    /\ processor' = Following
    /\ missed' = missed \ {Event.provider}
    /\ FillerUnchanged
    /\ UNCHANGED <<block, status, begun, handled, replayed, rewound, lost, faults>>

DownloadFails ==
    /\ processor.pc = "metadata"
    /\ Fault
    /\ processor' = Following
    /\ missed' = missed \cup {Event.provider}
    /\ FillerUnchanged
    /\ UNCHANGED <<block, status, db, begun, handled, replayed, rewound, lost>>

\* Mutant: the processor goes past the end of the gap.
NextBlock_OneMore ==
    IF processor.i <= processor.end
    THEN [processor EXCEPT !.pc = "fetch", !.i = @ + 1]
    ELSE Waiting

NextBlock ==
    IF processor.i < processor.end
    THEN [processor EXCEPT !.pc = "fetch", !.i = @ + 1]
    ELSE Waiting

\* The block is recorded, and so is the height, unless that fails.
InsertBlock ==
    /\ processor.pc = "insert"
    /\ block' = processor.i
    /\ handled' = handled \cup {processor.i}
    /\ processor' = NextBlock
    /\ \/ status' = processor.i /\ UNCHANGED faults
       \/ Fault /\ UNCHANGED status
    /\ FillerUnchanged
    /\ UNCHANGED <<db, begun, replayed, rewound, lost, missed>>

\* When the block cannot be recorded the next one is taken up all the same.
InsertBlockFails ==
    /\ processor.pc = "insert"
    /\ Fault
    /\ handled' = handled \cup {processor.i}
    /\ processor' = NextBlock
    /\ FillerUnchanged
    /\ UNCHANGED <<block, status, db, begun, replayed, rewound, lost, missed>>

\* The service stops, between two statements, and starts again.
Restart ==
    /\ Fault
    /\ filler' = -1
    /\ processor' = Waiting
    /\ missed' = IF processor.pc = "metadata" THEN missed \cup {Event.provider} ELSE missed
    /\ UNCHANGED <<chain, height, block, status, db, begun, handled, replayed, rewound, lost>>

-----------------------------------------------------------------------------
ChainGrows ==
    /\ height < Len(chain)
    /\ height' = height + 1
    /\ UNCHANGED <<chain, block, status, db, filler, processor, history, faults>>

Init ==
    /\ chain \in Chains
    /\ height = 0
    /\ block = 0
    /\ status = 0
    /\ db = [providers   |-> [p \in Providers |-> NoProvider],
             metadata    |-> [p \in Providers |-> 0],
             contracts   |-> [id \in Ids |-> NoContract],
             settlements |-> [id \in Ids |-> [n \in 0 .. MaxNonce |-> 0]]]
    /\ filler = -1
    /\ processor = Waiting
    /\ begun = {} /\ handled = {}
    /\ replayed = FALSE /\ rewound = FALSE /\ lost = FALSE
    /\ missed = {}
    /\ faults = 0

Filler    == FindLatestBlock \/ OfferGap
Processor == FetchBlock \/ HandleEvent \/ UpsertProviderMetadata \/ InsertBlock

Next ==
    \/ ChainGrows
    \/ Filler
    \/ Processor
    \/ FetchBlockFails \/ HandleEventFails \/ DownloadFails \/ InsertBlockFails
    \/ Restart

\* Blocks are produced; each of them, and a ticker, makes the gap filler look again;
\* the processor goes on with its gap.
Spec ==
    /\ Init /\ [][Next]_vars
    /\ WF_vars(ChainGrows) /\ WF_vars(Filler) /\ WF_vars(Processor)
-----------------------------------------------------------------------------
(* Properties *)

\* Every variable has its type.
IndexerTypeOK ==
    /\ height \in 0 .. Len(chain) /\ block \in 0 .. height /\ status \in 0 .. height
    /\ filler \in -1 .. height
    /\ processor.pc \in {"waiting", "fetch", "event", "metadata", "insert"}
    /\ processor.i \in 0 .. height /\ processor.end \in 0 .. height
    /\ begun \cup handled \subseteq 1 .. height
    /\ \A id \in Ids : db.contracts[id].settlementHeight \in 0 .. height

\* The events up to the latest block, and the last one of a set of them.
At(x)     == chain[x[1]][x[2]]
Events    == {x \in Places(chain) : x[1] <= height}
LastOf(S) == CHOOSE x \in S : \A y \in S : ~Before(x, y)

Opens(id)   == {x \in Events : At(x).type = "open" /\ At(x).id = id}
Settles(id) == {x \in Events : At(x).type = "settle" /\ At(x).id = id}
Ends(id)    == Settles(id) \cup {x \in Events : At(x).type = "close" /\ At(x).id = id}
Bonds(p)    == {x \in Events : At(x).type = "bond" /\ At(x).provider = p}
Mods(p)     == {x \in Events : At(x).type = "mod" /\ At(x).provider = p}

\* All is indexed and nothing went wrong that cannot be made up for: no write failed,
\* and blocks that were recorded before were not taken up again only to be left.
Settled ==
    /\ processor = Waiting /\ block = height
    /\ ~lost
    /\ rewound => faults = 0

\* A block counts as recorded only when its events, and those of all blocks before it,
\* were handled: no restart, failed read or failed record makes the gap filler pass
\* over a block.
NoBlockSkipped == 1 .. block \subseteq handled

\* Once all is indexed the directory agrees with the chain on each contract's last
\* settlement, its height and its nonce, and on each provider's bond, although blocks
\* may have been applied twice, in part or out of turn on the way.
DirectoryAgrees ==
    Settled =>
      /\ \A id \in Ids : Indexed(id) =>
           /\ db.contracts[id].settlementHeight =
                IF Ends(id) = {} THEN 0 ELSE LastOf(Ends(id))[1]
           /\ Settles(id) # {} => db.contracts[id].nonce = At(LastOf(Settles(id))).nonce
      /\ \A p \in Providers : Bonds(p) # {} => db.providers[p].bond = At(LastOf(Bonds(p))).bond

\* A contract the directory does not know was opened in the same block, for the same
\* provider and delegate, as another one.
MissingOnlyIfConflict ==
    Settled => \A id \in Ids : \A x \in Opens(id) : ~Indexed(id) =>
        \E y \in Events \ {x} : /\ At(y).type = "open" /\ y[1] = x[1]
                                /\ At(y).provider = At(x).provider
                                /\ At(y).delegate = At(x).delegate

Paid(id, heights) ==
    LET S == {x \in Settles(id) : x[1] \in heights}
    IN  SumFunctionOnSet([x \in S |-> At(x).paid], S)

\* What was paid for a contract is never understated, and it is exact as long as no
\* block was applied twice: "paid = paid + $2" is applied at least once.
PaidAtLeastOnce ==
    processor = Waiting /\ ~lost => \A id \in Ids : Indexed(id) =>
        /\ db.contracts[id].paid >= Paid(id, handled)
        /\ ~replayed /\ begun = handled => db.contracts[id].paid = Paid(id, handled)

\* The settlement events recorded for a contract never add up to more than what its
\* row says was paid, whatever is applied twice: total_paid does not exceed it.
RecordsWithinPaid ==
    \A id \in Ids :
        SumFunctionOnSet(db.settlements[id], 0 .. MaxNonce) <= db.contracts[id].paid

\* The metadata shown for a provider is that of its latest nonce, unless its download
\* failed or was cut off by a restart, or the nonces started again after the provider
\* had left.
MetadataCurrent ==
    Settled => \A p \in Providers \ missed :
        (\A x, y \in Mods(p) : Before(x, y) => At(x).nonce <= At(y).nonce)
            => db.metadata[p] = db.providers[p].metadataNonce

\* The directory catches up with the chain.
EventuallyIndexed == <>[](block = Len(chain))
=============================================================================
