---------------------------- MODULE IndexerProofs ----------------------------
(***************************************************************************)
(* For every history of the market, any number of faults and restarts, and *)
(* every interleaving of the gap filler with the processor: no block is    *)
(* recorded before its events and those of all earlier blocks were         *)
(* handled; what the goroutines hold and the tables record stays within    *)
(* the chain; the settlements recorded for a contract never exceed what    *)
(* was paid, and what was paid is never understated; and once all is       *)
(* indexed the directory agrees with the chain.                            *)
(*                                                                         *)
(* Two sets of events carry the argument.  Taken are those of the blocks   *)
(* handled and of the block at hand as far as it was worked through; what  *)
(* is true of them says what the tables hold whatever was applied twice.   *)
(* Applied are those before the place the processor is at; they recede     *)
(* when a block is taken up again, and the tables hold what the latest     *)
(* event of a kind among them, or a later one, has set.                    *)
(***************************************************************************)
EXTENDS Indexer, TLAPS

-----------------------------------------------------------------------------
(* No block is passed over *)

Processors ==
    [pc : {"waiting", "fetch", "event", "metadata", "insert"},
     i : Nat, end : Nat, k : Nat]

Types ==
    /\ height \in Nat
    /\ block \in Nat
    /\ filler \in Nat \cup {-1}
    /\ processor \in Processors

\* Everything before the block a goroutine counts from was handled: the filler
\* may hold an older height than the one recorded since it read it, and the
\* processor may work on a gap that starts before or after the one recorded.
Behind ==
    /\ NoBlockSkipped
    /\ filler # -1 => 1 .. filler \subseteq handled
    /\ processor.pc # "waiting" => 1 .. (processor.i - 1) \subseteq handled

IndexerInv == Types /\ Behind

\* The processor is a processor whatever it does next in the block, and it
\* stays on that block.
LEMMA FollowingKeeps ==
    ASSUME Types
    PROVE  /\ Following \in Processors
           /\ Following.i = processor.i
           /\ [processor EXCEPT !.pc = "metadata"] \in Processors
           /\ [processor EXCEPT !.pc = "metadata"].i = processor.i
<1>1. processor \in Processors /\ processor.k + 1 \in Nat
  BY DEF Types, Processors
<1>2. /\ [processor EXCEPT !.pc = "event", !.k = @ + 1] \in Processors
      /\ [processor EXCEPT !.pc = "event", !.k = @ + 1].i = processor.i
  BY <1>1, ZenonT(60) DEF Processors
<1>3. 0 \in Nat
  OBVIOUS
<1>4. /\ [processor EXCEPT !.pc = "insert", !.k = 0] \in Processors
      /\ [processor EXCEPT !.pc = "insert", !.k = 0].i = processor.i
  BY <1>1, <1>3, ZenonT(60) DEF Processors
<1>5. /\ [processor EXCEPT !.pc = "metadata"] \in Processors
      /\ [processor EXCEPT !.pc = "metadata"].i = processor.i
  BY <1>1, ZenonT(60) DEF Processors
<1> QED
  BY <1>2, <1>4, <1>5 DEF Following

\* Before any block it waits.
LEMMA WaitingType == Waiting \in Processors /\ Waiting.pc = "waiting"
  BY DEF Waiting, Processors

\* The processor goes on to the next block only once the block is handled, so
\* all blocks before the next one are.
LEMMA NextBlockBehind ==
    ASSUME IndexerInv, processor.pc = "insert",
           handled' = handled \cup {processor.i}, processor' = NextBlock
    PROVE  /\ processor' \in Processors
           /\ 1 .. processor.i \subseteq handled'
           /\ processor'.pc # "waiting" => 1 .. (processor'.i - 1) \subseteq handled'
<1>1. processor.i \in Nat
  BY DEF IndexerInv, Types, Processors
<1>2. 1 .. processor.i \subseteq handled'
  BY <1>1 DEF IndexerInv, Behind
<1>3. CASE processor.i < processor.end
  <2> DEFINE next == [processor EXCEPT !.pc = "fetch", !.i = @ + 1]
  <2>1. next \in Processors /\ next.i = processor.i + 1
    <3>1. processor \in Processors /\ processor.i + 1 \in Nat
      BY <1>1 DEF IndexerInv, Types
    <3> QED
      BY <3>1, ZenonT(60) DEF Processors
  <2>2. processor' = next
    BY <1>3 DEF NextBlock
  <2> HIDE DEF next
  <2>3. processor'.i - 1 = processor.i
    BY <1>1, <2>1, <2>2
  <2> QED
    BY <1>2, <2>1, <2>2, <2>3
<1>4. CASE ~(processor.i < processor.end)
  BY <1>2, <1>4, WaitingType DEF NextBlock
<1> QED
  BY <1>3, <1>4

\* A step that leaves the recorded block, the filler and the handled blocks as
\* they are, and the processor on its block or back at waiting, keeps the
\* invariant.
LEMMA SameBlockKeeps ==
    ASSUME IndexerInv, height' \in Nat, UNCHANGED <<block, handled>>,
           filler' = filler \/ filler' = -1,
           processor' \in Processors,
           \/ processor'.pc = "waiting"
           \/ processor.pc # "waiting" /\ processor'.i = processor.i
    PROVE  IndexerInv'
  BY DEF IndexerInv, Types, Behind, NoBlockSkipped

\* Nothing is recorded at first.
LEMMA IndexerInitInv == Init => IndexerInv
<1> SUFFICES ASSUME Init PROVE IndexerInv
  OBVIOUS
<1>1. Types
  BY WaitingType DEF Init, Types
<1>2. 1 .. block = {}
  BY DEF Init
<1> QED
  BY <1>1, <1>2, WaitingType DEF IndexerInv, Behind, NoBlockSkipped, Init

\* Every step of the filler, of the processor, of the chain, every fault and
\* every restart keeps the invariant.
LEMMA IndexerStepInv == IndexerInv /\ [Next]_vars => IndexerInv'
<1> SUFFICES ASSUME IndexerInv, [Next]_vars PROVE IndexerInv'
  OBVIOUS
<1> USE DEF history, FillerUnchanged
<1>0. /\ height \in Nat /\ block \in Nat /\ processor \in Processors
      /\ filler \in Nat \cup {-1}
  BY DEF IndexerInv, Types
<1>1. CASE ChainGrows
  BY <1>0, <1>1 DEF ChainGrows, IndexerInv, Types, Behind, NoBlockSkipped
<1>2. CASE FindLatestBlock
  BY <1>0, <1>2 DEF FindLatestBlock, IndexerInv, Types, Behind, NoBlockSkipped
<1>3. CASE OfferGap
  <2>1. CASE height > filler /\ processor = Waiting
    <3> DEFINE gap == [pc |-> "fetch", i |-> filler + 1, end |-> height, k |-> 0]
    <3>1. filler \in Nat
      BY <1>0, <1>3 DEF OfferGap
    <3>2. gap \in Processors /\ gap.i - 1 = filler
      BY <1>0, <3>1 DEF Processors
    <3>3. /\ processor' = gap /\ filler' = -1
          /\ UNCHANGED <<height, block, handled>>
      BY <1>3, <2>1 DEF OfferGap
    <3> HIDE DEF gap
    <3>4. 1 .. filler \subseteq handled
      BY <3>1 DEF IndexerInv, Behind
    <3> QED
      BY <1>0, <3>2, <3>3, <3>4 DEF IndexerInv, Types, Behind, NoBlockSkipped
  <2>2. CASE ~(height > filler /\ processor = Waiting)
    BY <1>0, <1>3, <2>2 DEF OfferGap, IndexerInv, Types, Behind, NoBlockSkipped
  <2> QED
    BY <2>1, <2>2
<1>4. CASE FetchBlock
  BY <1>0, <1>4, FollowingKeeps, SameBlockKeeps DEF FetchBlock, IndexerInv
<1>5. CASE FetchBlockFails
  BY <1>0, <1>5, WaitingType, SameBlockKeeps DEF FetchBlockFails
<1>6. CASE HandleEvent
  <2>1. \/ processor' = [processor EXCEPT !.pc = "metadata"]
        \/ processor' = Following
    BY <1>6 DEF HandleEvent
  <2>2. processor' \in Processors /\ processor'.i = processor.i
    BY <2>1, FollowingKeeps, ZenonT(60) DEF IndexerInv
  <2>3. processor.pc = "event" /\ UNCHANGED <<height, block, filler, handled>>
    BY <1>6 DEF HandleEvent
  <2> QED
    BY <1>0, <2>2, <2>3, SameBlockKeeps
<1>7. CASE HandleEventFails
  BY <1>0, <1>7, FollowingKeeps, SameBlockKeeps DEF HandleEventFails, IndexerInv
<1>8. CASE UpsertProviderMetadata
  BY <1>0, <1>8, FollowingKeeps, SameBlockKeeps DEF UpsertProviderMetadata, IndexerInv
<1>9. CASE DownloadFails
  BY <1>0, <1>9, FollowingKeeps, SameBlockKeeps DEF DownloadFails, IndexerInv
<1>10. CASE InsertBlock
  <2>1. /\ processor.pc = "insert" /\ handled' = handled \cup {processor.i}
        /\ processor' = NextBlock /\ block' = processor.i
        /\ UNCHANGED <<height, filler>>
    BY <1>10 DEF InsertBlock
  <2>2. block' \in Nat
    BY <1>0, <2>1 DEF Processors
  <2> QED
    BY <1>0, <2>1, <2>2, NextBlockBehind DEF IndexerInv, Types, Behind, NoBlockSkipped
<1>11. CASE InsertBlockFails
  <2>1. /\ processor.pc = "insert" /\ handled' = handled \cup {processor.i}
        /\ processor' = NextBlock /\ UNCHANGED <<height, block, filler>>
    BY <1>11 DEF InsertBlockFails
  <2> QED
    BY <1>0, <2>1, NextBlockBehind DEF IndexerInv, Types, Behind, NoBlockSkipped
<1>12. CASE Restart
  BY <1>0, <1>12, WaitingType, SameBlockKeeps DEF Restart
<1>13. CASE UNCHANGED vars
  BY <1>13 DEF vars, IndexerInv, Types, Behind, NoBlockSkipped
<1> QED
  BY <1>1, <1>2, <1>3, <1>4, <1>5, <1>6, <1>7, <1>8, <1>9, <1>10, <1>11, <1>12,
     <1>13 DEF Next, Filler, Processor

\* The gap filler never passes over a block, whatever fails: for every chain
\* and any number of faults, the blocks up to the recorded one were handled.
THEOREM IndexerNoBlockSkipped == Spec => []NoBlockSkipped
<1>1. IndexerInv => NoBlockSkipped
  BY DEF IndexerInv, Behind
<1> QED
  BY <1>1, IndexerInitInv, IndexerStepInv, PTL DEF Spec

-----------------------------------------------------------------------------
(* The tables, and where the goroutines are *)

\* The rows of table contracts, and the shape of the database.
RowFields == {"height", "provider", "delegate", "nonce", "paid", "settlementHeight"}

IsRow(r) ==
    /\ r = [f \in RowFields |-> r[f]]
    /\ r.height \in Nat /\ r.paid \in Nat /\ r.settlementHeight \in Nat

Tables == {"providers", "metadata", "contracts", "settlements"}

Database(d) ==
    /\ d = [f \in Tables |-> d[f]]
    /\ d.contracts = [id \in Ids |-> d.contracts[id]] /\ \A id \in Ids : IsRow(d.contracts[id])
    /\ d.settlements \in [Ids -> [0 .. MaxNonce -> Nat]]

\* What is recorded of the contract id is within what was paid, and it was settled by h.
RowOK(d, id, h) ==
    /\ SumFunctionOnSet(d.settlements[id], 0 .. MaxNonce) <= d.contracts[id].paid
    /\ d.contracts[id].settlementHeight <= h

\* The other tables may change.
LEMMA OtherTables ==
    ASSUME NEW d, Database(d), NEW h, \A id \in Ids : RowOK(d, id, h),
           NEW after, after = [f \in Tables |-> after[f]],
           after.contracts = d.contracts, after.settlements = d.settlements
    PROVE  Database(after) /\ \A id \in Ids : RowOK(after, id, h)
BY ZenonT(60) DEF Database, RowOK

\* The processor is waiting, or within the chain up to the height h and within the block.
Position(p, h) ==
    /\ p \in Processors /\ p.i <= h /\ p.end <= h
    /\ p.pc # "waiting" => 1 <= p.i
    /\ p.pc \in {"event", "metadata"} => 1 <= p.k /\ p.k <= Len(chain[p.i])

\* What the gap filler and the processor count on.
Within ==
    /\ chain \in Chains
    /\ height \in Nat /\ height <= Len(chain)
    /\ block \in Nat /\ block <= height /\ status \in Nat /\ status <= height
    /\ filler \in Nat \cup {-1} /\ filler <= height
    /\ Position(processor, height)
    /\ begun \subseteq 1 .. height /\ handled \subseteq 1 .. height

\* The tables agree with the height.
DatabaseOK == Database(db) /\ \A id \in Ids : RowOK(db, id, height)

RecordsInv == Within /\ DatabaseOK

\* A block of the chain has a length and its events are events.
LEMMA BlockType ==
    ASSUME Within, NEW i \in Nat, 1 <= i, i <= height
    PROVE  /\ Len(chain[i]) \in Nat
           /\ \A k \in 1 .. Len(chain[i]) : IsEvent(chain[i][k])
<1>1. chain \in Chains /\ height \in Nat /\ height <= Len(chain)
  BY ZenonT(60) DEF Within
<1>2. IsSequence(chain) /\ \A h \in DOMAIN chain : IsSequence(chain[h])
                           /\ \A k \in DOMAIN chain[h] : IsEvent(chain[h][k])
  BY <1>1, IndexerAssumptions, ZenonT(60)
<1>3. Len(chain) \in Nat /\ DOMAIN chain = 1 .. Len(chain)
  BY <1>2, ZenonT(60) DEF IsSequence
<1>4. PICK n \in Nat : n = Len(chain) /\ height <= n
  BY <1>1, <1>3, ZenonT(60)
<1>5. i \in 1 .. n
  BY <1>1, <1>4
<1>6. i \in DOMAIN chain
  BY <1>3, <1>4, <1>5, ZenonT(60)
<1> QED
  BY <1>2, <1>6, ZenonT(60) DEF IsSequence

\* The processor is where it can be whatever it does next in the block.
LEMMA FollowingPosition ==
    ASSUME Within, processor.pc # "waiting"
    PROVE  Position(Following, height)
<1>1. /\ processor \in Processors /\ processor.i <= height /\ processor.end <= height
      /\ 1 <= processor.i
  BY ZenonT(60) DEF Within, Position
<1>2. processor.i \in Nat /\ processor.k \in Nat
  BY <1>1, ZenonT(60) DEF Processors
<1>3. Len(chain[processor.i]) \in Nat
  BY <1>1, <1>2, BlockType, ZenonT(60)
<1>4. Following \in Processors /\ Following.i = processor.i
  <2>1. Types
    BY ZenonT(60) DEF Within, Position, Types
  <2> QED
    BY <2>1, FollowingKeeps, ZenonT(60)
<1>5. CASE processor.k < Len(chain[processor.i])
  <2>1. PICK k : k = processor.k + 1
    BY ZenonT(60)
  <2>2. Following = [processor EXCEPT !.pc = "event", !.k = k]
    BY <1>5, <2>1, ZenonT(60) DEF Following
  <2>3. Following.pc = "event" /\ Following.k = k /\ Following.end = processor.end
    BY <1>1, <2>2, ZenonT(60) DEF Processors
  <2>4. PICK n \in Nat : n = Len(chain[processor.i]) /\ processor.k < n
    BY <1>3, <1>5, ZenonT(60)
  <2>5. 1 <= k /\ k <= n
    BY <1>2, <2>1, <2>4
  <2> QED
    BY <1>1, <1>4, <2>3, <2>4, <2>5, ZenonT(60) DEF Position
<1>6. CASE ~(processor.k < Len(chain[processor.i]))
  <2>1. Following = [processor EXCEPT !.pc = "insert", !.k = 0]
    BY <1>6, ZenonT(60) DEF Following
  <2>2. Following.pc = "insert" /\ Following.end = processor.end
    BY <1>1, <2>1, ZenonT(60) DEF Processors
  <2>3. Following.pc \notin {"event", "metadata"}
    BY <2>2
  <2> QED
    BY <1>1, <1>4, <2>2, <2>3, ZenonT(60) DEF Position
<1> QED
  BY <1>5, <1>6

\* The download of the metadata belongs to the event.
LEMMA MetadataPosition ==
    ASSUME Within, processor.pc = "event"
    PROVE  Position([processor EXCEPT !.pc = "metadata"], height)
<1>1. /\ processor \in Processors /\ processor.i <= height /\ processor.end <= height
      /\ processor.pc # "waiting" /\ processor.pc \in {"event", "metadata"}
  BY ZenonT(60) DEF Within, Position
<1>2. 1 <= processor.i /\ 1 <= processor.k /\ processor.k <= Len(chain[processor.i])
  BY <1>1, ZenonT(60) DEF Within, Position
<1>3. PICK q : q = [processor EXCEPT !.pc = "metadata"]
  BY ZenonT(60)
<1>4. q \in Processors /\ q.i = processor.i /\ q.end = processor.end /\ q.k = processor.k
  BY <1>1, <1>3, ZenonT(60) DEF Processors
<1> QED
  BY <1>1, <1>2, <1>3, <1>4, ZenonT(60) DEF Position

\* The processor waits.
LEMMA WaitingPosition == ASSUME NEW h \in Nat PROVE Position(Waiting, h)
<1>1. Waiting.i = 0 /\ Waiting.end = 0
  BY DEF Waiting
<1>2. 0 <= h
  OBVIOUS
<1>3. Waiting.pc \notin {"event", "metadata"}
  BY WaitingType
<1> QED
  BY <1>1, <1>2, <1>3, WaitingType, ZenonT(60) DEF Position

\* The processor goes on to a block within its gap.
LEMMA NextBlockPosition ==
    ASSUME Within, processor.pc = "insert"
    PROVE  Position(NextBlock, height)
<1>1. /\ processor \in Processors /\ processor.i <= height /\ processor.end <= height
      /\ height \in Nat
  BY ZenonT(60) DEF Within, Position
<1>2. processor.i \in Nat /\ processor.end \in Nat
  BY <1>1, ZenonT(60) DEF Processors
<1>3. CASE processor.i < processor.end
  <2>1. PICK i \in Nat : i = processor.i + 1
    BY <1>2
  <2>2. NextBlock = [processor EXCEPT !.pc = "fetch", !.i = i]
    BY <1>3, <2>1, ZenonT(60) DEF NextBlock
  <2>3. PICK q : q = [processor EXCEPT !.pc = "fetch", !.i = i]
    BY ZenonT(60)
  <2>4. q \in Processors /\ q.pc = "fetch" /\ q.i = i /\ q.end = processor.end
    BY <1>1, <2>3, ZenonT(60) DEF Processors
  <2>5. 1 <= i /\ i <= height
    BY <1>1, <1>2, <1>3, <2>1
  <2>6. q.pc \notin {"event", "metadata"}
    BY <2>4
  <2> QED
    BY <1>1, <2>2, <2>3, <2>4, <2>5, <2>6, ZenonT(60) DEF Position
<1>4. CASE ~(processor.i < processor.end)
  BY <1>1, <1>4, WaitingPosition, ZenonT(60) DEF NextBlock
<1> QED
  BY <1>3, <1>4

\* A step at the same height that moves the processor, or records the block it is on.
LEMMA MovedWithin ==
    ASSUME Within, UNCHANGED <<chain, height>>, Position(processor', height),
           block' = block \/ (processor.pc # "waiting" /\ block' = processor.i),
           status' = status \/ (processor.pc # "waiting" /\ status' = processor.i),
           filler' = filler \/ filler' = -1 \/ filler' = block,
           begun' = begun \/ (processor.pc # "waiting" /\ begun' = begun \cup {processor.i}),
           handled' = handled \/ (processor.pc # "waiting" /\ handled' = handled \cup {processor.i})
    PROVE  Within'
<1>1. /\ chain \in Chains /\ height \in Nat /\ height <= Len(chain)
      /\ block \in Nat /\ block <= height /\ status \in Nat /\ status <= height
      /\ filler \in Nat \cup {-1} /\ filler <= height
      /\ begun \subseteq 1 .. height /\ handled \subseteq 1 .. height
  BY ZenonT(60) DEF Within
<1>2. processor.pc # "waiting" => /\ processor.i \in Nat /\ processor.i <= height
                                  /\ processor.i \in 1 .. height
  <2>1. processor.pc # "waiting" =>
          processor \in Processors /\ processor.i <= height /\ 1 <= processor.i
    BY ZenonT(60) DEF Within, Position
  <2>2. processor.pc # "waiting" => processor.i \in Nat
    BY <2>1, ZenonT(60) DEF Processors
  <2> QED
    BY <1>1, <2>1, <2>2
<1>3. Position(processor, height)'
  BY ZenonT(60) DEF Position
<1>4. /\ block' \in Nat /\ block' <= height /\ status' \in Nat /\ status' <= height
      /\ begun' \subseteq 1 .. height /\ handled' \subseteq 1 .. height
  BY <1>1, <1>2, ZenonT(60)
<1>5. filler' \in Nat \cup {-1} /\ filler' <= height
  BY <1>1
<1> QED
  BY <1>1, <1>3, <1>4, <1>5, ZenonT(60) DEF Within

\* The tables stay as they are.
LEMMA DatabaseKept ==
    ASSUME DatabaseOK, UNCHANGED <<height, db>>
    PROVE  DatabaseOK'
BY ZenonT(60) DEF DatabaseOK, Database, RowOK

\* A new block of the chain leaves all that is indexed within it.
LEMMA HigherKeeps ==
    ASSUME RecordsInv, height < Len(chain), height' = height + 1,
           UNCHANGED <<chain, block, status, db, filler, processor, begun, handled>>
    PROVE  RecordsInv'
<1>1. /\ chain \in Chains /\ height \in Nat /\ height <= Len(chain)
      /\ block \in Nat /\ block <= height /\ status \in Nat /\ status <= height
      /\ filler \in Nat \cup {-1} /\ filler <= height
      /\ Position(processor, height)
      /\ begun \subseteq 1 .. height /\ handled \subseteq 1 .. height
  BY ZenonT(60) DEF RecordsInv, Within
<1>2. PICK h \in Nat : h = height + 1
  BY <1>1
<1>3. /\ \A x \in Nat \cup {-1} : x <= height => x <= h
      /\ 1 .. height \subseteq 1 .. h
  BY <1>1, <1>2
<1>4. h <= Len(chain)
  <2>1. Len(chain) \in Nat
    BY <1>1, IndexerAssumptions, ZenonT(60) DEF IsSequence
  <2> QED
    BY <1>1, <1>2, <2>1
<1>5. Position(processor, h)
  <2>1. processor.i \in Nat \cup {-1} /\ processor.end \in Nat \cup {-1}
    BY <1>1, ZenonT(60) DEF Position, Processors
  <2> QED
    BY <1>1, <1>3, <2>1, ZenonT(60) DEF Position
<1>6. height' = h
  BY <1>2
<1>7. Within'
  <2>1. Position(processor, height)'
    BY <1>5, <1>6, ZenonT(60) DEF Position
  <2> QED
    BY <1>1, <1>3, <1>4, <1>6, <2>1, ZenonT(60) DEF Within
<1>8. DatabaseOK'
  <2>1. Database(db) /\ \A id \in Ids : RowOK(db, id, height)
    BY ZenonT(60) DEF RecordsInv, DatabaseOK
  <2>2. \A id \in Ids : db.contracts[id].settlementHeight \in Nat \cup {-1}
    BY <2>1, ZenonT(60) DEF Database, IsRow
  <2>3. \A id \in Ids : RowOK(db, id, h)
    BY <1>3, <2>1, <2>2, ZenonT(60) DEF RowOK
  <2>4. Database(db)' /\ \A id \in Ids : RowOK(db, id, height)'
    BY <1>6, <2>1, <2>3, ZenonT(60) DEF Database, RowOK
  <2> QED
    BY <2>4, ZenonT(60) DEF DatabaseOK
<1> QED
  BY <1>7, <1>8 DEF RecordsInv

\* The gap that is offered ends at the latest block of the chain.
LEMMA GapPosition ==
    ASSUME Within, filler >= 0, height > filler
    PROVE  Position([pc |-> "fetch", i |-> filler + 1, end |-> height, k |-> 0], height)
<1>1. height \in Nat /\ filler \in Nat \cup {-1}
  BY ZenonT(60) DEF Within
<1>2. PICK i \in Nat : i = filler + 1
  BY <1>1
<1>3. 1 <= i /\ i <= height /\ height <= height /\ 0 \in Nat
  BY <1>1, <1>2
<1>4. PICK q : q = [pc |-> "fetch", i |-> i, end |-> height, k |-> 0]
  BY ZenonT(60)
<1>5. /\ q \in Processors /\ q.i = i /\ q.end = height
      /\ q.pc \notin {"event", "metadata"}
  BY <1>1, <1>3, <1>4 DEF Processors
<1>6. Position(q, height)
  BY <1>3, <1>5, ZenonT(60) DEF Position
<1> QED
  BY <1>2, <1>4, <1>6, ZenonT(60)

-----------------------------------------------------------------------------
(* What is recorded of settlements *)

\* What the settlements among the places S of a chain paid.
Amount(c, S) == SumFunctionOnSet([x \in Places(c) |-> c[x[1]][x[2]].paid], S)

\* What is paid by a set of events, by one event more, and by a part of them.
Adds(c, S) ==
    /\ IsFiniteSet(S) /\ Amount(c, S) \in Nat /\ Amount(c, {}) = 0
    /\ \A x \in Places(c) \ S :
         Amount(c, S \cup {x}) = Amount(c, S) + c[x[1]][x[2]].paid
    /\ \A T \in SUBSET S : Amount(c, T) <= Amount(c, S)
    /\ SumFunctionOnSet([x \in S |-> c[x[1]][x[2]].paid], S) = Amount(c, S)

\* The records given, within what was paid, become s with a settlement of the nonce n.
Records(given, s, n, paid, new) ==
    /\ {given, s} \subseteq [0 .. MaxNonce -> Nat] /\ n \in 0 .. MaxNonce
    /\ \A m \in (0 .. MaxNonce) \ {n} : given[m] = s[m]
    /\ s[n] = new \/ s[n] = given[n]
    /\ paid \in Nat /\ new \in Nat
    /\ SumFunctionOnSet(given, 0 .. MaxNonce) <= paid

\* What the argument uses of sums; it is shown at the end, from the lemmas about sums: the
\* sum of no settlements, of one more, and what a set of events pays.
SumFacts ==
    /\ \A s : (\A n \in 0 .. MaxNonce : s[n] = 0) => SumFunctionOnSet(s, 0 .. MaxNonce) = 0
    /\ \A given, s, n, paid, new :
         Records(given, s, n, paid, new) => SumFunctionOnSet(s, 0 .. MaxNonce) <= paid + new
    /\ \A c \in Chains : \A S \in SUBSET Places(c) : Adds(c, S)

\* The row and the settlements of one contract change to row and s.
RowReplaced(d, after, id, row, s, h) ==
    /\ Database(d) /\ \A i \in Ids : RowOK(d, i, h)
    /\ after = [f \in Tables |-> after[f]]
    /\ id \in Ids /\ IsRow(row) /\ s \in [0 .. MaxNonce -> Nat]
    /\ after.contracts = [d.contracts EXCEPT ![id] = row]
    /\ after.settlements = [d.settlements EXCEPT ![id] = s]
    /\ SumFunctionOnSet(s, 0 .. MaxNonce) <= row.paid /\ row.settlementHeight <= h

\* A database whose rows are in order stays one when a row in order replaces another.
LEMMA OneRow ==
    ASSUME NEW d, NEW after, NEW id, NEW row, NEW s, NEW h,
           RowReplaced(d, after, id, row, s, h)
    PROVE  Database(after) /\ \A i \in Ids : RowOK(after, i, h)
<1>0. /\ Database(d) /\ \A i \in Ids : RowOK(d, i, h)
      /\ after = [f \in Tables |-> after[f]]
      /\ id \in Ids /\ IsRow(row) /\ s \in [0 .. MaxNonce -> Nat]
      /\ after.contracts = [d.contracts EXCEPT ![id] = row]
      /\ after.settlements = [d.settlements EXCEPT ![id] = s]
      /\ SumFunctionOnSet(s, 0 .. MaxNonce) <= row.paid /\ row.settlementHeight <= h
  BY ZenonT(60) DEF RowReplaced
<1>1. /\ d.contracts = [i \in Ids |-> d.contracts[i]] /\ \A i \in Ids : IsRow(d.contracts[i])
      /\ d.settlements \in [Ids -> [0 .. MaxNonce -> Nat]]
  BY <1>0, ZenonT(60) DEF Database
<1>2. /\ after.contracts = [i \in Ids |-> after.contracts[i]]
      /\ after.settlements \in [Ids -> [0 .. MaxNonce -> Nat]]
      /\ after.contracts[id] = row /\ after.settlements[id] = s
      /\ \A i \in Ids \ {id} : /\ after.contracts[i] = d.contracts[i]
                               /\ after.settlements[i] = d.settlements[i]
  BY <1>0, <1>1, ZenonT(60)
<1>3. Database(after)
  BY <1>0, <1>1, <1>2, ZenonT(60) DEF Database
<1>4. ASSUME NEW i \in Ids PROVE RowOK(after, i, h)
  <2>1. CASE i = id
    BY <1>0, <1>2, <2>1, ZenonT(60) DEF RowOK
  <2>2. CASE i # id
    BY <1>0, <1>2, <2>2, ZenonT(60) DEF RowOK
  <2> QED
    BY <2>1, <2>2
<1> QED
  BY <1>3, <1>4

\* An event that is applied to the database.
LEMMA EventApplied ==
    ASSUME SumFacts, Database(db), NEW h \in Nat, NEW top \in Nat, h <= top,
           \A id \in Ids : RowOK(db, id, top), NEW e, IsEvent(e), NEW after,
           after = HandleAbciEvent(e, h)
    PROVE  Database(after) /\ \A id \in Ids : RowOK(after, id, top)
<1>1. /\ db = [f \in Tables |-> db[f]]
      /\ db.contracts = [i \in Ids |-> db.contracts[i]] /\ \A i \in Ids : IsRow(db.contracts[i])
      /\ db.settlements \in [Ids -> [0 .. MaxNonce -> Nat]]
  BY ZenonT(60) DEF Database
<1>2. /\ e.type \in {"bond", "mod", "open", "settle", "close"} /\ e.provider \in Providers
      /\ e.id \in Ids /\ e.nonce \in 0 .. MaxNonce /\ e.paid \in Nat
  BY ZenonT(60) DEF IsEvent
<1>3. PICK old, given :
        /\ IsRow(old) /\ given \in [0 .. MaxNonce -> Nat]
        /\ old = db.contracts[e.id] /\ given = db.settlements[e.id]
        /\ SumFunctionOnSet(given, 0 .. MaxNonce) <= old.paid /\ old.settlementHeight <= top
  BY <1>1, <1>2, ZenonT(60) DEF RowOK
<1>4. CASE after = db
  BY <1>4
<1>5. CASE after = HandleBondProviderEvent(e)
  <2>1. /\ after = [f \in Tables |-> after[f]]
        /\ after.contracts = db.contracts /\ after.settlements = db.settlements
    BY <1>1, <1>5, ZenonT(60) DEF HandleBondProviderEvent, Tables
  <2> QED
    BY <2>1, OtherTables, ZenonT(60)
<1>6. CASE after = [db EXCEPT !.providers[e.provider].metadataNonce = e.nonce]
  <2>1. /\ after = [f \in Tables |-> after[f]]
        /\ after.contracts = db.contracts /\ after.settlements = db.settlements
    BY <1>1, <1>6 DEF Tables
  <2> QED
    BY <2>1, OtherTables, ZenonT(60)
<1>7. ASSUME NEW row, IsRow(row), row.paid = old.paid, row.settlementHeight <= top,
             after = [db EXCEPT !.contracts[e.id] = row]
      PROVE  Database(after) /\ \A id \in Ids : RowOK(after, id, top)
  <2>1. /\ after = [f \in Tables |-> after[f]]
        /\ after.contracts = [db.contracts EXCEPT ![e.id] = row]
        /\ after.settlements = db.settlements
    BY <1>1, <1>7, ZenonT(60) DEF Tables
  <2>2. after.settlements = [db.settlements EXCEPT ![e.id] = given]
    BY <1>1, <1>2, <1>3, <2>1, ZenonT(60)
  <2>3. SumFunctionOnSet(given, 0 .. MaxNonce) <= row.paid
    BY <1>3, <1>7
  <2>4. RowReplaced(db, after, e.id, row, given, top)
    BY <1>2, <1>3, <1>7, <2>1, <2>2, <2>3, ZenonT(60) DEF RowReplaced
  <2> QED
    BY <2>4, OneRow, ZenonT(60)
<1>8. CASE after = [db EXCEPT !.contracts[e.id] =
                      [@ EXCEPT !.height = h, !.provider = e.provider, !.delegate = e.delegate,
                                !.settlementHeight = 0]]
  <2>1. PICK row : row = [old EXCEPT !.height = h, !.provider = e.provider,
                                     !.delegate = e.delegate, !.settlementHeight = 0]
    BY ZenonT(60)
  <2>2. IsRow(row) /\ row.paid = old.paid /\ row.settlementHeight = 0
    BY <1>2, <1>3, <2>1, ZenonT(60) DEF IsRow, RowFields
  <2>3. after = [db EXCEPT !.contracts[e.id] = row]
    BY <1>3, <1>8, <2>1
  <2>4. row.settlementHeight <= top
    BY <2>2
  <2> QED
    BY <1>7, <2>2, <2>3, <2>4, ZenonT(60)
<1>9. CASE after = [db EXCEPT !.contracts[e.id].settlementHeight = h]
  <2>1. PICK row : row = [old EXCEPT !.settlementHeight = h]
    BY ZenonT(60)
  <2>2. IsRow(row) /\ row.paid = old.paid /\ row.settlementHeight = h
    BY <1>3, <2>1 DEF IsRow, RowFields
  <2>3. after = [db EXCEPT !.contracts[e.id] = row]
    BY <1>1, <1>2, <1>3, <1>9, <2>1, ZenonT(60)
  <2>4. row.settlementHeight <= top
    BY <2>2
  <2> QED
    BY <1>7, <2>2, <2>3, <2>4, ZenonT(60)
<1>10. CASE after = [db EXCEPT !.contracts[e.id] = SettledRow(@, e, h),
                               !.settlements[e.id][e.nonce] = IF e.tx THEN e.paid ELSE @]
  <2>1. old.paid \in Nat /\ given[e.nonce] \in Nat
    BY <1>2, <1>3, ZenonT(60) DEF IsRow
  <2>2. PICK total \in Nat : total = old.paid + e.paid
    BY <1>2, <2>1
  <2>3. PICK row : row = [old EXCEPT !.nonce = e.nonce, !.paid = total, !.settlementHeight = h]
    BY ZenonT(60)
  <2>4. IsRow(row) /\ row.paid = total /\ row.settlementHeight = h
    BY <1>3, <2>3, ZenonT(60) DEF IsRow, RowFields
  <2>5. PICK k \in Nat : /\ k = (IF e.tx THEN e.paid ELSE given[e.nonce])
                         /\ k = e.paid \/ k = given[e.nonce]
    BY <1>2, <2>1, ZenonT(60)
  <2>6. PICK s : s = [given EXCEPT ![e.nonce] = k]
    BY ZenonT(60)
  <2>7. s \in [0 .. MaxNonce -> Nat] /\ SumFunctionOnSet(s, 0 .. MaxNonce) <= total
    <3>1. /\ s \in [0 .. MaxNonce -> Nat] /\ s[e.nonce] = k
          /\ \A m \in (0 .. MaxNonce) \ {e.nonce} : given[m] = s[m]
      BY <1>2, <1>3, <2>6, ZenonT(60)
    <3>2. s[e.nonce] = e.paid \/ s[e.nonce] = given[e.nonce]
      BY <2>5, <3>1, ZenonT(60)
    <3>3. SumFunctionOnSet(s, 0 .. MaxNonce) <= total
      <4>1. Records(given, s, e.nonce, old.paid, e.paid)
        BY <1>2, <1>3, <2>1, <3>1, <3>2, ZenonT(60) DEF Records
      <4> QED
        BY <2>2, <4>1 DEF SumFacts
    <3> QED
      BY <3>1, <3>3
  <2>8. after = [f \in Tables |-> after[f]]
    BY <1>1, <1>10, ZenonT(60) DEF Tables
  <2>9. after.contracts = [db.contracts EXCEPT ![e.id] = row]
    <3>1. row = SettledRow(db.contracts[e.id], e, h)
      BY <1>3, <2>2, <2>3, ZenonT(60) DEF SettledRow
    <3> QED
      BY <1>1, <1>2, <1>10, <3>1, ZenonT(60) DEF Tables
  <2>10. after.settlements = [db.settlements EXCEPT ![e.id] = s]
    BY <1>1, <1>2, <1>3, <1>10, <2>5, <2>6, ZenonT(60) DEF Tables
  <2>11. row.settlementHeight <= top
    BY <2>4, ZenonT(60)
  <2>12. RowReplaced(db, after, e.id, row, s, top)
    BY <1>2, <2>4, <2>7, <2>8, <2>9, <2>10, <2>11, ZenonT(60) DEF RowReplaced
  <2> QED
    BY <2>12, OneRow, ZenonT(60)
<1> QED
  BY <1>2, <1>4, <1>5, <1>6, <1>8, <1>9, <1>10, ZenonT(60)
  DEF HandleAbciEvent, HandleModProviderEvent, HandleOpenContractEvent,
      HandleContractSettlementEvent, HandleCloseContractEvent

\* Nothing is indexed at first.
LEMMA RecordsInit == SumFacts /\ Init => RecordsInv
<1> SUFFICES ASSUME SumFacts, Init PROVE RecordsInv
  OBVIOUS
<1>1. /\ chain \in Chains /\ height = 0 /\ block = 0 /\ status = 0 /\ filler = -1
      /\ processor = Waiting /\ begun = {} /\ handled = {}
  BY ZenonT(60) DEF Init
<1>2. Within
  <2>1. Len(chain) \in Nat
    BY <1>1, IndexerAssumptions, ZenonT(60) DEF IsSequence
  <2>2. PICK n \in Nat : n = Len(chain)
    BY <2>1, ZenonT(60)
  <2>3. 0 \in Nat /\ 0 <= n /\ 0 <= 0 /\ -1 \in Nat \cup {-1} /\ -1 <= 0
    OBVIOUS
  <2>4. Position(Waiting, 0)
    BY WaitingPosition
  <2> QED
    BY <1>1, <2>2, <2>3, <2>4, ZenonT(60) DEF Within
<1>3. /\ db = [f \in Tables |-> db[f]]
      /\ db.contracts = [id \in Ids |-> NoContract]
      /\ db.settlements = [id \in Ids |-> [n \in 0 .. MaxNonce |-> 0]]
  BY ZenonT(60) DEF Init, Tables
<1>4. IsRow(NoContract) /\ NoContract.paid = 0 /\ NoContract.settlementHeight = 0
  BY ZenonT(60) DEF NoContract, IsRow, RowFields
<1>5. Database(db)
  <2>1. [n \in 0 .. MaxNonce |-> 0] \in [0 .. MaxNonce -> Nat]
    OBVIOUS
  <2> QED
    BY <1>3, <1>4, <2>1, ZenonT(60) DEF Database
<1>6. ASSUME NEW id \in Ids PROVE RowOK(db, id, height)
  <2>1. PICK z : z = [n \in 0 .. MaxNonce |-> 0]
    BY ZenonT(60)
  <2>2. \A n \in 0 .. MaxNonce : z[n] = 0
    BY <2>1, ZenonT(60)
  <2>3. SumFunctionOnSet(z, 0 .. MaxNonce) = 0
    BY <2>2, ZenonT(60) DEF SumFacts
  <2>4. db.settlements[id] = z /\ db.contracts[id] = NoContract
    BY <1>3, <2>1, ZenonT(60)
  <2>5. 0 <= 0
    OBVIOUS
  <2> QED
    BY <1>1, <1>4, <2>3, <2>4, <2>5, ZenonT(60) DEF RowOK
<1> QED
  BY <1>2, <1>5, <1>6 DEF RecordsInv, DatabaseOK

\* An event of the block is applied.
LEMMA EventKeeps ==
    ASSUME SumFacts, RecordsInv, HandleEvent
    PROVE  DatabaseOK'
<1>1. /\ processor.pc = "event" /\ db' = HandleAbciEvent(Event, processor.i)
      /\ UNCHANGED height
  BY ZenonT(60) DEF HandleEvent, FillerUnchanged
<1>2. Within /\ Database(db) /\ \A id \in Ids : RowOK(db, id, height)
  BY ZenonT(60) DEF RecordsInv, DatabaseOK
<1>3. /\ height \in Nat /\ processor \in Processors /\ processor.i <= height
      /\ 1 <= processor.i /\ 1 <= processor.k /\ processor.k <= Len(chain[processor.i])
  <2>1. processor.pc # "waiting" /\ processor.pc \in {"event", "metadata"}
    BY <1>1
  <2> QED
    BY <1>2, <2>1, ZenonT(60) DEF Within, Position
<1>4. processor.i \in Nat /\ processor.k \in Nat
  BY <1>3, ZenonT(60) DEF Processors
<1>5. /\ Len(chain[processor.i]) \in Nat
      /\ \A k \in 1 .. Len(chain[processor.i]) : IsEvent(chain[processor.i][k])
  BY <1>2, <1>3, <1>4, BlockType, ZenonT(60)
<1>6. processor.k \in 1 .. Len(chain[processor.i])
  BY <1>3, <1>4, <1>5
<1>7. IsEvent(Event)
  BY <1>5, <1>6, ZenonT(60) DEF Event
<1>8. PICK after, e : after = HandleAbciEvent(e, processor.i) /\ e = Event
  BY ZenonT(60)
<1>9. Database(after) /\ \A id \in Ids : RowOK(after, id, height)
  BY <1>2, <1>3, <1>4, <1>7, <1>8, EventApplied, ZenonT(60)
<1>10. db' = after /\ height' = height
  BY <1>1, <1>8, ZenonT(60)
<1>11. Database(db)' /\ \A id \in Ids : RowOK(db, id, height)'
  BY <1>9, <1>10, ZenonT(60) DEF Database, RowOK
<1> QED
  BY <1>11, ZenonT(60) DEF DatabaseOK

\* The metadata of a provider is not part of the contracts.
LEMMA MetadataKeeps ==
    ASSUME RecordsInv, UpsertProviderMetadata
    PROVE  DatabaseOK'
<1>1. db' = [db EXCEPT !.metadata[Event.provider] = Event.nonce] /\ UNCHANGED height
  BY ZenonT(60) DEF UpsertProviderMetadata, FillerUnchanged
<1>2. Database(db) /\ \A id \in Ids : RowOK(db, id, height)
  BY ZenonT(60) DEF RecordsInv, DatabaseOK
<1>3. db = [f \in Tables |-> db[f]]
  BY <1>2, ZenonT(60) DEF Database
<1>4. PICK after : after = [db EXCEPT !.metadata[Event.provider] = Event.nonce]
  BY ZenonT(60)
<1>5. /\ after = [f \in Tables |-> after[f]]
      /\ after.contracts = db.contracts /\ after.settlements = db.settlements
  BY <1>3, <1>4, ZenonT(60) DEF Tables
<1>6. Database(after) /\ \A id \in Ids : RowOK(after, id, height)
  BY <1>2, <1>5, OtherTables, ZenonT(60)
<1>7. db' = after /\ height' = height
  BY <1>1, <1>4, ZenonT(60)
<1>8. Database(db)' /\ \A id \in Ids : RowOK(db, id, height)'
  BY <1>6, <1>7, ZenonT(60) DEF Database, RowOK
<1> QED
  BY <1>8, ZenonT(60) DEF DatabaseOK

\* Every step keeps what is recorded within the chain and within what was paid.
LEMMA RecordsStep == SumFacts /\ RecordsInv /\ [Next]_vars => RecordsInv'
<1> SUFFICES ASSUME SumFacts, RecordsInv, [Next]_vars PROVE RecordsInv'
  OBVIOUS
<1>0. /\ Within /\ DatabaseOK /\ height \in Nat /\ Position(Waiting, height)
      /\ Position(processor, height)
  <2>1. Within /\ DatabaseOK /\ height \in Nat /\ Position(processor, height)
    BY ZenonT(60) DEF RecordsInv, Within
  <2> QED
    BY <2>1, WaitingPosition
<1>1. CASE ChainGrows
  BY <1>1, HigherKeeps, ZenonT(60) DEF ChainGrows, history
<1>2. CASE FindLatestBlock
  <2>1. Within'
    BY <1>0, <1>2, MovedWithin, ZenonT(60) DEF FindLatestBlock, history
  <2> QED
    BY <1>0, <1>2, <2>1, DatabaseKept, ZenonT(60) DEF FindLatestBlock, RecordsInv
<1>3. CASE OfferGap
  <2>1. Position(processor', height)
    <3>1. CASE height > filler /\ processor = Waiting
      BY <1>0, <1>3, <3>1, GapPosition, ZenonT(60) DEF OfferGap
    <3>2. CASE ~(height > filler /\ processor = Waiting)
      BY <1>0, <1>3, <3>2, ZenonT(60) DEF OfferGap
    <3> QED
      BY <3>1, <3>2
  <2>2. Within'
    BY <1>0, <1>3, <2>1, MovedWithin, ZenonT(60) DEF OfferGap, history
  <2> QED
    BY <1>0, <1>3, <2>2, DatabaseKept, ZenonT(60) DEF OfferGap, RecordsInv
<1>4. CASE FetchBlock
  <2>1. processor.pc # "waiting"
    BY <1>4 DEF FetchBlock
  <2>2. Within'
    BY <1>0, <1>4, <2>1, FollowingPosition, MovedWithin, ZenonT(60)
    DEF FetchBlock, FillerUnchanged
  <2> QED
    BY <1>0, <1>4, <2>2, DatabaseKept, ZenonT(60) DEF FetchBlock, FillerUnchanged, RecordsInv
<1>5. CASE FetchBlockFails
  <2>1. Within'
    BY <1>0, <1>5, MovedWithin, ZenonT(60) DEF FetchBlockFails, FillerUnchanged, history
  <2> QED
    BY <1>0, <1>5, <2>1, DatabaseKept, ZenonT(60)
    DEF FetchBlockFails, FillerUnchanged, RecordsInv
<1>6. CASE HandleEvent
  <2>1. processor.pc # "waiting" /\ processor.pc = "event"
    BY <1>6 DEF HandleEvent
  <2>2. Position(processor', height)
    BY <1>0, <1>6, <2>1, FollowingPosition, MetadataPosition, ZenonT(60) DEF HandleEvent
  <2>3. Within'
    BY <1>0, <1>6, <2>2, MovedWithin, ZenonT(60) DEF HandleEvent, FillerUnchanged, history
  <2> QED
    BY <1>6, <2>3, EventKeeps, ZenonT(60) DEF RecordsInv
<1>7. CASE HandleEventFails
  <2>1. processor.pc # "waiting"
    BY <1>7 DEF HandleEventFails
  <2>2. Within'
    BY <1>0, <1>7, <2>1, FollowingPosition, MovedWithin, ZenonT(60)
    DEF HandleEventFails, FillerUnchanged
  <2> QED
    BY <1>0, <1>7, <2>2, DatabaseKept, ZenonT(60)
    DEF HandleEventFails, FillerUnchanged, RecordsInv
<1>8. CASE UpsertProviderMetadata
  <2>1. processor.pc # "waiting"
    BY <1>8 DEF UpsertProviderMetadata
  <2>2. Within'
    BY <1>0, <1>8, <2>1, FollowingPosition, MovedWithin, ZenonT(60)
    DEF UpsertProviderMetadata, FillerUnchanged
  <2> QED
    BY <1>8, <2>2, MetadataKeeps, ZenonT(60) DEF RecordsInv
<1>9. CASE DownloadFails
  <2>1. processor.pc # "waiting"
    BY <1>9 DEF DownloadFails
  <2>2. Within'
    BY <1>0, <1>9, <2>1, FollowingPosition, MovedWithin, ZenonT(60)
    DEF DownloadFails, FillerUnchanged
  <2> QED
    BY <1>0, <1>9, <2>2, DatabaseKept, ZenonT(60)
    DEF DownloadFails, FillerUnchanged, RecordsInv
<1>10. CASE InsertBlock
  <2>1. processor.pc # "waiting" /\ processor.pc = "insert"
    BY <1>10 DEF InsertBlock
  <2>2. Within'
    BY <1>0, <1>10, <2>1, NextBlockPosition, MovedWithin, ZenonT(60)
    DEF InsertBlock, FillerUnchanged
  <2> QED
    BY <1>0, <1>10, <2>2, DatabaseKept, ZenonT(60) DEF InsertBlock, FillerUnchanged, RecordsInv
<1>11. CASE InsertBlockFails
  <2>1. processor.pc # "waiting" /\ processor.pc = "insert"
    BY <1>11 DEF InsertBlockFails
  <2>2. Within'
    BY <1>0, <1>11, <2>1, NextBlockPosition, MovedWithin, ZenonT(60)
    DEF InsertBlockFails, FillerUnchanged
  <2> QED
    BY <1>0, <1>11, <2>2, DatabaseKept, ZenonT(60)
    DEF InsertBlockFails, FillerUnchanged, RecordsInv
<1>12. CASE Restart
  <2>1. Within'
    BY <1>0, <1>12, MovedWithin, ZenonT(60) DEF Restart
  <2> QED
    BY <1>0, <1>12, <2>1, DatabaseKept, ZenonT(60) DEF Restart, RecordsInv
<1>13. CASE UNCHANGED vars
  <2>1. Within'
    BY <1>0, <1>13, MovedWithin, ZenonT(60) DEF vars, history
  <2> QED
    BY <1>0, <1>13, <2>1, DatabaseKept, ZenonT(60) DEF vars, RecordsInv
<1> QED
  BY <1>1, <1>2, <1>3, <1>4, <1>5, <1>6, <1>7, <1>8, <1>9, <1>10, <1>11, <1>12,
     <1>13 DEF Next, Filler, Processor

\* What is within the chain has its type.
LEMMA RecordsTyped == RecordsInv => IndexerTypeOK
<1> SUFFICES ASSUME RecordsInv PROVE IndexerTypeOK
  OBVIOUS
<1>1. /\ chain \in Chains /\ height \in Nat /\ height <= Len(chain)
      /\ block \in Nat /\ block <= height /\ status \in Nat /\ status <= height
      /\ filler \in Nat \cup {-1} /\ filler <= height
      /\ processor \in Processors /\ processor.i <= height /\ processor.end <= height
      /\ begun \subseteq 1 .. height /\ handled \subseteq 1 .. height
  BY ZenonT(60) DEF RecordsInv, Within, Position
<1>2. /\ processor.pc \in {"waiting", "fetch", "event", "metadata", "insert"}
      /\ processor.i \in Nat /\ processor.end \in Nat
  BY <1>1, ZenonT(60) DEF Processors
<1>3. Len(chain) \in Nat
  BY <1>1, IndexerAssumptions, ZenonT(60) DEF IsSequence
<1>4. /\ height \in 0 .. Len(chain) /\ block \in 0 .. height /\ status \in 0 .. height
      /\ filler \in -1 .. height
      /\ processor.i \in 0 .. height /\ processor.end \in 0 .. height
  BY <1>1, <1>2, <1>3
<1>5. \A n \in Nat : n <= height => n \in 0 .. height
  BY <1>1
<1>6. \A id \in Ids : db.contracts[id].settlementHeight \in Nat
                      /\ db.contracts[id].settlementHeight <= height
  BY ZenonT(60) DEF RecordsInv, DatabaseOK, Database, IsRow, RowOK
<1>7. \A id \in Ids : db.contracts[id].settlementHeight \in 0 .. height
  BY <1>5, <1>6, ZenonT(60)
<1> QED
  BY <1>1, <1>2, <1>4, <1>7, ZenonT(60) DEF IndexerTypeOK

-----------------------------------------------------------------------------
(* The order of the events *)

\* An event of the chain has a place in a block of it.
LEMMA PlaceFacts ==
    ASSUME chain \in Chains, NEW x \in Places(chain)
    PROVE  /\ x[1] \in Nat /\ x[2] \in Nat /\ x = <<x[1], x[2]>>
           /\ 1 <= x[1] /\ 1 <= x[2] /\ x[1] <= Len(chain)
           /\ Len(chain[x[1]]) \in Nat /\ x[2] <= Len(chain[x[1]])
           /\ IsEvent(At(x))
<1>1. PICK h \in DOMAIN chain : x \in {h} \X DOMAIN chain[h]
  BY ZenonT(60) DEF Places
<1>2. PICK k \in DOMAIN chain[h] : x = <<h, k>>
  BY <1>1
<1>3. x[1] = h /\ x[2] = k
  BY <1>2
<1>4. /\ Len(chain) \in Nat /\ DOMAIN chain = 1 .. Len(chain)
      /\ Len(chain[h]) \in Nat /\ DOMAIN chain[h] = 1 .. Len(chain[h])
      /\ IsEvent(chain[h][k])
  BY <1>1, <1>2, IndexerAssumptions, ZenonT(60) DEF IsSequence
<1>5. PICK n \in Nat : n = Len(chain)
  BY <1>4, ZenonT(60)
<1>6. PICK m \in Nat : m = Len(chain[h])
  BY <1>4, ZenonT(60)
<1>7. h \in 1 .. n /\ k \in 1 .. m
  BY <1>1, <1>2, <1>4, <1>5, <1>6, ZenonT(60)
<1>8. h \in Nat /\ k \in Nat /\ 1 <= h /\ 1 <= k /\ h <= n /\ k <= m
  BY <1>7
<1> QED
  BY <1>2, <1>3, <1>4, <1>5, <1>6, <1>8, ZenonT(60) DEF At

\* Every index of a block is the place of an event.
LEMMA PlaceMade ==
    ASSUME chain \in Chains, NEW h \in Nat, NEW k \in Nat, 1 <= h, h <= Len(chain),
           1 <= k, k <= Len(chain[h])
    PROVE  <<h, k>> \in Places(chain)
<1>1. /\ Len(chain) \in Nat /\ DOMAIN chain = 1 .. Len(chain)
  BY IndexerAssumptions, ZenonT(60) DEF IsSequence
<1>2. PICK n \in Nat : n = Len(chain)
  BY <1>1, ZenonT(60)
<1>3. h \in 1 .. n
  BY <1>2
<1>4. h \in DOMAIN chain
  BY <1>1, <1>2, <1>3, ZenonT(60)
<1>5. Len(chain[h]) \in Nat /\ DOMAIN chain[h] = 1 .. Len(chain[h])
  BY <1>4, IndexerAssumptions, ZenonT(60) DEF IsSequence
<1>6. PICK m \in Nat : m = Len(chain[h])
  BY <1>5, ZenonT(60)
<1>7. k \in 1 .. m
  BY <1>6
<1>8. k \in DOMAIN chain[h]
  BY <1>5, <1>6, <1>7, ZenonT(60)
<1>9. <<h, k>> \in {h} \X DOMAIN chain[h]
  BY <1>8
<1> QED
  BY <1>4, <1>9, ZenonT(60) DEF Places

\* The events of the chain are in a total order.
LEMMA TotalOrder ==
    ASSUME chain \in Chains
    PROVE  /\ \A x \in Places(chain) : ~Before(x, x)
           /\ \A x, y \in Places(chain) : x # y => Before(x, y) \/ Before(y, x)
           /\ \A x, y \in Places(chain) : ~(Before(x, y) /\ Before(y, x))
           /\ \A x, y, z \in Places(chain) : Before(x, y) /\ Before(y, z) => Before(x, z)
<1>1. \A x \in Places(chain) : x[1] \in Nat /\ x[2] \in Nat /\ x = <<x[1], x[2]>>
  BY PlaceFacts, ZenonT(60)
<1>2. \A x, y \in Places(chain) : x # y => x[1] # y[1] \/ x[2] # y[2]
  BY <1>1, ZenonT(60)
<1>3. \A a, b, c, d \in Nat : a # c \/ b # d =>
        (a < c \/ (a = c /\ b < d)) \/ (c < a \/ (c = a /\ d < b))
  OBVIOUS
<1>4. \A a, b, c, d \in Nat :
        ~((a < c \/ (a = c /\ b < d)) /\ (c < a \/ (c = a /\ d < b)))
  OBVIOUS
<1>6. \A x, y \in Places(chain) : x # y => Before(x, y) \/ Before(y, x)
  BY <1>1, <1>2, <1>3, ZenonT(60) DEF Before
<1>7. \A x, y \in Places(chain) : ~(Before(x, y) /\ Before(y, x))
  BY <1>1, <1>4, ZenonT(60) DEF Before
<1>8. \A x, y, z \in Places(chain) : Before(x, y) /\ Before(y, z) => Before(x, z)
  <2> SUFFICES ASSUME NEW x \in Places(chain), NEW y \in Places(chain),
                      NEW z \in Places(chain), Before(x, y), Before(y, z)
               PROVE  Before(x, z)
    BY ZenonT(60)
  <2>1. /\ x[1] \in Nat /\ x[2] \in Nat /\ y[1] \in Nat /\ y[2] \in Nat
        /\ z[1] \in Nat /\ z[2] \in Nat
    BY <1>1, ZenonT(60)
  <2> QED
    BY <2>1 DEF Before
<1> QED
  BY <1>6, <1>7, <1>8, ZenonT(60)

-----------------------------------------------------------------------------
(* How far the events were applied *)

\* The events of the block at hand that the processor p is past.
InBlock(p, x) ==
    /\ x[1] = p.i
    /\ \/ p.pc = "event" /\ x[2] < p.k
       \/ p.pc = "metadata" /\ x[2] <= p.k
       \/ p.pc = "insert"

\* The event was applied at some time, in a block that is handled or at hand.
IsTaken(p, done, x) == x[1] \in done \/ InBlock(p, x)

\* The event comes before where the processor p is, or, while no block is at hand, is
\* in a block up to the one recorded, b.  This recedes when blocks are taken up again.
IsApplied(p, b, x) ==
    \/ p.pc \in {"waiting", "fetch"} /\ x[1] <= b
    \/ p.pc # "waiting" /\ x[1] < p.i
    \/ InBlock(p, x)

Taken   == {x \in Events : IsTaken(processor, handled, x)}

Applied == {x \in Events : IsApplied(processor, block, x)}

\* The event at hand.
Here == <<processor.i, processor.k>>

\* Nothing went wrong that cannot be made up for.
Good == ~lost /\ (rewound => faults = 0)

\* While no block is taken up that was recorded, the recorded height grows; while
\* nothing fails, a gap that is taken up ends no earlier than what was recorded.
Control ==
    /\ processor.pc \in {"fetch", "insert"} => processor.k = 0
    /\ ~rewound => /\ filler <= block
                   /\ processor.pc \in {"event", "metadata", "insert"} => block < processor.i
    /\ faults = 0 => IF processor.pc = "waiting" THEN filler <= block
                     ELSE filler <= processor.end /\ block <= processor.end
    /\ faults \in Nat

CourseInv == RecordsInv /\ IndexerInv /\ Control

\* What the processor is past after the event at hand.
LEMMA FollowingIn ==
    ASSUME Within, processor.pc # "waiting", NEW x \in Places(chain)
    PROVE  /\ InBlock(Following, x) <=> x[1] = processor.i /\ x[2] <= processor.k
           /\ Following.pc \in {"event", "insert"} /\ Following.i = processor.i
           /\ Following.end = processor.end
           /\ Following.pc = "insert" => Following.k = 0
<1>1. processor \in Processors /\ chain \in Chains
  BY ZenonT(60) DEF Within, Position
<1>2. processor.k \in Nat
  BY <1>1, ZenonT(60) DEF Processors
<1>3. x[2] \in Nat /\ Len(chain[x[1]]) \in Nat /\ x[2] <= Len(chain[x[1]])
  BY <1>1, PlaceFacts, ZenonT(60)
<1>4. CASE processor.k < Len(chain[processor.i])
  <2>1. PICK k : k = processor.k + 1
    BY ZenonT(60)
  <2>2. Following = [processor EXCEPT !.pc = "event", !.k = k]
    BY <1>4, <2>1, ZenonT(60) DEF Following
  <2>3. /\ Following.pc = "event" /\ Following.k = k /\ Following.i = processor.i
        /\ Following.end = processor.end
    BY <1>1, <2>2, ZenonT(60) DEF Processors
  <2>4. x[2] < k <=> x[2] <= processor.k
    BY <1>2, <1>3, <2>1
  <2>5. "event" # "insert" /\ "event" # "metadata"
    OBVIOUS
  <2> QED
    BY <2>3, <2>4, <2>5, ZenonT(60) DEF InBlock
<1>5. CASE ~(processor.k < Len(chain[processor.i]))
  <2>1. Following = [processor EXCEPT !.pc = "insert", !.k = 0]
    BY <1>5, ZenonT(60) DEF Following
  <2>2. /\ Following.pc = "insert" /\ Following.i = processor.i /\ Following.k = 0
        /\ Following.end = processor.end
    BY <1>1, <2>1, ZenonT(60) DEF Processors
  <2>3. x[1] = processor.i => x[2] <= processor.k
    BY <1>2, <1>3, <1>5
  <2>4. "insert" # "event" /\ "insert" # "metadata"
    OBVIOUS
  <2> QED
    BY <2>2, <2>3, <2>4, ZenonT(60) DEF InBlock
<1> QED
  BY <1>4, <1>5

\* The processor is past nothing of a block before it has read it.
LEMMA OutOfBlock ==
    ASSUME NEW p, p.pc \in {"waiting", "fetch"}, NEW x
    PROVE  ~InBlock(p, x)
BY ZenonT(60) DEF InBlock

\* What the processor may do to how far the events were applied: step is what happens to
\* an event that is not the one at hand.
Moves(p, q, b, c, done, after, x) ==
    /\ IsTaken(q, after, x) => IsTaken(p, done, x)
    /\ IsApplied(q, c, x) => IsApplied(p, b, x)

\* A gap is taken up that starts no later than after the recorded block.
LEMMA GapMoves ==
    ASSUME NEW b \in Nat, NEW f \in Nat, f <= b, NEW e, NEW x, x[1] \in Nat, NEW done,
           NEW p, p.pc = "waiting"
    PROVE  Moves(p, [pc |-> "fetch", i |-> f + 1, end |-> e, k |-> 0], b, b, done, done, x)
<1>1. PICK q : q = [pc |-> "fetch", i |-> f + 1, end |-> e, k |-> 0]
  BY ZenonT(60)
<1>2. q.pc = "fetch" /\ q.i = f + 1
  BY <1>1
<1>3. ~InBlock(q, x) /\ ~InBlock(p, x)
  BY <1>2, OutOfBlock
<1>4. x[1] < q.i => x[1] <= b
  BY <1>2
<1> QED
  BY <1>1, <1>2, <1>3, <1>4, ZenonT(60) DEF Moves, IsTaken, IsApplied

\* The processor goes back to waiting and the recorded block is before the one at hand.
LEMMA WaitingMoves ==
    ASSUME NEW b \in Nat, NEW x, x[1] \in Nat, NEW done, NEW p, p.i \in Nat,
           p.pc \in {"waiting", "fetch"} \/ b < p.i
    PROVE  Moves(p, Waiting, b, b, done, done, x)
<1>1. Waiting.pc = "waiting"
  BY WaitingType
<1>2. ~InBlock(Waiting, x)
  BY <1>1, OutOfBlock
<1>3. b < p.i /\ x[1] <= b => x[1] < p.i
  OBVIOUS
<1>4. p.pc \in {"waiting", "fetch"} \/ p.pc # "waiting"
  OBVIOUS
<1> QED
  BY <1>1, <1>2, <1>3, <1>4, ZenonT(60) DEF Moves, IsTaken, IsApplied

\* The processor goes on in the block, after the event at hand.
LEMMA FollowingMoves ==
    ASSUME Within, NEW x \in Places(chain), NEW done, processor.pc # "waiting",
           processor.pc = "fetch" => processor.k = 0,
           processor.pc = "insert" => FALSE,
           processor.pc = "event" => x # Here
    PROVE  Moves(processor, Following, block, block, done, done, x)
<1>1. processor \in Processors /\ chain \in Chains
  BY ZenonT(60) DEF Within, Position
<1>2. /\ processor.k \in Nat /\ processor.i \in Nat
      /\ processor.pc \in {"waiting", "fetch", "event", "metadata", "insert"}
  BY <1>1, ZenonT(60) DEF Processors
<1>3. x[1] \in Nat /\ x[2] \in Nat /\ x = <<x[1], x[2]>> /\ 1 <= x[2]
  BY <1>1, PlaceFacts, ZenonT(60)
<1>4. /\ InBlock(Following, x) <=> x[1] = processor.i /\ x[2] <= processor.k
      /\ Following.pc \in {"event", "insert"} /\ Following.i = processor.i
  BY FollowingIn, ZenonT(60)
<1>5. InBlock(Following, x) => InBlock(processor, x)
  <2>1. CASE processor.pc = "fetch"
    BY <1>2, <1>3, <1>4, <2>1
  <2>2. CASE processor.pc = "event"
    <3>1. ASSUME x[1] = processor.i, x[2] <= processor.k PROVE x[2] < processor.k
      <4>1. x[2] # processor.k
        BY <1>3, <2>2, <3>1, ZenonT(60) DEF Here
      <4> QED
        BY <1>2, <1>3, <3>1, <4>1
    <3> QED
      BY <1>4, <2>2, <3>1, ZenonT(60) DEF InBlock
  <2>3. CASE processor.pc = "metadata"
    BY <1>4, <2>3, ZenonT(60) DEF InBlock
  <2> QED
    BY <1>2, <2>1, <2>2, <2>3
<1>6. Following.pc \notin {"waiting", "fetch"}
  BY <1>4
<1> QED
  BY <1>4, <1>5, <1>6, ZenonT(60) DEF Moves, IsTaken, IsApplied

\* The metadata belongs to the event at hand.
LEMMA MetadataMoves ==
    ASSUME Within, NEW x \in Places(chain), NEW done, processor.pc = "event", x # Here
    PROVE  Moves(processor, [processor EXCEPT !.pc = "metadata"], block, block, done, done, x)
<1>1. processor \in Processors /\ chain \in Chains
  BY ZenonT(60) DEF Within, Position
<1>2. PICK q : q = [processor EXCEPT !.pc = "metadata"]
  BY ZenonT(60)
<1>3. q.pc = "metadata" /\ q.i = processor.i /\ q.k = processor.k
  BY <1>1, <1>2, ZenonT(60) DEF Processors
<1>4. x[1] \in Nat /\ x[2] \in Nat /\ x = <<x[1], x[2]>> /\ processor.k \in Nat
  BY <1>1, PlaceFacts, ZenonT(60) DEF Processors
<1>5. x[1] = processor.i /\ x[2] <= processor.k => x[2] < processor.k
  <2>1. x[1] = processor.i => x[2] # processor.k
    BY <1>4, ZenonT(60) DEF Here
  <2> QED
    BY <1>4, <2>1
<1>6. /\ q.pc \notin {"waiting", "fetch"} /\ q.pc # "event" /\ q.pc # "insert"
      /\ processor.pc # "waiting"
  BY <1>3
<1> QED
  BY <1>2, <1>3, <1>5, <1>6, ZenonT(60) DEF Moves, IsTaken, IsApplied, InBlock

\* The block at hand was handled, and is recorded or follows the recorded one.
LEMMA NextBlockMoves ==
    ASSUME Within, NEW x, x[1] \in Nat, processor.pc = "insert", NEW c \in Nat,
           c = processor.i \/ (c = block /\ block < processor.i)
    PROVE  Moves(processor, NextBlock, block, c, handled, handled \cup {processor.i}, x)
<1>1. processor \in Processors /\ block \in Nat
  BY ZenonT(60) DEF Within, Position
<1>2. processor.i \in Nat
  BY <1>1, ZenonT(60) DEF Processors
<1>3. x[1] \in handled \cup {processor.i} => x[1] \in handled \/ InBlock(processor, x)
  BY ZenonT(60) DEF InBlock
<1>4. x[1] <= c => x[1] < processor.i \/ x[1] = processor.i
  BY <1>1, <1>2
<1>5. processor.pc # "waiting" /\ (x[1] = processor.i => InBlock(processor, x))
  BY ZenonT(60) DEF InBlock
<1>6. CASE processor.i < processor.end
  <2>1. PICK i : i = processor.i + 1
    BY ZenonT(60)
  <2>2. PICK q : q = [processor EXCEPT !.pc = "fetch", !.i = i]
    BY ZenonT(60)
  <2>3. q.pc = "fetch" /\ q.i = i /\ NextBlock = q
    BY <1>1, <1>6, <2>1, <2>2, ZenonT(60) DEF Processors, NextBlock
  <2>4. ~InBlock(q, x)
    BY <2>3, OutOfBlock
  <2>5. x[1] < i => x[1] < processor.i \/ x[1] = processor.i
    BY <1>2, <2>1
  <2> QED
    BY <1>3, <1>4, <1>5, <2>3, <2>4, <2>5, ZenonT(60) DEF Moves, IsTaken, IsApplied
<1>7. CASE ~(processor.i < processor.end)
  <2>1. NextBlock = Waiting /\ Waiting.pc = "waiting"
    BY <1>7, WaitingType DEF NextBlock
  <2>2. ~InBlock(Waiting, x)
    BY <2>1, OutOfBlock
  <2> QED
    BY <1>3, <1>4, <1>5, <2>1, <2>2, ZenonT(60) DEF Moves, IsTaken, IsApplied
<1> QED
  BY <1>6, <1>7

\* Where the processor is after the event at hand.
LEMMA FollowingParts ==
    ASSUME Within
    PROVE  /\ Following.pc \in {"event", "insert"} /\ Following.i = processor.i
           /\ Following.end = processor.end
           /\ Following.pc = "insert" => Following.k = 0
<1>1. processor \in Processors
  BY ZenonT(60) DEF Within, Position
<1>2. PICK k : k = processor.k + 1
  BY ZenonT(60)
<1>3. CASE Following = [processor EXCEPT !.pc = "event", !.k = k]
  <2>1. /\ Following.pc = "event" /\ Following.i = processor.i /\ Following.end = processor.end
    BY <1>1, <1>3, ZenonT(60) DEF Processors
  <2> QED
    BY <2>1
<1>4. CASE Following = [processor EXCEPT !.pc = "insert", !.k = 0]
  BY <1>1, <1>4, ZenonT(60) DEF Processors
<1> QED
  BY <1>2, <1>3, <1>4, ZenonT(60) DEF Following

\* Where it is after the block at hand.
LEMMA NextBlockParts ==
    ASSUME Within, processor.k = 0
    PROVE  \/ /\ processor.i < processor.end /\ NextBlock.pc = "fetch" /\ NextBlock.k = 0
              /\ NextBlock.end = processor.end
           \/ ~(processor.i < processor.end) /\ NextBlock.pc = "waiting"
<1>1. processor \in Processors
  BY ZenonT(60) DEF Within, Position
<1>2. PICK i : i = processor.i + 1
  BY ZenonT(60)
<1>3. CASE processor.i < processor.end
  <2>1. NextBlock = [processor EXCEPT !.pc = "fetch", !.i = i]
    BY <1>2, <1>3, ZenonT(60) DEF NextBlock
  <2> QED
    BY <1>1, <1>3, <2>1, ZenonT(60) DEF Processors
<1>4. CASE ~(processor.i < processor.end)
  BY <1>4, WaitingType, ZenonT(60) DEF NextBlock
<1> QED
  BY <1>3, <1>4

\* What Control says of the filler, the recorded block and the processor.
Orders(f, b, p) ==
    /\ p.pc \in {"fetch", "insert"} => p.k = 0
    /\ ~rewound => /\ f <= b
                   /\ p.pc \in {"event", "metadata", "insert"} => b < p.i
    /\ faults = 0 => IF p.pc = "waiting" THEN f <= b ELSE f <= p.end /\ b <= p.end

\* Control says it.
LEMMA ControlIs == Control <=> Orders(filler, block, processor) /\ faults \in Nat
BY ZenonT(60) DEF Control, Orders

\* The filler and the processor know of no recorded block at first.
LEMMA ControlInit == Init => Control
<1> SUFFICES ASSUME Init PROVE Control
  OBVIOUS
<1>1. block = 0 /\ filler = -1 /\ faults = 0 /\ processor.pc = "waiting"
  BY WaitingType, ZenonT(60) DEF Init
<1>2. -1 <= 0 /\ 0 \in Nat
  OBVIOUS
<1>3. processor.pc \notin {"fetch", "insert", "event", "metadata"}
  BY <1>1
<1> QED
  BY <1>1, <1>2, <1>3, ZenonT(60) DEF Control

\* A fault is counted.
LEMMA FaultCounts ==
    ASSUME Control
    PROVE  /\ Fault => faults' \in Nat /\ faults' # 0
           /\ UNCHANGED faults => faults' \in Nat /\ (faults' = 0 => faults = 0)
<1>1. faults \in Nat
  BY ZenonT(60) DEF Control
<1> QED
  BY <1>1 DEF Fault

\* Every step keeps Control.
LEMMA ControlStep == CourseInv /\ [Next]_vars => Control'
<1> SUFFICES ASSUME CourseInv, [Next]_vars PROVE Control'
  OBVIOUS
<1>0. /\ Within /\ Control /\ Orders(filler, block, processor) /\ faults \in Nat
  BY ControlIs, ZenonT(60) DEF CourseInv, RecordsInv
<1>a. /\ block \in Nat /\ height \in Nat /\ block <= height
      /\ filler \in Nat \cup {-1} /\ processor \in Processors
  BY <1>0, ZenonT(60) DEF Within, Position
<1>b. /\ processor.i \in Nat /\ processor.end \in Nat
      /\ processor.pc \in {"waiting", "fetch", "event", "metadata", "insert"}
  BY <1>a, ZenonT(60) DEF Processors
<1>c. block <= block /\ -1 <= block /\ -1 <= processor.end
  BY <1>a, <1>b
<1>d. ASSUME processor'.pc = processor.pc, processor'.k = processor.k, processor'.i = processor.i,
             processor'.end = processor.end, UNCHANGED <<block, rewound, faults>>,
             filler' = filler \/ filler' = -1 \/ filler' = block
      PROVE  Control'
  BY <1>0, <1>c, <1>d, ZenonT(60) DEF Orders, Control
<1>e. Following.pc # "waiting" /\ Following.pc \in {"event", "insert"}
      /\ (Following.pc = "insert" => Following.k = 0)
      /\ Following.i = processor.i /\ Following.end = processor.end
      /\ (Following.pc \in {"fetch", "insert"} => Following.k = 0)
  <2>1. Following.pc \in {"event", "insert"} =>
          Following.pc # "waiting" /\ Following.pc # "fetch"
    OBVIOUS
  <2> QED
    BY <1>0, <2>1, FollowingParts, ZenonT(60)
<1>f. ASSUME processor.pc \in {"event", "metadata"}, processor' = Following,
             UNCHANGED <<block, rewound, filler>>, UNCHANGED faults \/ Fault
      PROVE  Control'
  <2>1. processor.pc # "waiting" /\ processor.pc \in {"event", "metadata", "insert"}
    BY <1>f
  <2> QED
    BY <1>0, <1>e, <1>f, <2>1, FaultCounts, ZenonT(60) DEF Orders, Control
<1>1. CASE ChainGrows
  BY <1>1, <1>d, ZenonT(60) DEF ChainGrows, history
<1>2. CASE FindLatestBlock
  BY <1>2, <1>d, ZenonT(60) DEF FindLatestBlock, history
<1>3. CASE OfferGap
  <2>1. filler' = -1 /\ UNCHANGED <<block, rewound, faults>>
    BY <1>3, ZenonT(60) DEF OfferGap, history
  <2>2. CASE height > filler /\ processor = Waiting
    <3>1. processor' = [pc |-> "fetch", i |-> filler + 1, end |-> height, k |-> 0]
      BY <1>3, <2>2, ZenonT(60) DEF OfferGap
    <3>2. processor'.pc = "fetch" /\ processor'.end = height /\ processor'.k = 0
      BY <3>1
    <3>3. -1 <= height /\ processor'.pc \notin {"event", "metadata", "insert"}
          /\ processor'.pc # "waiting"
      BY <1>a, <3>2
    <3> QED
      BY <1>0, <1>a, <1>c, <2>1, <3>2, <3>3, ZenonT(60) DEF Control
  <2>3. CASE ~(height > filler /\ processor = Waiting)
    <3>1. processor' = processor
      BY <1>3, <2>3, ZenonT(60) DEF OfferGap
    <3> QED
      BY <1>d, <2>1, <3>1, ZenonT(60)
  <2> QED
    BY <2>2, <2>3
<1>4. CASE FetchBlock
  <2>1. /\ processor.pc = "fetch" /\ processor' = Following
        /\ rewound' = (rewound \/ processor.i <= block) /\ UNCHANGED <<block, filler, faults>>
    BY <1>4, ZenonT(60) DEF FetchBlock, FillerUnchanged
  <2>2. processor.pc # "waiting" /\ (~(processor.i <= block) => block < processor.i)
    BY <1>a, <1>b, <2>1
  <2> QED
    BY <1>0, <1>e, <2>1, <2>2, ZenonT(60) DEF Orders, Control
<1>w. ASSUME processor'.pc = "waiting", Fault, UNCHANGED <<block, rewound>>,
             filler' = filler \/ filler' = -1
      PROVE  Control'
  <2>1. processor'.pc \notin {"fetch", "insert", "event", "metadata"}
    BY <1>w
  <2> QED
    BY <1>0, <1>c, <1>w, <2>1, FaultCounts, ZenonT(60) DEF Orders, Control
<1>5. CASE FetchBlockFails
  BY <1>5, <1>w, WaitingType, ZenonT(60) DEF FetchBlockFails, FillerUnchanged, history
<1>6. CASE HandleEvent
  <2>1. /\ processor.pc = "event" /\ UNCHANGED <<block, rewound, filler, faults>>
        /\ processor' = Following \/ processor' = [processor EXCEPT !.pc = "metadata"]
    BY <1>6, ZenonT(60) DEF HandleEvent, FillerUnchanged, history
  <2>2. CASE processor' = Following
    BY <1>f, <2>1, <2>2, ZenonT(60)
  <2>3. CASE processor' = [processor EXCEPT !.pc = "metadata"]
    <3>1. /\ processor'.pc = "metadata" /\ processor'.i = processor.i
          /\ processor'.end = processor.end
      BY <1>a, <2>3, ZenonT(60) DEF Processors
    <3>2. processor'.pc \notin {"fetch", "insert", "waiting"}
      BY <3>1
    <3>3. processor.pc # "waiting"
      BY <2>1
    <3> QED
      BY <1>0, <2>1, <3>1, <3>2, <3>3, ZenonT(60) DEF Orders, Control
  <2> QED
    BY <2>1, <2>2, <2>3
<1>7. CASE HandleEventFails
  BY <1>7, <1>f, ZenonT(60) DEF HandleEventFails, FillerUnchanged
<1>8. CASE UpsertProviderMetadata
  BY <1>8, <1>f, ZenonT(60) DEF UpsertProviderMetadata, FillerUnchanged
<1>9. CASE DownloadFails
  BY <1>9, <1>f, ZenonT(60) DEF DownloadFails, FillerUnchanged
<1>10. CASE InsertBlock
  <2>1. /\ processor.pc = "insert" /\ block' = processor.i /\ processor' = NextBlock
        /\ UNCHANGED <<filler, rewound>> /\ (UNCHANGED faults \/ Fault)
    BY <1>10, ZenonT(60) DEF InsertBlock, FillerUnchanged
  <2>2. processor.k = 0
    BY <1>0, <2>1, ZenonT(60) DEF Orders
  <2>3. ~rewound => filler <= processor.i
    <3>1. ~rewound => filler <= block /\ block < processor.i
      BY <1>0, <2>1, ZenonT(60) DEF Orders
    <3>2. filler <= block /\ block < processor.i => filler <= processor.i
      BY <1>a, <1>b
    <3> QED
      BY <3>1, <3>2
  <2>4. faults = 0 => filler <= processor.end
    <3>1. processor.pc # "waiting"
      BY <2>1
    <3> QED
      BY <1>0, <3>1, ZenonT(60) DEF Orders
  <2>5. /\ processor.i < processor.end => processor.i <= processor.end
        /\ ~(processor.i < processor.end) /\ filler <= processor.end => filler <= processor.i
    BY <1>a, <1>b
  <2>6. CASE /\ processor.i < processor.end /\ NextBlock.pc = "fetch" /\ NextBlock.k = 0
             /\ NextBlock.end = processor.end
    <3>1. NextBlock.pc \notin {"waiting", "event", "metadata", "insert"}
      BY <2>6
    <3> QED
      BY <1>0, <2>1, <2>3, <2>4, <2>5, <2>6, <3>1, FaultCounts, ZenonT(60) DEF Control
  <2>7. CASE ~(processor.i < processor.end) /\ NextBlock.pc = "waiting"
    <3>1. NextBlock.pc \notin {"fetch", "event", "metadata", "insert"}
      BY <2>7
    <3> QED
      BY <1>0, <2>1, <2>3, <2>4, <2>5, <2>7, <3>1, FaultCounts, ZenonT(60) DEF Control
  <2> QED
    BY <1>0, <2>2, <2>6, <2>7, NextBlockParts
<1>11. CASE InsertBlockFails
  <2>1. /\ processor.pc = "insert" /\ processor' = NextBlock
        /\ UNCHANGED <<block, filler, rewound>> /\ Fault
    BY <1>11, ZenonT(60) DEF InsertBlockFails, FillerUnchanged
  <2>2. processor.k = 0
    BY <1>0, <2>1, ZenonT(60) DEF Orders
  <2>3. /\ NextBlock.pc \notin {"event", "metadata", "insert"}
        /\ NextBlock.pc \in {"fetch", "insert"} => NextBlock.k = 0
    <3>1. NextBlock.pc = "waiting" \/ (NextBlock.pc = "fetch" /\ NextBlock.k = 0)
      BY <1>0, <2>2, NextBlockParts, ZenonT(60)
    <3> QED
      BY <3>1
  <2> QED
    BY <1>0, <2>1, <2>3, FaultCounts, ZenonT(60) DEF Orders, Control
<1>12. CASE Restart
  BY <1>12, <1>w, WaitingType, ZenonT(60) DEF Restart
<1>13. CASE UNCHANGED vars
  BY <1>13, <1>d, ZenonT(60) DEF vars, history
<1> QED
  BY <1>1, <1>2, <1>3, <1>4, <1>5, <1>6, <1>7, <1>8, <1>9, <1>10, <1>11, <1>12,
     <1>13 DEF Next, Filler, Processor

\* Before it has read a block the processor adds nothing to what was taken up.
LEMMA TakenBack ==
    ASSUME NEW p, NEW q, q.pc \in {"waiting", "fetch"}, NEW done, NEW x
    PROVE  IsTaken(q, done, x) => IsTaken(p, done, x)
<1>1. ~InBlock(q, x)
  BY OutOfBlock
<1> QED
  BY <1>1, ZenonT(60) DEF IsTaken

\* What was lost stays lost, and what went wrong stays wrong.
LEMMA GoodBefore ==
    ASSUME Control, [Next]_vars
    PROVE  (~lost' => ~lost) /\ (Good' => Good) /\ (Fault /\ Good' => ~rewound)
<1>1. (lost' = lost \/ lost' = TRUE)
  BY ZenonT(60) DEF Next, Filler, Processor, ChainGrows, FindLatestBlock, OfferGap, FetchBlock,
     FetchBlockFails, HandleEvent, HandleEventFails, UpsertProviderMetadata, DownloadFails,
     InsertBlock, InsertBlockFails, Restart, history, vars
<1>2. rewound => rewound'
  BY ZenonT(60) DEF Next, Filler, Processor, ChainGrows, FindLatestBlock, OfferGap, FetchBlock,
     FetchBlockFails, HandleEvent, HandleEventFails, UpsertProviderMetadata, DownloadFails,
     InsertBlock, InsertBlockFails, Restart, history, vars
<1>3. UNCHANGED faults \/ Fault
  BY ZenonT(60) DEF Next, Filler, Processor, ChainGrows, FindLatestBlock, OfferGap, FetchBlock,
     FetchBlockFails, HandleEvent, HandleEventFails, UpsertProviderMetadata, DownloadFails,
     InsertBlock, InsertBlockFails, Restart, history, vars
<1>4. /\ Fault => faults' # 0
      /\ UNCHANGED faults => (faults' = 0 => faults = 0)
  BY FaultCounts, ZenonT(60)
<1>5. ~lost' => ~lost
  BY <1>1, ZenonT(60)
<1>6. Fault /\ Good' => ~rewound
  BY <1>2, <1>4, ZenonT(60) DEF Good
<1>7. Good' => Good
  BY <1>2, <1>3, <1>4, <1>5, ZenonT(60) DEF Good
<1> QED
  BY <1>5, <1>6, <1>7

\* No step adds to the events applied, but the one that applies the event at hand, as
\* long as nothing went wrong that cannot be made up for.
LEMMA CourseMoves ==
    ASSUME CourseInv, [Next]_vars, NEW x \in Places(chain), HandleEvent => x # Here
    PROVE  /\ ~lost' => (IsTaken(processor', handled', x) => IsTaken(processor, handled, x))
           /\ Good' => (IsApplied(processor', block', x) => IsApplied(processor, block, x))
<1> DEFINE Claim ==
      /\ ~lost' => (IsTaken(processor', handled', x) => IsTaken(processor, handled, x))
      /\ Good' => (IsApplied(processor', block', x) => IsApplied(processor, block, x))
<1> HIDE DEF Claim
<1> SUFFICES Claim
  BY DEF Claim
<1>0. Within /\ Control /\ Orders(filler, block, processor) /\ faults \in Nat
  BY ControlIs, ZenonT(60) DEF CourseInv, RecordsInv
<1>a. /\ chain \in Chains /\ block \in Nat /\ height \in Nat /\ block <= height
      /\ filler \in Nat \cup {-1} /\ processor \in Processors
  BY <1>0, ZenonT(60) DEF Within, Position
<1>b. /\ processor.i \in Nat /\ processor.end \in Nat
      /\ processor.pc \in {"waiting", "fetch", "event", "metadata", "insert"}
  BY <1>a, ZenonT(60) DEF Processors
<1>c. x[1] \in Nat
  BY <1>a, PlaceFacts, ZenonT(60)
<1>d. (~lost' => ~lost) /\ (Good' => Good) /\ (Fault /\ Good' => ~rewound)
  BY <1>0, GoodBefore
<1>e. ASSUME UNCHANGED <<processor, block, handled>> PROVE Claim
  BY <1>e, ZenonT(60) DEF Claim
<1>f. ASSUME NEW b, b = block', NEW done, done = handled',
             Moves(processor, processor', block, b, handled, done, x)
      PROVE  Claim
  BY <1>f, ZenonT(60) DEF Claim, Moves
<1>w. ASSUME processor' = Waiting, UNCHANGED <<block, handled>>, Fault
      PROVE  Claim
  <2>1. CASE ~Good'
    <3>1. Waiting.pc \in {"waiting", "fetch"}
      BY WaitingType
    <3>2. IsTaken(Waiting, handled, x) => IsTaken(processor, handled, x)
      BY <3>1, TakenBack
    <3> QED
      BY <1>w, <2>1, <3>2, ZenonT(60) DEF Claim
  <2>2. CASE Good'
    <3>1. processor.pc \in {"waiting", "fetch"} \/ processor.pc \in {"event", "metadata", "insert"}
      BY <1>b
    <3>2. processor.pc \in {"waiting", "fetch"} \/ block < processor.i
      BY <1>0, <1>d, <1>w, <2>2, <3>1, ZenonT(60) DEF Orders
    <3>3. Moves(processor, Waiting, block, block, handled, handled, x)
      BY <1>a, <1>b, <1>c, <3>2, WaitingMoves, ZenonT(60)
    <3> QED
      BY <1>f, <1>w, <3>3, ZenonT(60)
  <2> QED
    BY <2>1, <2>2
<1>g. ASSUME processor.pc \in {"fetch", "event", "metadata"}, processor' = Following,
             UNCHANGED <<block, handled>>, processor.pc = "event" => x # Here
      PROVE  Claim
  <2>1. processor.pc # "waiting" /\ (processor.pc = "insert" => FALSE)
    BY <1>g
  <2>2. processor.pc = "fetch" => processor.k = 0
    BY <1>0, ZenonT(60) DEF Orders
  <2>3. Moves(processor, Following, block, block, handled, handled, x)
    BY <1>0, <1>g, <2>1, <2>2, FollowingMoves, ZenonT(60)
  <2> QED
    BY <1>f, <1>g, <2>3, ZenonT(60)
<1>1. CASE ChainGrows
  BY <1>1, <1>e, ZenonT(60) DEF ChainGrows, history
<1>2. CASE FindLatestBlock
  BY <1>2, <1>e, ZenonT(60) DEF FindLatestBlock, history
<1>3. CASE OfferGap
  <2>1. UNCHANGED <<block, handled, rewound, faults>> /\ filler >= 0
    BY <1>3, ZenonT(60) DEF OfferGap, history
  <2>2. CASE height > filler /\ processor = Waiting
    <3>1. processor' = [pc |-> "fetch", i |-> filler + 1, end |-> height, k |-> 0]
      BY <1>3, <2>2, ZenonT(60) DEF OfferGap
    <3>2. processor'.pc \in {"waiting", "fetch"}
      BY <3>1
    <3>3. processor.pc = "waiting" /\ filler \in Nat
      BY <1>a, <2>1, <2>2, WaitingType
    <3>4. CASE ~Good'
      <4>1. IsTaken(processor', handled, x) => IsTaken(processor, handled, x)
        BY <3>2, TakenBack
      <4> QED
        BY <2>1, <3>4, <4>1, ZenonT(60) DEF Claim
    <3>5. CASE Good'
      <4>1. filler <= block
        BY <1>0, <1>d, <3>3, <3>5, ZenonT(60) DEF Good, Orders
      <4>2. Moves(processor, processor', block, block, handled, handled, x)
        BY <1>a, <1>c, <3>1, <3>3, <4>1, GapMoves, ZenonT(60)
      <4> QED
        BY <1>f, <2>1, <4>2, ZenonT(60)
    <3> QED
      BY <3>4, <3>5
  <2>3. CASE ~(height > filler /\ processor = Waiting)
    BY <1>3, <1>e, <2>1, <2>3, ZenonT(60) DEF OfferGap
  <2> QED
    BY <2>2, <2>3
<1>4. CASE FetchBlock
  <2>1. processor.pc = "fetch" /\ processor' = Following /\ UNCHANGED <<block, handled>>
    BY <1>4, ZenonT(60) DEF FetchBlock
  <2>2. processor.pc # "event"
    BY <2>1
  <2> QED
    BY <1>g, <2>1, <2>2, ZenonT(60)
<1>5. CASE FetchBlockFails
  BY <1>5, <1>w, ZenonT(60) DEF FetchBlockFails, history
<1>6. CASE HandleEvent
  <2>1. /\ processor.pc = "event" /\ UNCHANGED <<block, handled>>
        /\ processor' = Following \/ processor' = [processor EXCEPT !.pc = "metadata"]
    BY <1>6, ZenonT(60) DEF HandleEvent, history
  <2>2. CASE processor' = Following
    BY <1>6, <1>g, <2>1, <2>2, ZenonT(60)
  <2>3. CASE processor' = [processor EXCEPT !.pc = "metadata"]
    <3>1. Moves(processor, processor', block, block, handled, handled, x)
      BY <1>0, <1>6, <2>1, <2>3, MetadataMoves, ZenonT(60)
    <3> QED
      BY <1>f, <2>1, <3>1, ZenonT(60)
  <2> QED
    BY <2>1, <2>2, <2>3
<1>7. CASE HandleEventFails
  <2>1. lost'
    BY <1>7, ZenonT(60) DEF HandleEventFails
  <2> QED
    BY <2>1, ZenonT(60) DEF Claim, Good
<1>8. CASE UpsertProviderMetadata
  <2>1. processor.pc = "metadata" /\ processor' = Following /\ UNCHANGED <<block, handled>>
    BY <1>8, ZenonT(60) DEF UpsertProviderMetadata
  <2>2. processor.pc # "event"
    BY <2>1
  <2> QED
    BY <1>g, <2>1, <2>2, ZenonT(60)
<1>9. CASE DownloadFails
  <2>1. processor.pc = "metadata" /\ processor' = Following /\ UNCHANGED <<block, handled>>
    BY <1>9, ZenonT(60) DEF DownloadFails
  <2>2. processor.pc # "event"
    BY <2>1
  <2> QED
    BY <1>g, <2>1, <2>2, ZenonT(60)
<1>10. CASE InsertBlock
  <2>1. /\ processor.pc = "insert" /\ block' = processor.i /\ processor' = NextBlock
        /\ handled' = handled \cup {processor.i}
    BY <1>10, ZenonT(60) DEF InsertBlock
  <2>2. Moves(processor, NextBlock, block, processor.i, handled, handled \cup {processor.i}, x)
    BY <1>0, <1>b, <1>c, <2>1, NextBlockMoves, ZenonT(60)
  <2> QED
    BY <1>f, <2>1, <2>2, ZenonT(60)
<1>11. CASE InsertBlockFails
  <2>1. /\ processor.pc = "insert" /\ processor' = NextBlock
        /\ handled' = handled \cup {processor.i} /\ UNCHANGED block /\ Fault
    BY <1>11, ZenonT(60) DEF InsertBlockFails
  <2>2. CASE ~Good'
    <3>1. Moves(processor, NextBlock, block, processor.i, handled, handled \cup {processor.i}, x)
      BY <1>0, <1>b, <1>c, <2>1, NextBlockMoves, ZenonT(60)
    <3> QED
      BY <2>1, <2>2, <3>1, ZenonT(60) DEF Claim, Moves
  <2>3. CASE Good'
    <3>1. block < processor.i
      BY <1>0, <1>d, <2>1, <2>3, ZenonT(60) DEF Orders
    <3>2. Moves(processor, NextBlock, block, block, handled, handled \cup {processor.i}, x)
      BY <1>0, <1>a, <1>c, <2>1, <3>1, NextBlockMoves, ZenonT(60)
    <3> QED
      BY <1>f, <2>1, <3>2, ZenonT(60)
  <2> QED
    BY <2>2, <2>3
<1>12. CASE Restart
  BY <1>12, <1>w, ZenonT(60) DEF Restart
<1>13. CASE UNCHANGED vars
  BY <1>13, <1>e, ZenonT(60) DEF vars, history
<1> QED
  BY <1>1, <1>2, <1>3, <1>4, <1>5, <1>6, <1>7, <1>8, <1>9, <1>10, <1>11, <1>12,
     <1>13 DEF Next, Filler, Processor

\* The chain is the same in every step, and its height does not fall.
LEMMA ChainKept ==
    ASSUME Within, [Next]_vars
    PROVE  /\ chain' = chain
           /\ height' = height \/ (ChainGrows /\ height' = height + 1)
BY ZenonT(60) DEF Next, Filler, Processor, ChainGrows, FindLatestBlock, OfferGap, FetchBlock,
   FetchBlockFails, HandleEvent, HandleEventFails, UpsertProviderMetadata, DownloadFails,
   InsertBlock, InsertBlockFails, Restart, FillerUnchanged, vars

\* What is taken up or applied is an event of a block up to the height.
LEMMA InHeight ==
    ASSUME Within, NEW x \in Places(chain),
           IsTaken(processor, handled, x) \/ IsApplied(processor, block, x)
    PROVE  x[1] <= height
<1>1. /\ chain \in Chains /\ height \in Nat /\ block \in Nat /\ block <= height
      /\ processor \in Processors /\ processor.i <= height /\ handled \subseteq 1 .. height
  BY ZenonT(60) DEF Within, Position
<1>2. x[1] \in Nat /\ processor.i \in Nat
  BY <1>1, PlaceFacts, ZenonT(60) DEF Processors
<1>3. x[1] \in handled \/ x[1] = processor.i \/ x[1] <= block \/ x[1] < processor.i
  BY ZenonT(60) DEF IsTaken, IsApplied, InBlock
<1> QED
  BY <1>1, <1>2, <1>3

\* A step adds no event to those taken up or applied but the one at hand, which
\* HandleEvent applies.
LEMMA CourseSets ==
    ASSUME CourseInv, [Next]_vars
    PROVE  /\ chain' = chain /\ Events \subseteq Events'
           /\ ~lost' => ~lost /\ Taken' \subseteq Taken \cup {Here}
                        /\ (~HandleEvent => Taken' \subseteq Taken)
           /\ Good' => Good /\ Applied' \subseteq Applied \cup {Here}
                        /\ (~HandleEvent => Applied' \subseteq Applied)
<1>0. Within /\ Control
  BY ZenonT(60) DEF CourseInv, RecordsInv
<1>1. height \in Nat /\ chain \in Chains
  BY <1>0, ZenonT(60) DEF Within
<1>2. /\ chain' = chain
      /\ height' = height \/ (ChainGrows /\ height' = height + 1)
  BY <1>0, ChainKept
<1>3. \A x \in Places(chain) : x[1] \in Nat
  BY <1>1, PlaceFacts, ZenonT(60)
<1>4. \A n \in Nat : n <= height => n <= height'
  BY <1>1, <1>2
<1>5. Events \subseteq Events'
  BY <1>2, <1>3, <1>4, ZenonT(60) DEF Events
<1>6. (~lost' => ~lost) /\ (Good' => Good)
  BY <1>0, GoodBefore
<1>7. ASSUME NEW x \in Places(chain), x # Here \/ ~HandleEvent
      PROVE  /\ ~lost' => (IsTaken(processor', handled', x) => IsTaken(processor, handled, x))
             /\ Good' => (IsApplied(processor', block', x) => IsApplied(processor, block, x))
  BY <1>7, CourseMoves, ZenonT(60)
<1>8. \A x \in Places(chain) :
        IsTaken(processor, handled, x) \/ IsApplied(processor, block, x) => x[1] <= height
  BY <1>0, InHeight, ZenonT(60)
<1>9. ASSUME NEW x, x # Here \/ ~HandleEvent
      PROVE  /\ ~lost' => (x \in Taken' => x \in Taken)
             /\ Good' => (x \in Applied' => x \in Applied)
  <2>1. x \in Taken' => x \in Places(chain) /\ IsTaken(processor', handled', x)
    BY <1>2, ZenonT(60) DEF Taken, Events, IsTaken, InBlock
  <2>2. x \in Applied' => x \in Places(chain) /\ IsApplied(processor', block', x)
    BY <1>2, ZenonT(60) DEF Applied, Events, IsApplied, InBlock
  <2>3. x \in Places(chain) /\ IsTaken(processor, handled, x) => x \in Taken
    BY <1>8, ZenonT(60) DEF Taken, Events
  <2>4. x \in Places(chain) /\ IsApplied(processor, block, x) => x \in Applied
    BY <1>8, ZenonT(60) DEF Applied, Events
  <2> QED
    BY <1>7, <1>9, <2>1, <2>2, <2>3, <2>4, ZenonT(60)
<1> QED
  BY <1>2, <1>5, <1>6, <1>9, ZenonT(60)

\* While an event is at hand, the events applied are those before it, and they were all
\* taken up.
LEMMA HereFacts ==
    ASSUME CourseInv, processor.pc = "event"
    PROVE  /\ Here \in Events /\ At(Here) = Event /\ Here[1] = processor.i /\ IsEvent(Event)
           /\ processor.i \in Nat /\ 1 <= processor.i
           /\ \A x \in Events : (x \in Applied <=> Before(x, Here))
           /\ \A x \in Events : Before(x, Here) => x \in Taken
<1>0. Within /\ IndexerInv /\ chain \in Chains /\ height \in Nat /\ height <= Len(chain)
  BY ZenonT(60) DEF CourseInv, RecordsInv, Within
<1>1. processor.pc # "waiting" /\ processor.pc \in {"event", "metadata"}
      /\ processor.pc \notin {"waiting", "fetch"} /\ processor.pc # "metadata"
      /\ processor.pc # "insert"
  OBVIOUS
<1>2. /\ processor \in Processors /\ processor.i <= height /\ 1 <= processor.i
      /\ 1 <= processor.k /\ processor.k <= Len(chain[processor.i])
  BY <1>0, <1>1, ZenonT(60) DEF Within, Position
<1>3. processor.i \in Nat /\ processor.k \in Nat
  BY <1>2, ZenonT(60) DEF Processors
<1>4. processor.i <= Len(chain)
  <2>1. Len(chain) \in Nat
    BY <1>0, IndexerAssumptions, ZenonT(60) DEF IsSequence
  <2> QED
    BY <1>0, <1>2, <1>3, <2>1
<1>5. Here[1] = processor.i /\ Here[2] = processor.k
  BY DEF Here
<1>6. Here \in Events
  <2>1. Here \in Places(chain)
    BY <1>0, <1>2, <1>3, <1>4, PlaceMade, ZenonT(60) DEF Here
  <2> QED
    BY <1>2, <1>5, <2>1, ZenonT(60) DEF Events
<1>7. At(Here) = Event
  BY <1>5, ZenonT(60) DEF At, Event
<1>8. IsEvent(Event)
  BY <1>0, <1>6, <1>7, PlaceFacts, ZenonT(60) DEF Events
<1>9. \A x \in Events : (x \in Applied <=> Before(x, Here))
  BY <1>1, <1>5, ZenonT(60) DEF Applied, IsApplied, InBlock, Before
<1>10. ASSUME NEW x \in Events, Before(x, Here) PROVE x \in Taken
  <2>1. CASE x[1] < processor.i
    <3>1. x[1] \in Nat /\ 1 <= x[1]
      BY <1>0, PlaceFacts, ZenonT(60) DEF Events
    <3>2. x[1] \in 1 .. (processor.i - 1)
      BY <1>3, <2>1, <3>1
    <3>3. x[1] \in handled
      BY <1>0, <1>1, <3>2, ZenonT(60) DEF IndexerInv, Behind
    <3> QED
      BY <3>3, ZenonT(60) DEF Taken, IsTaken
  <2>2. CASE x[1] = processor.i /\ x[2] < processor.k
    BY <2>2, ZenonT(60) DEF Taken, IsTaken, InBlock
  <2> QED
    BY <1>5, <1>10, <2>1, <2>2, ZenonT(60) DEF Before
<1> QED
  BY <1>2, <1>3, <1>5, <1>6, <1>7, <1>8, <1>9, <1>10, ZenonT(60)

\* T is the set S of events after a step that may have added later ones.
Grown(S, T) == S \subseteq T /\ T \cap Events \subseteq S

\* The sets of events grow with the chain.
LEMMA SetsGrow ==
    ASSUME chain' = chain, Events \subseteq Events'
    PROVE  /\ \A x : At(x)' = At(x)
           /\ \A id : Grown(Opens(id), Opens(id)')
           /\ \A id : Grown(Settles(id), Settles(id)')
           /\ \A id : Grown(Ends(id), Ends(id)')
           /\ \A p : Grown(Bonds(p), Bonds(p)')
           /\ \A p : Grown(Mods(p), Mods(p)')
<1>1. \A x : At(x)' = At(x)
  BY ZenonT(60) DEF At
<1>2. \A id : Grown(Opens(id), Opens(id)')
  BY <1>1, ZenonT(60) DEF Opens, Grown
<1>3. \A id : Grown(Settles(id), Settles(id)')
  BY <1>1, ZenonT(60) DEF Settles, Grown
<1>4. \A id : Grown(Ends(id), Ends(id)')
  BY <1>1, ZenonT(60) DEF Ends, Settles, Grown
<1>5. \A p : Grown(Bonds(p), Bonds(p)')
  BY <1>1, ZenonT(60) DEF Bonds, Grown
<1>6. \A p : Grown(Mods(p), Mods(p)')
  BY <1>1, ZenonT(60) DEF Mods, Grown
<1> QED
  BY <1>1, <1>2, <1>3, <1>4, <1>5, <1>6, ZenonT(60)

-----------------------------------------------------------------------------
(* What an event changes in a row *)

ProviderFields == {"exists", "bond", "metadataNonce"}

IsProvider(r) == r = [f \in ProviderFields |-> r[f]] /\ r.metadataNonce \in Nat

\* The shape of the tables of providers and their metadata.
ProviderTables(d) ==
    /\ d = [f \in Tables |-> d[f]]
    /\ d.providers = [p \in Providers |-> d.providers[p]]
    /\ \A p \in Providers : IsProvider(d.providers[p])
    /\ d.metadata \in [Providers -> Nat]

\* The row of a contract that is opened, settled or closed by the event e.
OpenedRow(old, new, e, h) ==
    /\ new.height = h /\ new.provider = e.provider /\ new.delegate = e.delegate
    /\ new.settlementHeight = 0 /\ new.nonce = old.nonce /\ new.paid = old.paid

SameContract(old, new) ==
    new.height = old.height /\ new.provider = old.provider /\ new.delegate = old.delegate

EndedRow(old, new, nonce, paid, h) ==
    /\ SameContract(old, new)
    /\ new.settlementHeight = h /\ new.nonce = nonce /\ new.paid = paid

\* What the event e does to the row of a contract.
RowEffect(d, e, h, id) ==
    LET old == db.contracts[id]
        new == d.contracts[id]
    IN  \/ /\ e.type = "open" /\ id = e.id /\ Known(e.provider) /\ ~Conflicts(e, h)
           /\ OpenedRow(old, new, e, h)
        \/ /\ e.type = "settle" /\ id = e.id /\ Indexed(id)
           /\ EndedRow(old, new, e.nonce, old.paid + e.paid, h)
        \/ /\ e.type = "close" /\ id = e.id /\ Indexed(id)
           /\ EndedRow(old, new, old.nonce, old.paid, h)
        \/ /\ new = old
           /\ id = e.id /\ e.type = "open" => ~Known(e.provider) \/ Conflicts(e, h)
           /\ id = e.id /\ e.type \in {"settle", "close"} => ~Indexed(id)

\* What the event e does to the row of a provider.
ProviderEffect(d, e, p) ==
    LET old == db.providers[p]
        new == d.providers[p]
    IN  \/ /\ e.type = "bond" /\ p = e.provider
           /\ new.exists /\ new.bond = e.bond /\ new.metadataNonce = old.metadataNonce
        \/ /\ e.type = "mod" /\ p = e.provider /\ Known(p)
           /\ new.exists /\ new.bond = old.bond /\ new.metadataNonce = e.nonce
        \/ /\ new = old
           /\ p = e.provider => e.type # "bond" /\ (e.type = "mod" => ~Known(p))

\* The event e on the row of the contract id.
LEMMA RowEffects ==
    ASSUME Database(db), NEW e, IsEvent(e), NEW h, NEW after, after = HandleAbciEvent(e, h),
           NEW id \in Ids
    PROVE  RowEffect(after, e, h, id)
<1>1. /\ db = [f \in Tables |-> db[f]] /\ \A i \in Ids : IsRow(db.contracts[i])
      /\ db.contracts = [i \in Ids |-> db.contracts[i]]
      /\ e.type \in {"bond", "mod", "open", "settle", "close"} /\ e.id \in Ids
      /\ e.provider \in Providers
  BY ZenonT(60) DEF Database, IsEvent
<1>2. ASSUME after.contracts = db.contracts,
             id = e.id /\ e.type = "open" => ~Known(e.provider) \/ Conflicts(e, h),
             id = e.id /\ e.type \in {"settle", "close"} => ~Indexed(id)
      PROVE  RowEffect(after, e, h, id)
  BY <1>2, ZenonT(60) DEF RowEffect
<1>3. ASSUME NEW row, after = [db EXCEPT !.contracts[e.id] = row], id # e.id
      PROVE  RowEffect(after, e, h, id)
  <2>1. after.contracts = [db.contracts EXCEPT ![e.id] = row]
    BY <1>1, <1>3, ZenonT(60) DEF Tables
  <2>2. after.contracts[id] = db.contracts[id]
    BY <1>1, <1>3, <2>1, ZenonT(60)
  <2> QED
    BY <1>3, <2>2, ZenonT(60) DEF RowEffect
<1>o. PICK old : old = db.contracts[e.id] /\ IsRow(old)
  BY <1>1, ZenonT(60)
<1>4. CASE e.type = "bond"
  <2>1. after = HandleBondProviderEvent(e)
    BY <1>4 DEF HandleAbciEvent
  <2>2. after.contracts = db.contracts
    BY <1>1, <2>1, ZenonT(60) DEF HandleBondProviderEvent, Tables
  <2>3. e.type \notin {"open", "settle", "close"}
    BY <1>4
  <2> QED
    BY <1>2, <2>2, <2>3, ZenonT(60)
<1>5. CASE e.type = "mod"
  <2>1. after = HandleModProviderEvent(e)
    BY <1>5 DEF HandleAbciEvent
  <2>2. after.contracts = db.contracts
    BY <1>1, <2>1, ZenonT(60) DEF HandleModProviderEvent, Tables
  <2>3. e.type \notin {"open", "settle", "close"}
    BY <1>5
  <2> QED
    BY <1>2, <2>2, <2>3, ZenonT(60)
<1>6. CASE e.type = "open"
  <2>0. e.type \notin {"settle", "close"}
    BY <1>6
  <2>1. after = HandleOpenContractEvent(e, h)
    BY <1>6 DEF HandleAbciEvent
  <2>2. CASE Known(e.provider) /\ ~Conflicts(e, h)
    <3>1. PICK row : row = [old EXCEPT !.height = h, !.provider = e.provider,
                                       !.delegate = e.delegate, !.settlementHeight = 0]
      BY ZenonT(60)
    <3>2. OpenedRow(old, row, e, h)
      BY <1>o, <3>1, ZenonT(60) DEF IsRow, RowFields, OpenedRow
    <3>3. after = [db EXCEPT !.contracts[e.id] = row]
      BY <1>o, <2>1, <2>2, <3>1 DEF HandleOpenContractEvent
    <3>4. after.contracts = [db.contracts EXCEPT ![e.id] = row]
      BY <1>1, <3>3, ZenonT(60) DEF Tables
    <3>5. after.contracts[e.id] = row
      BY <1>1, <3>4, ZenonT(60)
    <3> QED
      BY <1>3, <1>6, <1>o, <2>2, <3>2, <3>3, <3>5, ZenonT(60) DEF RowEffect
  <2>3. CASE ~(Known(e.provider) /\ ~Conflicts(e, h))
    <3>1. after = db
      BY <2>1, <2>3, ZenonT(60) DEF HandleOpenContractEvent
    <3> QED
      BY <1>2, <2>0, <2>3, <3>1, ZenonT(60)
  <2> QED
    BY <2>2, <2>3
<1>7. CASE e.type = "settle"
  <2>0. e.type # "open"
    BY <1>7
  <2>1. after = HandleContractSettlementEvent(e, h)
    BY <1>7 DEF HandleAbciEvent
  <2>2. CASE Indexed(e.id)
    <3>1. PICK row : row = SettledRow(old, e, h)
      BY ZenonT(60)
    <3>2. EndedRow(old, row, e.nonce, old.paid + e.paid, h)
      BY <1>o, <3>1, ZenonT(60) DEF IsRow, RowFields, EndedRow, SameContract, SettledRow
    <3>3. after.contracts = [db.contracts EXCEPT ![e.id] = row]
      BY <1>1, <1>o, <2>1, <2>2, <3>1, ZenonT(60) DEF HandleContractSettlementEvent, Tables
    <3>4. after.contracts[e.id] = row /\ (id # e.id => after.contracts[id] = db.contracts[id])
      BY <1>1, <3>3, ZenonT(60)
    <3> QED
      BY <1>7, <1>o, <2>0, <2>2, <3>2, <3>4, ZenonT(60) DEF RowEffect
  <2>3. CASE ~Indexed(e.id)
    <3>1. after = db
      BY <2>1, <2>3, ZenonT(60) DEF HandleContractSettlementEvent
    <3> QED
      BY <1>2, <2>0, <2>3, <3>1, ZenonT(60)
  <2> QED
    BY <2>2, <2>3
<1>8. CASE e.type = "close"
  <2>0. e.type # "open"
    BY <1>8
  <2>1. after = HandleCloseContractEvent(e, h)
    BY <1>8 DEF HandleAbciEvent
  <2>2. CASE Indexed(e.id)
    <3>1. PICK row : row = [old EXCEPT !.settlementHeight = h]
      BY ZenonT(60)
    <3>2. EndedRow(old, row, old.nonce, old.paid, h)
      BY <1>o, <3>1, ZenonT(60) DEF IsRow, RowFields, EndedRow, SameContract
    <3>3. after.contracts = [db.contracts EXCEPT ![e.id] = row]
      BY <1>1, <1>o, <2>1, <2>2, <3>1, ZenonT(60) DEF HandleCloseContractEvent, Tables
    <3>4. after.contracts[e.id] = row /\ (id # e.id => after.contracts[id] = db.contracts[id])
      BY <1>1, <3>3, ZenonT(60)
    <3> QED
      BY <1>8, <1>o, <2>0, <2>2, <3>2, <3>4, ZenonT(60) DEF RowEffect
  <2>3. CASE ~Indexed(e.id)
    <3>1. after = db
      BY <2>1, <2>3, ZenonT(60) DEF HandleCloseContractEvent
    <3> QED
      BY <1>2, <2>0, <2>3, <3>1, ZenonT(60)
  <2> QED
    BY <2>2, <2>3
<1> QED
  BY <1>1, <1>4, <1>5, <1>6, <1>7, <1>8

\* The event e on the row of the provider p, and on the shape of the tables.
LEMMA ProviderEffects ==
    ASSUME ProviderTables(db), NEW e, IsEvent(e), NEW h, NEW after, after = HandleAbciEvent(e, h)
    PROVE  /\ ProviderTables(after) /\ after.metadata = db.metadata
           /\ \A p \in Providers : ProviderEffect(after, e, p)
<1>1. /\ db = [f \in Tables |-> db[f]]
      /\ db.providers = [p \in Providers |-> db.providers[p]]
      /\ \A p \in Providers : IsProvider(db.providers[p])
      /\ db.metadata \in [Providers -> Nat]
      /\ e.type \in {"bond", "mod", "open", "settle", "close"}
      /\ e.provider \in Providers
  BY ZenonT(60) DEF ProviderTables, IsEvent
<1>2. e.nonce \in Nat
  BY IndexerAssumptions DEF IsEvent
<1>3. ASSUME after.providers = db.providers, after.metadata = db.metadata,
             after = [f \in Tables |-> after[f]],
             e.type # "bond", e.type = "mod" => ~Known(e.provider)
      PROVE  /\ ProviderTables(after) /\ after.metadata = db.metadata
             /\ \A p \in Providers : ProviderEffect(after, e, p)
  BY <1>1, <1>3, ZenonT(60) DEF ProviderTables, ProviderEffect
<1>4. ASSUME NEW row, IsProvider(row), after.metadata = db.metadata,
             after = [f \in Tables |-> after[f]],
             after.providers = [db.providers EXCEPT ![e.provider] = row]
      PROVE  /\ ProviderTables(after) /\ after.providers[e.provider] = row
             /\ \A p \in Providers \ {e.provider} : ProviderEffect(after, e, p)
  <2>1. /\ after.providers = [p \in Providers |-> after.providers[p]]
        /\ after.providers[e.provider] = row
        /\ \A p \in Providers \ {e.provider} : after.providers[p] = db.providers[p]
    BY <1>1, <1>4, ZenonT(60)
  <2> QED
    BY <1>1, <1>4, <2>1, ZenonT(60) DEF ProviderTables, ProviderEffect
<1>o. PICK old : old = db.providers[e.provider] /\ IsProvider(old)
  BY <1>1, ZenonT(60)
<1>5. CASE e.type = "bond"
  <2>1. after = HandleBondProviderEvent(e)
    BY <1>5 DEF HandleAbciEvent
  <2>2. PICK row : row = [old EXCEPT !.exists = TRUE, !.bond = e.bond]
    BY ZenonT(60)
  <2>3. /\ IsProvider(row) /\ row.exists /\ row.bond = e.bond
        /\ row.metadataNonce = old.metadataNonce
    BY <1>o, <2>2, ZenonT(60) DEF IsProvider, ProviderFields
  <2>4. /\ after.metadata = db.metadata /\ after = [f \in Tables |-> after[f]]
        /\ after.providers = [db.providers EXCEPT ![e.provider] = row]
    BY <1>1, <1>o, <2>1, <2>2, ZenonT(60) DEF HandleBondProviderEvent, Tables
  <2>5. ProviderEffect(after, e, e.provider)
    BY <1>4, <1>5, <1>o, <2>3, <2>4, ZenonT(60) DEF ProviderEffect
  <2> QED
    BY <1>4, <2>3, <2>4, <2>5, ZenonT(60)
<1>6. CASE e.type = "mod"
  <2>0. e.type # "bond"
    BY <1>6
  <2>1. after = HandleModProviderEvent(e)
    BY <1>6 DEF HandleAbciEvent
  <2>2. CASE Known(e.provider)
    <3>1. PICK row : row = [old EXCEPT !.metadataNonce = e.nonce]
      BY ZenonT(60)
    <3>2. /\ IsProvider(row) /\ row.exists = old.exists /\ row.bond = old.bond
          /\ row.metadataNonce = e.nonce
      BY <1>2, <1>o, <3>1, ZenonT(60) DEF IsProvider, ProviderFields
    <3>3. /\ after.metadata = db.metadata /\ after = [f \in Tables |-> after[f]]
          /\ after.providers = [db.providers EXCEPT ![e.provider] = row]
      BY <1>1, <1>o, <2>1, <2>2, <3>1, ZenonT(60) DEF HandleModProviderEvent, Tables
    <3>4. ProviderEffect(after, e, e.provider)
      BY <1>4, <1>6, <1>o, <2>2, <3>2, <3>3, ZenonT(60) DEF ProviderEffect, Known
    <3> QED
      BY <1>4, <3>2, <3>3, <3>4, ZenonT(60)
  <2>3. CASE ~Known(e.provider)
    <3>1. after = db
      BY <2>1, <2>3, ZenonT(60) DEF HandleModProviderEvent
    <3> QED
      BY <1>1, <1>3, <2>0, <2>3, <3>1, ZenonT(60)
  <2> QED
    BY <2>2, <2>3
<1>7. CASE e.type \in {"open", "settle", "close"}
  <2>0. e.type # "bond" /\ e.type # "mod"
    BY <1>7
  <2>1. \/ after = HandleOpenContractEvent(e, h)
        \/ after = HandleContractSettlementEvent(e, h)
        \/ after = HandleCloseContractEvent(e, h)
    BY <1>7 DEF HandleAbciEvent
  <2>2. /\ after.metadata = db.metadata /\ after = [f \in Tables |-> after[f]]
        /\ after.providers = db.providers
    <3>1. CASE after = HandleOpenContractEvent(e, h)
      BY <1>1, <3>1, ZenonT(60) DEF HandleOpenContractEvent, Tables
    <3>2. CASE after = HandleContractSettlementEvent(e, h)
      BY <1>1, <3>2, ZenonT(60) DEF HandleContractSettlementEvent, Tables
    <3>3. CASE after = HandleCloseContractEvent(e, h)
      BY <1>1, <3>3, ZenonT(60) DEF HandleCloseContractEvent, Tables
    <3> QED
      BY <2>1, <3>1, <3>2, <3>3
  <2> QED
    BY <1>3, <2>0, <2>2, ZenonT(60)
<1> QED
  BY <1>1, <1>5, <1>6, <1>7

-----------------------------------------------------------------------------
(* The contracts the directory knows *)

\* What the market guarantees of the events up to the height.
LEMMA Histories ==
    ASSUME Within
    PROVE  /\ \A id \in Ids : \A x, y \in Opens(id) : x = y
           /\ \A id \in Ids : \A x \in Opens(id) : \A y \in Ends(id) : Before(x, y)
           /\ \A x \in Events : At(x).type = "open" =>
                \E y \in Bonds(At(x).provider) : Before(y, x)
<1>0. chain \in Chains /\ height \in Nat
  BY ZenonT(60) DEF Within
<1>1. \A x \in Places(chain) : At(x).type = "open" =>
          /\ \A y \in Places(chain) : At(y).id = At(x).id =>
               /\ At(y).type = "open" => y = x
               /\ At(y).type \in {"settle", "close"} => Before(x, y)
          /\ \E y \in Places(chain) : /\ At(y).type = "bond" /\ At(y).provider = At(x).provider
                                      /\ Before(y, x)
  BY <1>0, MarketHistories, ZenonT(60) DEF IsMarketHistory, At
<1>2. \A id \in Ids : \A x, y \in Opens(id) : x = y
  BY <1>1, ZenonT(60) DEF Opens, Events
<1>3. \A id \in Ids : \A x \in Opens(id) : \A y \in Ends(id) : Before(x, y)
  <2>1. \A id \in Ids : \A y \in Ends(id) :
          y \in Places(chain) /\ At(y).id = id /\ At(y).type \in {"settle", "close"}
    BY DEF Ends, Settles, Events
  <2> QED
    BY <1>1, <2>1, ZenonT(60) DEF Opens, Events
<1>4. ASSUME NEW x \in Events, At(x).type = "open"
      PROVE  \E y \in Bonds(At(x).provider) : Before(y, x)
  <2>1. x \in Places(chain) /\ x[1] <= height
    BY ZenonT(60) DEF Events
  <2>2. PICK y \in Places(chain) : /\ At(y).type = "bond" /\ At(y).provider = At(x).provider
                                   /\ Before(y, x)
    BY <1>1, <1>4, <2>1, ZenonT(60)
  <2>3. x[1] \in Nat /\ y[1] \in Nat
    BY <1>0, <2>1, PlaceFacts, ZenonT(60)
  <2>4. y[1] <= height
    BY <1>0, <2>1, <2>2, <2>3 DEF Before
  <2> QED
    BY <2>2, <2>4, ZenonT(60) DEF Bonds, Events
<1> QED
  BY <1>2, <1>3, <1>4, ZenonT(60)

\* A row says which event opened the contract.
OpenedAs(c, x) == c.height = x[1] /\ c.provider = At(x).provider /\ c.delegate = At(x).delegate

\* The providers whose bond was taken up are known, the contracts that are known were
\* opened, and those whose opening was taken up are known unless there was a conflict.
Found ==
    /\ \A p \in Providers : \A x \in Bonds(p) \cap Taken : Known(p)
    /\ \A id \in Ids : Indexed(id) => \E x \in Opens(id) : OpenedAs(db.contracts[id], x)
    /\ \A id \in Ids : \A x \in Opens(id) \cap Taken : Indexed(id) \/ Conflicts(At(x), x[1])

FoundInv == ProviderTables(db) /\ (~lost => Found)

\* The tables before the first block.
LEMMA FoundInit == Init => FoundInv
<1> SUFFICES ASSUME Init PROVE FoundInv
  OBVIOUS
<1>1. /\ db = [f \in Tables |-> db[f]]
      /\ db.providers = [p \in Providers |-> NoProvider]
      /\ db.metadata = [p \in Providers |-> 0]
      /\ db.contracts = [id \in Ids |-> NoContract]
      /\ handled = {} /\ processor.pc = "waiting"
  BY WaitingType, ZenonT(60) DEF Init, Tables
<1>2. IsProvider(NoProvider)
  <2>1. 0 \in Nat
    OBVIOUS
  <2> QED
    BY <2>1, ZenonT(60) DEF NoProvider, IsProvider, ProviderFields
<1>3. ProviderTables(db)
  <2>1. [p \in Providers |-> 0] \in [Providers -> Nat]
    OBVIOUS
  <2> QED
    BY <1>1, <1>2, <2>1, ZenonT(60) DEF ProviderTables
<1>4. Taken = {}
  <2>1. \A x : ~InBlock(processor, x)
    BY <1>1, OutOfBlock
  <2> QED
    BY <1>1, <2>1, ZenonT(60) DEF Taken, IsTaken
<1>5. \A id \in Ids : ~Indexed(id)
  <2>1. NoContract.height = 0 /\ ~(0 > 0)
    BY DEF NoContract
  <2> QED
    BY <1>1, <2>1, ZenonT(60) DEF Indexed
<1> QED
  BY <1>3, <1>4, <1>5, ZenonT(60) DEF FoundInv, Found

\* The tables change when an event is applied, and when metadata is stored.
LEMMA DbSteps ==
    ASSUME [Next]_vars
    PROVE  HandleEvent \/ UpsertProviderMetadata \/ UNCHANGED db
BY ZenonT(60) DEF Next, Filler, Processor, ChainGrows, FindLatestBlock, OfferGap, FetchBlock,
   FetchBlockFails, HandleEventFails, DownloadFails, InsertBlock, InsertBlockFails, Restart, vars

\* Storing metadata changes that table only.
Stores(after, p, n) == after = [db EXCEPT !.metadata[p] = n]

LEMMA MetadataStored ==
    ASSUME ProviderTables(db), NEW p \in Providers, NEW n \in Nat, NEW after,
           Stores(after, p, n)
    PROVE  /\ ProviderTables(after) /\ after.providers = db.providers
           /\ after.contracts = db.contracts
           /\ after.metadata[p] = n /\ \A q \in Providers \ {p} : after.metadata[q] = db.metadata[q]
<1>1. db = [f \in Tables |-> db[f]] /\ db.metadata \in [Providers -> Nat]
  BY ZenonT(60) DEF ProviderTables
<1>2. /\ after = [f \in Tables |-> after[f]]
      /\ after.providers = db.providers /\ after.contracts = db.contracts
      /\ after.metadata = [db.metadata EXCEPT ![p] = n]
  BY <1>1, ZenonT(60) DEF Tables, Stores
<1>3. /\ after.metadata \in [Providers -> Nat] /\ after.metadata[p] = n
      /\ \A q \in Providers \ {p} : after.metadata[q] = db.metadata[q]
  BY <1>1, <1>2, ZenonT(60)
<1> QED
  BY <1>2, <1>3, ZenonT(60) DEF ProviderTables

\* The event whose metadata is downloaded.
LEMMA DownloadFacts ==
    ASSUME Within, processor.pc = "metadata"
    PROVE  IsEvent(Event) /\ Event.provider \in Providers /\ Event.nonce \in Nat
           /\ Here \in Events /\ At(Here) = Event
<1>1. chain \in Chains /\ height \in Nat /\ height <= Len(chain)
  BY ZenonT(60) DEF Within
<1>2. processor.pc # "waiting" /\ processor.pc \in {"event", "metadata"}
  OBVIOUS
<1>3. /\ processor \in Processors /\ processor.i <= height /\ 1 <= processor.i
      /\ 1 <= processor.k /\ processor.k <= Len(chain[processor.i])
  BY <1>2, ZenonT(60) DEF Within, Position
<1>4. processor.i \in Nat /\ processor.k \in Nat
  BY <1>3, ZenonT(60) DEF Processors
<1>5. processor.i <= Len(chain)
  <2>1. Len(chain) \in Nat
    BY <1>1, IndexerAssumptions, ZenonT(60) DEF IsSequence
  <2> QED
    BY <1>1, <1>3, <1>4, <2>1
<1>6. Here[1] = processor.i /\ Here[2] = processor.k
  BY DEF Here
<1>7. Here \in Places(chain)
  BY <1>1, <1>3, <1>4, <1>5, PlaceMade, ZenonT(60) DEF Here
<1>8. At(Here) = Event /\ Here \in Events
  BY <1>3, <1>6, <1>7, ZenonT(60) DEF At, Event, Events
<1>9. IsEvent(Event)
  BY <1>1, <1>7, <1>8, PlaceFacts, ZenonT(60)
<1>10. Event.nonce \in Nat
  BY <1>9, IndexerAssumptions DEF IsEvent
<1> QED
  BY <1>8, <1>9, <1>10, ZenonT(60) DEF IsEvent

\* A step that applies no event leaves the tables of contracts and providers alone.
LEMMA OtherSteps ==
    ASSUME CourseInv, ProviderTables(db), [Next]_vars, ~HandleEvent
    PROVE  /\ ProviderTables(db)'
           /\ db'.contracts = db.contracts /\ db'.providers = db.providers
<1>1. CASE UNCHANGED db
  BY <1>1, ZenonT(60) DEF ProviderTables
<1>2. CASE UpsertProviderMetadata
  <2>1. processor.pc = "metadata" /\ Within
    BY <1>2, ZenonT(60) DEF UpsertProviderMetadata, CourseInv, RecordsInv
  <2>2. Event.provider \in Providers /\ Event.nonce \in Nat
    BY <2>1, DownloadFacts, ZenonT(60)
  <2>3. PICK after, p, n :
          Stores(after, p, n) /\ p = Event.provider /\ n = Event.nonce
    BY ZenonT(60) DEF Stores
  <2>4. /\ ProviderTables(after) /\ after.providers = db.providers
        /\ after.contracts = db.contracts
    <3>1. p \in Providers /\ n \in Nat
      BY <2>2, <2>3, ZenonT(60)
    <3> QED
      BY <2>3, <3>1, MetadataStored
  <2>5. db' = after
    BY <1>2, <2>3, ZenonT(60) DEF UpsertProviderMetadata, Stores
  <2> QED
    BY <2>4, <2>5, ZenonT(60) DEF ProviderTables
<1> QED
  BY <1>1, <1>2, DbSteps

\* The step that applies the event at hand.
LEMMA EventStep ==
    ASSUME CourseInv, ProviderTables(db), HandleEvent
    PROVE  /\ ProviderTables(db)' /\ db'.metadata = db.metadata
           /\ \A id \in Ids : RowEffect(db', Event, processor.i, id)
           /\ \A p \in Providers : ProviderEffect(db', Event, p)
           /\ processor.pc = "event"
<1>1. /\ processor.pc = "event" /\ db' = HandleAbciEvent(Event, processor.i)
  BY ZenonT(60) DEF HandleEvent
<1>2. Database(db)
  BY ZenonT(60) DEF CourseInv, RecordsInv, DatabaseOK
<1>3. IsEvent(Event)
  BY <1>1, HereFacts, ZenonT(60)
<1>4. PICK after, e, h : after = HandleAbciEvent(e, h) /\ e = Event /\ h = processor.i
  BY ZenonT(60)
<1>5. \A id \in Ids : RowEffect(after, e, h, id)
  BY <1>2, <1>3, <1>4, RowEffects, ZenonT(60)
<1>6. /\ ProviderTables(after) /\ after.metadata = db.metadata
      /\ \A p \in Providers : ProviderEffect(after, e, p)
  BY <1>3, <1>4, ProviderEffects, ZenonT(60)
<1>7. db' = after
  BY <1>1, <1>4, ZenonT(60)
<1>8. ProviderTables(db)'
  BY <1>6, <1>7, ZenonT(60) DEF ProviderTables
<1> QED
  BY <1>1, <1>4, <1>5, <1>6, <1>7, <1>8, ZenonT(60)

\* An event that is applied leaves a contract that is known the one it is.
LEMMA ContractStays ==
    ASSUME CourseInv, ProviderTables(db), Found, HandleEvent, NEW id \in Ids, Indexed(id)
    PROVE  SameContract(db.contracts[id], db'.contracts[id])
<1>1. /\ RowEffect(db', Event, processor.i, id)
      /\ processor.pc = "event"
  BY EventStep, ZenonT(60)
<1>2. Here \in Events /\ At(Here) = Event /\ Here[1] = processor.i
  BY <1>1, HereFacts, ZenonT(60)
<1>3. CASE /\ Event.type = "open" /\ id = Event.id
           /\ OpenedRow(db.contracts[id], db'.contracts[id], Event, processor.i)
  <2>1. PICK x \in Opens(id) : OpenedAs(db.contracts[id], x)
    BY ZenonT(60) DEF Found
  <2>2. Here \in Opens(id)
    BY <1>2, <1>3, ZenonT(60) DEF Opens
  <2>3. Within
    BY ZenonT(60) DEF CourseInv, RecordsInv
  <2>4. x = Here
    BY <2>2, <2>3, Histories, ZenonT(60)
  <2> QED
    BY <1>2, <1>3, <2>1, <2>4, ZenonT(60) DEF OpenedAs, OpenedRow, SameContract
<1>4. CASE \/ db'.contracts[id] = db.contracts[id]
           \/ \E n, v : EndedRow(db.contracts[id], db'.contracts[id], n, v, processor.i)
  BY <1>4, ZenonT(60) DEF EndedRow, SameContract
<1> QED
  BY <1>1, <1>3, <1>4, ZenonT(60) DEF RowEffect

\* What is known of providers and contracts, in a step that applies no event.
LEMMA FoundOther ==
    ASSUME CourseInv, ProviderTables(db), [Next]_vars, ~HandleEvent, ~lost', Found
    PROVE  Found'
<1>1. /\ db'.contracts = db.contracts /\ db'.providers = db.providers
  BY OtherSteps
<1>2. /\ chain' = chain /\ Events \subseteq Events' /\ Taken' \subseteq Taken
  BY CourseSets, ZenonT(60)
<1>3. /\ \A x : At(x)' = At(x)
      /\ \A id : Grown(Opens(id), Opens(id)')
      /\ \A p : Grown(Bonds(p), Bonds(p)')
  BY <1>2, SetsGrow, ZenonT(60)
<1>4. Taken \subseteq Events
  BY ZenonT(60) DEF Taken
<1>5. /\ \A id : Opens(id) \subseteq Opens(id)'
              /\ (Opens(id)' \cap Taken') \subseteq Opens(id) \cap Taken
      /\ \A p : (Bonds(p)' \cap Taken') \subseteq Bonds(p) \cap Taken
  BY <1>2, <1>3, <1>4, ZenonT(60) DEF Grown
<1>6. /\ \A p \in Providers : Known(p)' <=> Known(p)
      /\ \A id \in Ids : Indexed(id)' <=> Indexed(id)
  BY <1>1, ZenonT(60) DEF Known, Indexed
<1>7. \A x : Conflicts(At(x), x[1]) => Conflicts(At(x), x[1])'
  BY <1>1, <1>3, ZenonT(60) DEF Conflicts
<1>8. \A id \in Ids : \A x : OpenedAs(db.contracts[id], x) => OpenedAs(db.contracts[id], x)'
  BY <1>1, <1>3, ZenonT(60) DEF OpenedAs
<1>9. (\A p \in Providers : \A x \in Bonds(p) \cap Taken : Known(p))'
  BY <1>5, <1>6, ZenonT(60) DEF Found
<1>10. (\A id \in Ids : Indexed(id) => \E x \in Opens(id) : OpenedAs(db.contracts[id], x))'
  BY <1>5, <1>6, <1>8, ZenonT(60) DEF Found
<1>11. (\A id \in Ids : \A x \in Opens(id) \cap Taken : Indexed(id) \/ Conflicts(At(x), x[1]))'
  BY <1>5, <1>6, <1>7, ZenonT(60) DEF Found
<1> QED
  BY <1>9, <1>10, <1>11, ZenonT(60) DEF Found

\* What is known of providers and contracts, in the step that applies an event.
LEMMA FoundEvent ==
    ASSUME CourseInv, ProviderTables(db), [Next]_vars, HandleEvent, ~lost', Found
    PROVE  Found'
<1>0. Within
  BY ZenonT(60) DEF CourseInv, RecordsInv
<1>1. /\ \A id \in Ids : RowEffect(db', Event, processor.i, id)
      /\ \A p \in Providers : ProviderEffect(db', Event, p)
      /\ processor.pc = "event"
  BY EventStep, ZenonT(60)
<1>2. /\ Here \in Events /\ At(Here) = Event /\ Here[1] = processor.i /\ IsEvent(Event)
      /\ processor.i \in Nat /\ 1 <= processor.i
      /\ \A x \in Events : Before(x, Here) => x \in Taken
  BY <1>1, HereFacts, ZenonT(60)
<1>3. /\ chain' = chain /\ Events \subseteq Events' /\ Taken' \subseteq Taken \cup {Here}
  BY CourseSets, ZenonT(60)
<1>4. /\ \A x : At(x)' = At(x)
      /\ \A id : Grown(Opens(id), Opens(id)')
      /\ \A p : Grown(Bonds(p), Bonds(p)')
  BY <1>3, SetsGrow, ZenonT(60)
<1>5. Taken \subseteq Events
  BY ZenonT(60) DEF Taken
<1>6. /\ \A id : Opens(id) \subseteq Opens(id)'
                 /\ (Opens(id)' \cap Taken') \subseteq Opens(id) \cap (Taken \cup {Here})
      /\ \A p : (Bonds(p)' \cap Taken') \subseteq Bonds(p) \cap (Taken \cup {Here})
  BY <1>2, <1>3, <1>4, <1>5, ZenonT(60) DEF Grown
<1>7. \A p \in Providers : Known(p) => Known(p)'
  BY <1>1, ZenonT(60) DEF ProviderEffect, Known
<1>8. \A id \in Ids : Indexed(id) => SameContract(db.contracts[id], db'.contracts[id])
  BY ContractStays, ZenonT(60)
<1>9. \A id \in Ids : Indexed(id) => Indexed(id)'
  BY <1>8, ZenonT(60) DEF Indexed, SameContract
<1>10. (\A p \in Providers : \A x \in Bonds(p) \cap Taken : Known(p))'
  <2> SUFFICES ASSUME NEW p \in Providers, NEW x \in Bonds(p) \cap (Taken \cup {Here})
               PROVE  Known(p)'
    BY <1>6, ZenonT(60)
  <2>1. CASE x \in Taken
    BY <1>7, <2>1, ZenonT(60) DEF Found
  <2>2. CASE x = Here
    <3>1. Event.type = "bond" /\ Event.provider = p
      BY <1>2, <2>2, ZenonT(60) DEF Bonds
    <3>2. Event.type # "mod"
      BY <3>1
    <3> QED
      BY <1>1, <3>1, <3>2, ZenonT(60) DEF ProviderEffect, Known
  <2> QED
    BY <2>1, <2>2
<1>11. (\A id \in Ids : Indexed(id) => \E x \in Opens(id) : OpenedAs(db.contracts[id], x))'
  <2> SUFFICES ASSUME NEW id \in Ids, Indexed(id)'
               PROVE  \E x \in Opens(id)' : OpenedAs(db.contracts[id], x)'
    BY ZenonT(60)
  <2>1. CASE Indexed(id)
    <3>1. PICK x \in Opens(id) : OpenedAs(db.contracts[id], x)
      BY <2>1, ZenonT(60) DEF Found
    <3>2. OpenedAs(db.contracts[id], x)'
      BY <1>4, <1>8, <2>1, <3>1, ZenonT(60) DEF OpenedAs, SameContract
    <3> QED
      BY <1>6, <3>1, <3>2, ZenonT(60)
  <2>2. CASE ~Indexed(id)
    <3>1. db'.contracts[id] # db.contracts[id]
      BY <2>2, ZenonT(60) DEF Indexed
    <3>2. /\ Event.type = "open" /\ id = Event.id
          /\ OpenedRow(db.contracts[id], db'.contracts[id], Event, processor.i)
      BY <1>1, <2>2, <3>1, ZenonT(60) DEF RowEffect
    <3>3. Here \in Opens(id)
      BY <1>2, <3>2, ZenonT(60) DEF Opens
    <3>4. PICK x : x = Here
      BY ZenonT(60)
    <3>5. OpenedAs(db.contracts[id], x)'
      BY <1>2, <1>4, <3>2, <3>4, ZenonT(60) DEF OpenedAs, OpenedRow
    <3> QED
      BY <1>6, <3>3, <3>4, <3>5, ZenonT(60)
  <2> QED
    BY <2>1, <2>2
<1>12. \A x : Conflicts(At(x), x[1]) /\ x \in Events => Conflicts(At(x), x[1])'
  <2> SUFFICES ASSUME NEW x, Conflicts(At(x), x[1]), x \in Events
               PROVE  Conflicts(At(x), x[1])'
    BY ZenonT(60)
  <2>1. PICK id \in Ids \ {At(x).id} :
          /\ db.contracts[id].height = x[1]
          /\ db.contracts[id].provider = At(x).provider
          /\ db.contracts[id].delegate = At(x).delegate
    BY ZenonT(60) DEF Conflicts
  <2>2. x[1] > 0
    <3>1. chain \in Chains
      BY <1>0, ZenonT(60) DEF Within
    <3>2. x[1] \in Nat /\ 1 <= x[1]
      BY <3>1, PlaceFacts, ZenonT(60) DEF Events
    <3> QED
      BY <3>2
  <2>3. SameContract(db.contracts[id], db'.contracts[id])
    BY <1>8, <2>1, <2>2, ZenonT(60) DEF Indexed
  <2> QED
    BY <1>4, <2>1, <2>3, ZenonT(60) DEF Conflicts, SameContract
<1>13. (\A id \in Ids : \A x \in Opens(id) \cap Taken : Indexed(id) \/ Conflicts(At(x), x[1]))'
  <2> SUFFICES ASSUME NEW id \in Ids, NEW x \in Opens(id) \cap (Taken \cup {Here})
               PROVE  Indexed(id)' \/ Conflicts(At(x), x[1])'
    BY <1>6, ZenonT(60)
  <2>0. x \in Events
    BY ZenonT(60) DEF Opens
  <2>1. CASE x \in Taken
    BY <1>9, <1>12, <2>0, <2>1, ZenonT(60) DEF Found
  <2>2. CASE x = Here
    <3>1. Event.type = "open" /\ Event.id = id /\ At(x) = Event /\ x[1] = processor.i
      BY <1>2, <2>2, ZenonT(60) DEF Opens
    <3>2. Event.type \notin {"settle", "close"}
      BY <3>1
    <3>3. Known(Event.provider)
      <4>1. PICK y \in Bonds(Event.provider) : Before(y, x)
        BY <1>0, <2>0, <3>1, Histories, ZenonT(60)
      <4>2. y \in Taken
        BY <1>2, <2>2, <4>1, ZenonT(60) DEF Bonds
      <4>3. Event.provider \in Providers
        BY <1>2, ZenonT(60) DEF IsEvent
      <4> QED
        BY <4>1, <4>2, <4>3, ZenonT(60) DEF Found
    <3>4. CASE Conflicts(Event, processor.i)
      BY <1>12, <2>0, <3>1, <3>4, ZenonT(60)
    <3>5. CASE ~Conflicts(Event, processor.i)
      <4>1. db'.contracts[id].height = processor.i
        BY <1>1, <3>1, <3>2, <3>3, <3>5, ZenonT(60) DEF RowEffect, OpenedRow
      <4>2. processor.i > 0
        BY <1>2
      <4> QED
        BY <4>1, <4>2, ZenonT(60) DEF Indexed
    <3> QED
      BY <3>4, <3>5
  <2> QED
    BY <2>1, <2>2
<1> QED
  BY <1>10, <1>11, <1>13, ZenonT(60) DEF Found

\* Every step keeps what is known of providers and contracts.
LEMMA FoundStep == CourseInv /\ FoundInv /\ [Next]_vars => FoundInv'
<1> SUFFICES ASSUME CourseInv, FoundInv, [Next]_vars PROVE FoundInv'
  OBVIOUS
<1>1. ProviderTables(db) /\ (~lost' => ~lost)
  BY CourseSets, ZenonT(60) DEF FoundInv
<1>2. ProviderTables(db)'
  BY <1>1, OtherSteps, EventStep, ZenonT(60)
<1>3. ~lost' => Found'
  BY <1>1, FoundOther, FoundEvent, ZenonT(60) DEF FoundInv
<1> QED
  BY <1>2, <1>3, ZenonT(60) DEF FoundInv

\* Once all is indexed, every event up to the height was taken up and applied.
LEMMA AllTaken ==
    ASSUME CourseInv, Settled
    PROVE  Taken = Events /\ Applied = Events /\ Good
<1>1. processor.pc = "waiting" /\ block = height /\ Good
  BY WaitingType, ZenonT(60) DEF Settled, Good
<1>2. chain \in Chains /\ height \in Nat /\ 1 .. block \subseteq handled
  BY ZenonT(60) DEF CourseInv, RecordsInv, Within, IndexerInv, Behind, NoBlockSkipped
<1>3. ASSUME NEW x \in Events PROVE x[1] \in handled /\ x[1] <= block
  <2>1. x[1] \in Nat /\ 1 <= x[1] /\ x[1] <= height
    BY <1>2, PlaceFacts, ZenonT(60) DEF Events
  <2>2. x[1] \in 1 .. height
    BY <1>2, <2>1
  <2> QED
    BY <1>1, <1>2, <2>1, <2>2, ZenonT(60)
<1>4. Taken = Events
  BY <1>3, ZenonT(60) DEF Taken, IsTaken
<1>5. processor.pc \in {"waiting", "fetch"}
  BY <1>1
<1>6. Applied = Events
  BY <1>3, <1>5, ZenonT(60) DEF Applied, IsApplied
<1> QED
  BY <1>1, <1>4, <1>6

\* A contract that is not known was kept out by the one it was in conflict with.
LEMMA FoundExplains == CourseInv /\ FoundInv => MissingOnlyIfConflict
<1> SUFFICES ASSUME CourseInv, FoundInv, Settled, NEW id \in Ids, NEW x \in Opens(id),
                    ~Indexed(id)
             PROVE  \E y \in Events \ {x} : /\ At(y).type = "open" /\ y[1] = x[1]
                                            /\ At(y).provider = At(x).provider
                                            /\ At(y).delegate = At(x).delegate
  BY ZenonT(60) DEF MissingOnlyIfConflict
<1>1. Taken = Events /\ Found /\ Within
  BY AllTaken, ZenonT(60) DEF FoundInv, Settled, CourseInv, RecordsInv
<1>2. x \in Events /\ At(x).id = id
  BY ZenonT(60) DEF Opens
<1>3. Conflicts(At(x), x[1])
  BY <1>1, <1>2, ZenonT(60) DEF Found
<1>4. PICK other \in Ids \ {id} :
        /\ db.contracts[other].height = x[1]
        /\ db.contracts[other].provider = At(x).provider
        /\ db.contracts[other].delegate = At(x).delegate
  BY <1>2, <1>3, ZenonT(60) DEF Conflicts
<1>5. x[1] > 0
  <2>1. chain \in Chains
    BY <1>1, ZenonT(60) DEF Within
  <2>2. x[1] \in Nat /\ 1 <= x[1]
    BY <1>2, <2>1, PlaceFacts, ZenonT(60) DEF Events
  <2> QED
    BY <2>2
<1>6. PICK y \in Opens(other) : OpenedAs(db.contracts[other], y)
  BY <1>1, <1>4, <1>5, ZenonT(60) DEF Found, Indexed
<1>7. y \in Events /\ At(y).type = "open" /\ At(y).id = other
  BY <1>6, ZenonT(60) DEF Opens
<1>8. y # x
  BY <1>2, <1>4, <1>7, ZenonT(60)
<1> QED
  BY <1>4, <1>6, <1>7, <1>8, ZenonT(60) DEF OpenedAs

\* CourseInv and FoundInv together are inductive.
LEMMA CourseStep ==
    SumFacts /\ CourseInv /\ FoundInv /\ [Next]_vars => (CourseInv /\ FoundInv)'
<1> SUFFICES ASSUME SumFacts, CourseInv, FoundInv, [Next]_vars PROVE CourseInv' /\ FoundInv'
  OBVIOUS
<1>1. RecordsInv /\ IndexerInv
  BY ZenonT(60) DEF CourseInv
<1>2. RecordsInv'
  BY <1>1, RecordsStep
<1>3. IndexerInv'
  BY <1>1, IndexerStepInv
<1>4. Control' /\ FoundInv'
  BY ControlStep, FoundStep
<1> QED
  BY <1>2, <1>3, <1>4, ZenonT(60) DEF CourseInv

-----------------------------------------------------------------------------
(* What the directory agrees on with the chain *)

\* The event x of the set S has none of S after it among the events A.
Latest(S, A, x) == x \in S /\ \A y \in S \cap A : ~Before(x, y)

\* What is stored was set by an event that no applied one of its kind follows: the last
\* one applied, or one further on that was applied earlier.
HeightTracked(id) ==
    \/ Ends(id) \cap Applied = {} /\ db.contracts[id].settlementHeight = 0
    \/ \E x \in Ends(id) : /\ Latest(Ends(id), Applied, x)
                           /\ db.contracts[id].settlementHeight = x[1]

NonceTracked(id) ==
    \/ Settles(id) \cap Applied = {}
    \/ \E x \in Settles(id) : /\ Latest(Settles(id), Applied, x)
                              /\ db.contracts[id].nonce = At(x).nonce

BondTracked(p) ==
    \/ Bonds(p) \cap Applied = {}
    \/ \E x \in Bonds(p) : /\ Latest(Bonds(p), Applied, x)
                           /\ db.providers[p].bond = At(x).bond

Tracked ==
    /\ \A id \in Ids : Indexed(id) => HeightTracked(id) /\ NonceTracked(id)
    /\ \A p \in Providers : BondTracked(p)

\* The last event of a set is the one that none of the set follows.
LEMMA LastIs ==
    ASSUME Within, NEW S \in SUBSET Events, NEW x, Latest(S, Events, x)
    PROVE  LastOf(S) = x /\ S # {}
<1>1. chain \in Chains
  BY ZenonT(60) DEF Within
<1>2. x \in S /\ \A y \in S : ~Before(x, y)
  BY ZenonT(60) DEF Latest
<1>3. PICK z : z = LastOf(S)
  BY ZenonT(60)
<1>4. z \in S /\ \A y \in S : ~Before(z, y)
  BY <1>2, <1>3, ZenonT(60) DEF LastOf
<1>5. S \subseteq Places(chain)
  BY ZenonT(60) DEF Events
<1> QED
  BY <1>1, <1>2, <1>3, <1>4, <1>5, TotalOrder, ZenonT(60)

\* The event at hand is the latest one of its kind.
LEMMA HereLatest ==
    ASSUME CourseInv, processor.pc = "event", NEW S \in SUBSET Events, Here \in S,
           NEW T, Grown(S, T), NEW B, B \subseteq Applied \cup {Here}
    PROVE  Latest(T, B, Here)
<1>1. /\ Here \in Events /\ \A x \in Events : (x \in Applied <=> Before(x, Here))
  BY HereFacts, ZenonT(60)
<1>2. chain \in Chains
  BY ZenonT(60) DEF CourseInv, RecordsInv, Within
<1>3. Events \subseteq Places(chain) /\ Applied \subseteq Events
  BY ZenonT(60) DEF Events, Applied
<1> QED
  BY <1>1, <1>2, <1>3, TotalOrder, ZenonT(60) DEF Latest, Grown

\* Nothing is applied at first.
LEMMA TrackedInit == Init => Tracked
<1> SUFFICES ASSUME Init PROVE Tracked
  OBVIOUS
<1>1. chain \in Chains /\ block = 0 /\ processor.pc = "waiting"
      /\ db.contracts = [id \in Ids |-> NoContract]
  BY WaitingType, ZenonT(60) DEF Init
<1>2. ASSUME NEW x \in Applied PROVE FALSE
  <2>1. x \in Events /\ IsApplied(processor, block, x)
    BY ZenonT(60) DEF Applied
  <2>2. x[1] \in Nat /\ 1 <= x[1]
    BY <1>1, <2>1, PlaceFacts, ZenonT(60) DEF Events
  <2>3. ~InBlock(processor, x)
    BY <1>1, OutOfBlock
  <2>4. x[1] <= block
    BY <1>1, <2>1, <2>3, ZenonT(60) DEF IsApplied
  <2> QED
    BY <1>1, <2>2, <2>4
<1>3. \A id \in Ids : ~Indexed(id)
  <2>1. NoContract.height = 0 /\ ~(0 > 0)
    BY DEF NoContract
  <2> QED
    BY <1>1, <2>1, ZenonT(60) DEF Indexed
<1> QED
  BY <1>2, <1>3, ZenonT(60) DEF Tracked, BondTracked

\* The kinds of events are subsets of the events.
LEMMA KindsAreEvents ==
    /\ \A id : Opens(id) \subseteq Events /\ Settles(id) \subseteq Events
    /\ \A id : Ends(id) \subseteq Events /\ Settles(id) \subseteq Ends(id)
    /\ \A p : Bonds(p) \subseteq Events /\ Mods(p) \subseteq Events
BY ZenonT(60) DEF Opens, Settles, Ends, Bonds, Mods

\* The set T of events takes in no applied one besides those of S; B are the applied ones.
Calm(S, T, B) == S \subseteq T /\ T \cap B \subseteq S \cap Applied

\* What is tracked stays tracked when none of its kind is applied.
LEMMA HeightStays ==
    ASSUME NEW id, Calm(Ends(id), Ends(id)', Applied'), HeightTracked(id),
           db'.contracts[id].settlementHeight = db.contracts[id].settlementHeight
    PROVE  HeightTracked(id)'
<1>1. /\ Ends(id) \subseteq Ends(id)'
      /\ Ends(id) \cap Applied = {} => Ends(id)' \cap Applied' = {}
      /\ \A x : Latest(Ends(id), Applied, x) => Latest(Ends(id), Applied, x)'
  BY ZenonT(60) DEF Calm, Latest, Before
<1> QED
  BY <1>1, ZenonT(60) DEF HeightTracked

LEMMA NonceStays ==
    ASSUME NEW id, Calm(Settles(id), Settles(id)', Applied'), NonceTracked(id),
           \A x : At(x)' = At(x), db'.contracts[id].nonce = db.contracts[id].nonce
    PROVE  NonceTracked(id)'
<1>1. /\ Settles(id) \subseteq Settles(id)'
      /\ Settles(id) \cap Applied = {} => Settles(id)' \cap Applied' = {}
      /\ \A x : Latest(Settles(id), Applied, x) => Latest(Settles(id), Applied, x)'
  BY ZenonT(60) DEF Calm, Latest, Before
<1> QED
  BY <1>1, ZenonT(60) DEF NonceTracked

LEMMA BondStays ==
    ASSUME NEW p, Calm(Bonds(p), Bonds(p)', Applied'), BondTracked(p),
           \A x : At(x)' = At(x), db'.providers[p].bond = db.providers[p].bond
    PROVE  BondTracked(p)'
<1>1. /\ Bonds(p) \subseteq Bonds(p)'
      /\ Bonds(p) \cap Applied = {} => Bonds(p)' \cap Applied' = {}
      /\ \A x : Latest(Bonds(p), Applied, x) => Latest(Bonds(p), Applied, x)'
  BY ZenonT(60) DEF Calm, Latest, Before
<1> QED
  BY <1>1, ZenonT(60) DEF BondTracked

\* A step that applies no event.
LEMMA TrackedOther ==
    ASSUME CourseInv, ProviderTables(db), [Next]_vars, ~HandleEvent, Good', Tracked
    PROVE  Tracked'
<1>1. /\ db'.contracts = db.contracts /\ db'.providers = db.providers
  BY OtherSteps
<1>2. /\ chain' = chain /\ Events \subseteq Events' /\ Applied' \subseteq Applied
  BY CourseSets, ZenonT(60)
<1>3. /\ \A x : At(x)' = At(x)
      /\ \A id : Grown(Settles(id), Settles(id)') /\ Grown(Ends(id), Ends(id)')
      /\ \A p : Grown(Bonds(p), Bonds(p)')
  BY <1>2, SetsGrow, ZenonT(60)
<1>4. Applied \subseteq Events
  BY ZenonT(60) DEF Applied
<1>5. \A S, T : Grown(S, T) => Calm(S, T, Applied')
  BY <1>2, <1>4, ZenonT(60) DEF Grown, Calm
<1>6. ASSUME NEW id \in Ids, Indexed(id)' PROVE HeightTracked(id)' /\ NonceTracked(id)'
  <2>1. Indexed(id)
    BY <1>1, <1>6, ZenonT(60) DEF Indexed
  <2>2. HeightTracked(id) /\ NonceTracked(id)
    BY <2>1, ZenonT(60) DEF Tracked
  <2> QED
    BY <1>1, <1>3, <1>5, <2>2, HeightStays, NonceStays, ZenonT(60)
<1>7. ASSUME NEW p \in Providers PROVE BondTracked(p)'
  <2>1. BondTracked(p)
    BY ZenonT(60) DEF Tracked
  <2> QED
    BY <1>1, <1>3, <1>5, <2>1, BondStays, ZenonT(60)
<1> QED
  BY <1>6, <1>7, ZenonT(60) DEF Tracked

\* The step that applies the event at hand.
LEMMA TrackedEvent ==
    ASSUME CourseInv, ProviderTables(db), [Next]_vars, HandleEvent, Good', Tracked
    PROVE  Tracked'
<1>0. Within /\ chain \in Chains
  BY ZenonT(60) DEF CourseInv, RecordsInv, Within
<1>1. /\ \A id \in Ids : RowEffect(db', Event, processor.i, id)
      /\ \A p \in Providers : ProviderEffect(db', Event, p)
      /\ processor.pc = "event"
  BY EventStep, ZenonT(60)
<1>2. /\ Here \in Events /\ At(Here) = Event /\ Here[1] = processor.i
      /\ \A x \in Events : (x \in Applied <=> Before(x, Here))
  BY <1>1, HereFacts, ZenonT(60)
<1>3. /\ chain' = chain /\ Events \subseteq Events' /\ Applied' \subseteq Applied \cup {Here}
  BY CourseSets, ZenonT(60)
<1>4. /\ \A x : At(x)' = At(x)
      /\ \A id : Grown(Settles(id), Settles(id)') /\ Grown(Ends(id), Ends(id)')
      /\ \A p : Grown(Bonds(p), Bonds(p)')
  BY <1>3, SetsGrow, ZenonT(60)
<1>5. Applied \subseteq Events /\ Events \subseteq Places(chain)
  BY ZenonT(60) DEF Applied, Events
<1>6. \A S, T : Grown(S, T) /\ Here \notin S => Calm(S, T, Applied')
  BY <1>2, <1>3, <1>5, ZenonT(60) DEF Grown, Calm
<1>7. PICK here : here = Here
  BY ZenonT(60)
<1>8. ASSUME NEW S \in SUBSET Events, NEW T, Grown(S, T), here \in S
      PROVE  here \in T /\ Latest(T, Applied', here)
  BY <1>1, <1>3, <1>7, <1>8, HereLatest, ZenonT(60) DEF Grown
<1>9. ASSUME NEW id \in Ids, Indexed(id)' PROVE HeightTracked(id)' /\ NonceTracked(id)'
  <2>1. CASE /\ Event.type = "open" /\ id = Event.id
             /\ OpenedRow(db.contracts[id], db'.contracts[id], Event, processor.i)
    <3>1. Here \in Opens(id)
      BY <1>2, <2>1, ZenonT(60) DEF Opens
    <3>2. \A y \in Ends(id) : Before(Here, y)
      BY <1>0, <3>1, Histories, ZenonT(60)
    <3>3. Ends(id) \cap (Applied \cup {Here}) = {}
      BY <1>0, <1>2, <1>5, <3>2, TotalOrder, ZenonT(60)
    <3>4. Ends(id)' \cap Applied' = {}
      BY <1>2, <1>3, <1>4, <1>5, <3>3, ZenonT(60) DEF Grown
    <3>5. Settles(id)' \cap Applied' = {}
      BY <3>4, ZenonT(60) DEF Ends
    <3> QED
      BY <2>1, <3>4, <3>5, ZenonT(60) DEF HeightTracked, NonceTracked, OpenedRow
  <2>2. CASE /\ Event.type = "settle" /\ id = Event.id
             /\ \E v : EndedRow(db.contracts[id], db'.contracts[id], Event.nonce, v, processor.i)
    <3>1. here \in Settles(id)
      BY <1>2, <1>7, <2>2, ZenonT(60) DEF Settles
    <3>2. here \in Ends(id)
      BY <3>1, ZenonT(60) DEF Ends
    <3>3. here \in Settles(id)' /\ Latest(Settles(id)', Applied', here)
      BY <1>4, <1>8, <3>1, KindsAreEvents, ZenonT(60)
    <3>4. here \in Ends(id)' /\ Latest(Ends(id)', Applied', here)
      BY <1>4, <1>8, <3>2, KindsAreEvents, ZenonT(60)
    <3>5. Latest(Settles(id), Applied, here)' /\ Latest(Ends(id), Applied, here)'
      BY <3>3, <3>4, ZenonT(60) DEF Latest, Before
    <3>6. /\ db'.contracts[id].settlementHeight = here[1]
          /\ db'.contracts[id].nonce = At(here)'.nonce
      BY <1>2, <1>4, <1>7, <2>2, ZenonT(60) DEF EndedRow
    <3> QED
      BY <3>3, <3>4, <3>5, <3>6, ZenonT(60) DEF HeightTracked, NonceTracked
  <2>3. CASE /\ Event.type = "close" /\ id = Event.id /\ Indexed(id)
             /\ \E v : EndedRow(db.contracts[id], db'.contracts[id], db.contracts[id].nonce, v,
                                processor.i)
    <3>1. here \in Ends(id)
      BY <1>2, <1>7, <2>3, ZenonT(60) DEF Ends
    <3>2. here \in Ends(id)' /\ Latest(Ends(id)', Applied', here)
      BY <1>4, <1>8, <3>1, KindsAreEvents, ZenonT(60)
    <3>3. Latest(Ends(id), Applied, here)'
      BY <3>2, ZenonT(60) DEF Latest, Before
    <3>4. /\ db'.contracts[id].settlementHeight = here[1]
          /\ db'.contracts[id].nonce = db.contracts[id].nonce
      BY <1>2, <1>7, <2>3, ZenonT(60) DEF EndedRow
    <3>5. HeightTracked(id)'
      BY <3>2, <3>3, <3>4, ZenonT(60) DEF HeightTracked
    <3>6. Here \notin Settles(id)
      <4>1. Event.type # "settle"
        BY <2>3
      <4> QED
        BY <1>2, <4>1, ZenonT(60) DEF Settles
    <3>7. NonceTracked(id)
      BY <2>3, ZenonT(60) DEF Tracked
    <3>8. NonceTracked(id)'
      BY <1>4, <1>6, <3>4, <3>6, <3>7, NonceStays, ZenonT(60)
    <3> QED
      BY <3>5, <3>8
  <2>4. CASE /\ db'.contracts[id] = db.contracts[id]
             /\ id = Event.id /\ Event.type \in {"settle", "close"} => ~Indexed(id)
    <3>1. Indexed(id)
      BY <1>9, <2>4, ZenonT(60) DEF Indexed
    <3>2. ~(id = Event.id /\ Event.type \in {"settle", "close"})
      BY <2>4, <3>1, ZenonT(60)
    <3>3. Here \notin Ends(id) /\ Here \notin Settles(id)
      <4>1. ~(Event.id = id /\ (Event.type = "settle" \/ Event.type = "close"))
        BY <3>2
      <4> QED
        BY <1>2, <4>1, ZenonT(60) DEF Ends, Settles
    <3>4. HeightTracked(id) /\ NonceTracked(id)
      BY <3>1, ZenonT(60) DEF Tracked
    <3> QED
      BY <1>4, <1>6, <2>4, <3>3, <3>4, HeightStays, NonceStays, ZenonT(60)
  <2> QED
    BY <1>1, <2>1, <2>2, <2>3, <2>4, ZenonT(60) DEF RowEffect
<1>10. ASSUME NEW p \in Providers PROVE BondTracked(p)'
  <2>1. CASE Event.type = "bond" /\ p = Event.provider /\ db'.providers[p].bond = Event.bond
    <3>1. here \in Bonds(p)
      BY <1>2, <1>7, <2>1, ZenonT(60) DEF Bonds
    <3>2. here \in Bonds(p)' /\ Latest(Bonds(p)', Applied', here)
      BY <1>4, <1>8, <3>1, KindsAreEvents, ZenonT(60)
    <3>3. Latest(Bonds(p), Applied, here)'
      BY <3>2, ZenonT(60) DEF Latest, Before
    <3>4. db'.providers[p].bond = At(here)'.bond
      BY <1>2, <1>4, <1>7, <2>1, ZenonT(60)
    <3> QED
      BY <3>2, <3>3, <3>4, ZenonT(60) DEF BondTracked
  <2>2. CASE /\ db'.providers[p].bond = db.providers[p].bond
             /\ ~(Event.type = "bond" /\ p = Event.provider)
    <3>1. Here \notin Bonds(p)
      BY <1>2, <2>2, ZenonT(60) DEF Bonds
    <3>2. BondTracked(p)
      BY ZenonT(60) DEF Tracked
    <3> QED
      BY <1>4, <1>6, <2>2, <3>1, <3>2, BondStays, ZenonT(60)
  <2>3. Event.type = "mod" => Event.type # "bond"
    OBVIOUS
  <2> QED
    BY <1>1, <2>1, <2>2, <2>3, ZenonT(60) DEF ProviderEffect
<1> QED
  BY <1>9, <1>10, ZenonT(60) DEF Tracked

\* ... and with them Tracked.
LEMMA TrackedStep ==
    CourseInv /\ FoundInv /\ (Good => Tracked) /\ [Next]_vars => (Good => Tracked)'
<1> SUFFICES ASSUME CourseInv, FoundInv, Good => Tracked, [Next]_vars, Good' PROVE Tracked'
  BY ZenonT(60)
<1>1. ProviderTables(db) /\ Good
  BY CourseSets, ZenonT(60) DEF FoundInv
<1> QED
  BY <1>1, TrackedOther, TrackedEvent, ZenonT(60)

\* Once all is indexed the latest events that were applied are the last ones.
LEMMA TrackedAgrees == CourseInv /\ (Good => Tracked) => DirectoryAgrees
<1> SUFFICES ASSUME CourseInv, Good => Tracked, Settled
             PROVE  /\ \A id \in Ids : Indexed(id) =>
                         /\ db.contracts[id].settlementHeight =
                              IF Ends(id) = {} THEN 0 ELSE LastOf(Ends(id))[1]
                         /\ Settles(id) # {} =>
                              db.contracts[id].nonce = At(LastOf(Settles(id))).nonce
                    /\ \A p \in Providers : Bonds(p) # {} =>
                         db.providers[p].bond = At(LastOf(Bonds(p))).bond
  BY ZenonT(60) DEF DirectoryAgrees
<1>1. Applied = Events /\ Tracked /\ Within
  BY AllTaken, ZenonT(60) DEF CourseInv, RecordsInv
<1>2. \A S \in SUBSET Events : S \cap Applied = S
  BY <1>1
<1>3. \A S \in SUBSET Events : \A x : Latest(S, Applied, x) => LastOf(S) = x /\ S # {}
  BY <1>1, LastIs, ZenonT(60)
<1>4. /\ \A id \in Ids : Ends(id) \in SUBSET Events /\ Settles(id) \in SUBSET Events
      /\ \A p \in Providers : Bonds(p) \in SUBSET Events
  BY KindsAreEvents, ZenonT(60)
<1>5. ASSUME NEW id \in Ids, Indexed(id)
      PROVE  db.contracts[id].settlementHeight =
                 IF Ends(id) = {} THEN 0 ELSE LastOf(Ends(id))[1]
  <2>1. HeightTracked(id)
    BY <1>1, <1>5, ZenonT(60) DEF Tracked
  <2> QED
    BY <1>2, <1>3, <1>4, <2>1, ZenonT(60) DEF HeightTracked
<1>6. ASSUME NEW id \in Ids, Indexed(id), Settles(id) # {}
      PROVE  db.contracts[id].nonce = At(LastOf(Settles(id))).nonce
  <2>1. NonceTracked(id)
    BY <1>1, <1>6, ZenonT(60) DEF Tracked
  <2> QED
    BY <1>2, <1>3, <1>4, <1>6, <2>1, ZenonT(60) DEF NonceTracked
<1>7. ASSUME NEW p \in Providers, Bonds(p) # {}
      PROVE  db.providers[p].bond = At(LastOf(Bonds(p))).bond
  <2>1. BondTracked(p)
    BY <1>1, ZenonT(60) DEF Tracked
  <2> QED
    BY <1>2, <1>3, <1>4, <1>7, <2>1, ZenonT(60) DEF BondTracked
<1> QED
  BY <1>5, <1>6, <1>7

-----------------------------------------------------------------------------
(* The metadata shown for a provider *)

Downloading(p) == processor.pc = "metadata" /\ Event.provider = p

\* The nonces of a provider's metadata never fall.
Rising(p) == \A x, y \in Mods(p) : Before(x, y) => At(x).nonce <= At(y).nonce

\* The metadata is that of the nonce in the provider's row, or is being downloaded, or is
\* that of a later event whose block is being applied again.
Shown(p) ==
    \/ Downloading(p)
    \/ db.metadata[p] = db.providers[p].metadataNonce
    \/ /\ db.providers[p].metadataNonce < db.metadata[p]
       /\ \E x \in Mods(p) \ Applied : At(x).nonce = db.metadata[p]

\* Where the nonce in the row of a provider comes from.
NonceFrom(p) ==
    /\ ~Known(p) => db.providers[p].metadataNonce = 0 /\ db.metadata[p] = 0
    /\ \/ db.providers[p].metadataNonce = 0
       \/ \E x \in Mods(p) : At(x).nonce = db.providers[p].metadataNonce
    /\ Downloading(p) => db.providers[p].metadataNonce = Event.nonce

MetadataOf(p) == NonceFrom(p) /\ (Good /\ p \notin missed /\ Rising(p) => Shown(p))

\* No provider is known at first.
LEMMA MetadataInit == Init => \A p \in Providers : MetadataOf(p)
<1> SUFFICES ASSUME Init, NEW p \in Providers PROVE MetadataOf(p)
  OBVIOUS
<1>1. db.providers[p] = NoProvider /\ db.metadata[p] = 0 /\ processor.pc = "waiting"
  BY WaitingType, ZenonT(60) DEF Init
<1>2. NoProvider.metadataNonce = 0 /\ "waiting" # "metadata"
  BY DEF NoProvider
<1>3. ~Downloading(p)
  BY <1>1, <1>2, ZenonT(60) DEF Downloading
<1> QED
  BY <1>1, <1>2, <1>3, ZenonT(60) DEF MetadataOf, NonceFrom, Shown

\* The steps that apply no event and store no metadata: a download that ends is missed.
LEMMA DownloadSteps ==
    ASSUME CourseInv, [Next]_vars, ~HandleEvent, ~UpsertProviderMetadata
    PROVE  /\ db' = db /\ missed \subseteq missed'
           /\ \/ processor' = processor
              \/ /\ processor'.pc # "metadata"
                 /\ processor.pc = "metadata" => Event.provider \in missed'
<1>0. Within /\ (processor.pc = "insert" => processor.k = 0)
  BY ZenonT(60) DEF CourseInv, RecordsInv, Control
<1>1. db' = db
  BY DbSteps
<1>2. Following.pc # "metadata" /\ Waiting.pc # "metadata"
  <2>1. Following.pc \in {"event", "insert"} /\ Waiting.pc = "waiting"
    BY <1>0, FollowingParts, WaitingType, ZenonT(60)
  <2> QED
    BY <2>1
<1>3. CASE ChainGrows \/ Filler \/ UNCHANGED vars
  <2>1. CASE OfferGap
    <3>1. missed' = missed
      BY <2>1, ZenonT(60) DEF OfferGap, history
    <3>2. PICK gap : gap = [pc |-> "fetch", i |-> filler + 1, end |-> height, k |-> 0]
      OBVIOUS
    <3>3. gap.pc = "fetch"
      BY <3>2
    <3>4. processor' = processor \/ (processor' = gap /\ processor = Waiting)
      BY <2>1, <3>2, ZenonT(60) DEF OfferGap
    <3>5. "fetch" # "metadata"
      OBVIOUS
    <3> QED
      BY <1>1, <1>2, <3>1, <3>3, <3>4, <3>5, ZenonT(60)
  <2>2. CASE ~OfferGap
    BY <1>1, <1>3, <2>2, ZenonT(60) DEF ChainGrows, Filler, FindLatestBlock, history, vars
  <2> QED
    BY <2>1, <2>2
<1>4. CASE FetchBlock \/ HandleEventFails
  <2>1. processor' = Following /\ missed' = missed /\ processor.pc \in {"fetch", "event"}
    BY <1>4, ZenonT(60) DEF FetchBlock, HandleEventFails
  <2>2. processor.pc # "metadata"
    BY <2>1
  <2> QED
    BY <1>1, <1>2, <2>1, <2>2, ZenonT(60)
<1>5. CASE FetchBlockFails
  <2>1. processor' = Waiting /\ missed' = missed /\ processor.pc = "fetch"
    BY <1>5, ZenonT(60) DEF FetchBlockFails, history
  <2>2. processor.pc # "metadata"
    BY <2>1
  <2> QED
    BY <1>1, <1>2, <2>1, <2>2, ZenonT(60)
<1>6. CASE InsertBlock \/ InsertBlockFails
  <2>1. processor' = NextBlock /\ missed' = missed /\ processor.pc = "insert"
    BY <1>6, ZenonT(60) DEF InsertBlock, InsertBlockFails
  <2>2. NextBlock.pc = "fetch" \/ NextBlock.pc = "waiting"
    BY <1>0, <2>1, NextBlockParts, ZenonT(60)
  <2>3. processor.pc # "metadata" /\ NextBlock.pc # "metadata"
    BY <2>1, <2>2
  <2> QED
    BY <1>1, <2>1, <2>3, ZenonT(60)
<1>7. CASE DownloadFails
  BY <1>1, <1>2, <1>7, ZenonT(60) DEF DownloadFails
<1>8. CASE Restart
  BY <1>1, <1>2, <1>8, ZenonT(60) DEF Restart
<1> QED
  BY <1>3, <1>4, <1>5, <1>6, <1>7, <1>8, ZenonT(60) DEF Next, Processor

\* The nonces of a provider that never fall did not fall before.
LEMMA RisingBefore ==
    ASSUME chain' = chain, Events \subseteq Events', NEW p
    PROVE  Rising(p)' => Rising(p)
<1>1. /\ \A x : At(x)' = At(x)
      /\ Mods(p) \subseteq Mods(p)'
  BY SetsGrow, ZenonT(60) DEF Grown
<1> QED
  BY <1>1, ZenonT(60) DEF Rising, Before

\* A step that applies no event.
LEMMA MetadataOther ==
    ASSUME CourseInv, ProviderTables(db), [Next]_vars, ~HandleEvent, NEW p \in Providers,
           MetadataOf(p)
    PROVE  MetadataOf(p)'
<1>1. db'.providers = db.providers
  BY OtherSteps
<1>2. /\ chain' = chain /\ Events \subseteq Events'
      /\ Good' => Good /\ Applied' \subseteq Applied
  BY CourseSets, ZenonT(60)
<1>3. /\ \A x : At(x)' = At(x)
      /\ Mods(p) \subseteq Mods(p)'
  BY <1>2, SetsGrow, ZenonT(60) DEF Grown
<1>4. Rising(p)' => Rising(p)
  BY <1>2, RisingBefore
<1>5. Known(p)' <=> Known(p)
  BY <1>1, ZenonT(60) DEF Known
<1>6. \/ db'.providers[p].metadataNonce = 0
      \/ \E x \in Mods(p)' : At(x)'.nonce = db'.providers[p].metadataNonce
  BY <1>1, <1>3, ZenonT(60) DEF MetadataOf, NonceFrom
<1>7. CASE UpsertProviderMetadata
  <2>1. processor.pc = "metadata" /\ Within
    BY <1>7, ZenonT(60) DEF UpsertProviderMetadata, CourseInv, RecordsInv
  <2>2. Event.provider \in Providers /\ Event.nonce \in Nat
    BY <2>1, DownloadFacts, ZenonT(60)
  <2>3. PICK after, q, n :
          Stores(after, q, n) /\ q = Event.provider /\ n = Event.nonce
    BY ZenonT(60) DEF Stores
  <2>4. /\ after.metadata[q] = n
        /\ \A r \in Providers \ {q} : after.metadata[r] = db.metadata[r]
    <3>1. q \in Providers /\ n \in Nat
      BY <2>2, <2>3, ZenonT(60)
    <3> QED
      BY <2>3, <3>1, MetadataStored
  <2>5. /\ db' = after /\ missed' = missed \ {q} /\ processor' = Following
    BY <1>7, <2>3, ZenonT(60) DEF UpsertProviderMetadata, Stores
  <2>6. ~Downloading(p)'
    <3>1. Following.pc \in {"event", "insert"}
      BY <2>1, FollowingParts, ZenonT(60)
    <3>2. Following.pc # "metadata"
      BY <3>1
    <3> QED
      BY <2>5, <3>2, ZenonT(60) DEF Downloading
  <2>7. CASE p = q
    <3>1. db.providers[p].metadataNonce = n
      BY <2>1, <2>3, <2>7, ZenonT(60) DEF MetadataOf, NonceFrom, Downloading
    <3>2. db'.metadata[p] = db'.providers[p].metadataNonce
      BY <1>1, <2>4, <2>5, <2>7, <3>1, ZenonT(60)
    <3>3. ~Known(p)' => db'.providers[p].metadataNonce = 0
      BY <1>1, <1>5, ZenonT(60) DEF MetadataOf, NonceFrom
    <3> QED
      BY <1>6, <2>6, <3>2, <3>3, ZenonT(60) DEF MetadataOf, NonceFrom, Shown
  <2>8. CASE p # q
    <3>1. db'.metadata[p] = db.metadata[p] /\ (p \notin missed' => p \notin missed)
      BY <2>4, <2>5, <2>8, ZenonT(60)
    <3>2. NonceFrom(p)'
      BY <1>1, <1>5, <1>6, <2>6, <3>1, ZenonT(60) DEF MetadataOf, NonceFrom
    <3>3. ~Downloading(p)
      BY <2>3, <2>8, ZenonT(60) DEF Downloading
    <3>4. ASSUME Good', p \notin missed', Rising(p)' PROVE Shown(p)'
      <4>1. Shown(p) /\ Applied' \subseteq Applied
        BY <1>2, <1>4, <3>1, <3>4, ZenonT(60) DEF MetadataOf
      <4> QED
        BY <1>1, <1>3, <3>1, <3>3, <4>1, ZenonT(60) DEF Shown
    <3> QED
      BY <3>2, <3>4, ZenonT(60) DEF MetadataOf
  <2> QED
    BY <2>7, <2>8
<1>8. CASE ~UpsertProviderMetadata
  <2>1. /\ db' = db /\ missed \subseteq missed'
        /\ \/ processor' = processor
           \/ /\ processor'.pc # "metadata"
              /\ processor.pc = "metadata" => Event.provider \in missed'
    BY <1>8, DownloadSteps
  <2>2. processor' = processor => Event' = Event
    BY <1>2, ZenonT(60) DEF Event
  <2>3. /\ Downloading(p)' => Downloading(p) /\ Event' = Event
        /\ Downloading(p) /\ p \notin missed' => Downloading(p)'
    BY <2>1, <2>2, ZenonT(60) DEF Downloading
  <2>4. NonceFrom(p)'
    BY <1>5, <1>6, <2>1, <2>3, ZenonT(60) DEF MetadataOf, NonceFrom
  <2>5. ASSUME Good', p \notin missed', Rising(p)' PROVE Shown(p)'
    <3>1. Shown(p) /\ Applied' \subseteq Applied
      BY <1>2, <1>4, <2>1, <2>5, ZenonT(60) DEF MetadataOf
    <3> QED
      BY <1>3, <2>1, <2>3, <2>5, <3>1, ZenonT(60) DEF Shown
  <2> QED
    BY <2>4, <2>5, ZenonT(60) DEF MetadataOf
<1> QED
  BY <1>7, <1>8

\* After an event is applied its metadata is downloaded if the nonce is new.
LEMMA DownloadStarts ==
    ASSUME CourseInv, HandleEvent, chain' = chain
    PROVE  \/ /\ Event.type = "mod" /\ Known(Event.provider) /\ IsMetaDataUpdated(Event)
              /\ processor'.pc = "metadata" /\ Event' = Event
           \/ /\ ~(Event.type = "mod" /\ Known(Event.provider) /\ IsMetaDataUpdated(Event))
              /\ processor'.pc # "metadata"
<1>1. Within /\ processor \in Processors
  BY ZenonT(60) DEF CourseInv, RecordsInv, Within, Position
<1>2. PICK q : q = [processor EXCEPT !.pc = "metadata"]
  OBVIOUS
<1>3. q.pc = "metadata" /\ q.i = processor.i /\ q.k = processor.k
  BY <1>1, <1>2 DEF Processors
<1>4. Following.pc # "metadata"
  <2>1. Following.pc \in {"event", "insert"}
    BY <1>1, FollowingParts, ZenonT(60)
  <2> QED
    BY <2>1
<1>5. processor' = q => Event' = Event
  BY <1>3, ZenonT(60) DEF Event
<1> QED
  BY <1>2, <1>3, <1>4, <1>5, ZenonT(60) DEF HandleEvent

\* The step that applies the event at hand.
LEMMA MetadataEvent ==
    ASSUME CourseInv, ProviderTables(db), [Next]_vars, HandleEvent, NEW p \in Providers,
           MetadataOf(p)
    PROVE  MetadataOf(p)'
<1>0. Within /\ chain \in Chains /\ missed' = missed
  BY ZenonT(60) DEF CourseInv, RecordsInv, Within, HandleEvent, history
<1>1. /\ ProviderEffect(db', Event, p) /\ processor.pc = "event"
      /\ db'.metadata = db.metadata
  BY EventStep, ZenonT(60)
<1>2. /\ Here \in Events /\ At(Here) = Event /\ IsEvent(Event)
      /\ \A x \in Events : (x \in Applied <=> Before(x, Here))
  BY <1>1, HereFacts, ZenonT(60)
<1>3. /\ chain' = chain /\ Events \subseteq Events'
      /\ Good' => Good /\ Applied' \subseteq Applied \cup {Here}
  BY CourseSets, ZenonT(60)
<1>4. /\ \A x : At(x)' = At(x)
      /\ Mods(p) \subseteq Mods(p)'
  BY <1>3, SetsGrow, ZenonT(60) DEF Grown
<1>5. Rising(p)' => Rising(p)
  BY <1>3, RisingBefore
<1>6. ~Downloading(p)
  <2>1. processor.pc # "metadata"
    BY <1>1
  <2> QED
    BY <2>1, ZenonT(60) DEF Downloading
<1>7. /\ Downloading(p)' => /\ Event.type = "mod" /\ Event.provider = p /\ Known(p)
                            /\ Event' = Event
      /\ Event.type = "mod" /\ Event.provider = p /\ Known(p) /\ ~Downloading(p)'
           => ~IsMetaDataUpdated(Event)
  BY <1>3, DownloadStarts, ZenonT(60) DEF Downloading
<1>8. ASSUME Good', p \notin missed', Rising(p)' PROVE Rising(p) /\ Shown(p)
  BY <1>0, <1>3, <1>5, <1>8, ZenonT(60) DEF MetadataOf
<1>9. ASSUME NEW x \in Mods(p) \ Applied, x # Here, Good' PROVE x \in Mods(p)' \ Applied'
  BY <1>3, <1>4, <1>9, ZenonT(60)
<1>10. CASE Event.type = "mod" /\ p = Event.provider /\ Known(p)
            /\ db'.providers[p].exists /\ db'.providers[p].metadataNonce = Event.nonce
  <2>1. PICK here : here = Here
    OBVIOUS
  <2>2. here \in Mods(p) /\ At(here).nonce = Event.nonce
    BY <1>2, <1>10, <2>1, ZenonT(60) DEF Mods
  <2>3. NonceFrom(p)'
    BY <1>4, <1>7, <1>10, <2>2, ZenonT(60) DEF NonceFrom, Known
  <2>4. ASSUME Good', p \notin missed', Rising(p)', ~Downloading(p)' PROVE Shown(p)'
    <3>1. PICK n, m, v : /\ n = db.providers[p].metadataNonce /\ m = db.metadata[p]
                         /\ v = Event.nonce
      OBVIOUS
    <3>2. n \in Nat /\ m \in Nat /\ v \in Nat
      <4>1. n \in Nat /\ m \in Nat
        BY <3>1, ZenonT(60) DEF ProviderTables, IsProvider
      <4>2. v \in 0 .. MaxNonce /\ MaxNonce \in Nat
        BY <1>2, <3>1, IndexerAssumptions, ZenonT(60) DEF IsEvent
      <4> QED
        BY <4>1, <4>2
    <3>3. n # 0 /\ v <= n
      <4>1. ~(n = 0 \/ n < v)
        BY <1>7, <1>10, <2>4, <3>1, ZenonT(60) DEF IsMetaDataUpdated
      <4> QED
        BY <3>2, <4>1
    <3>4. Rising(p) /\ (m = n \/ (n < m /\ \E x \in Mods(p) \ Applied : At(x).nonce = m))
      BY <1>6, <1>8, <2>4, <3>1, ZenonT(60) DEF Shown
    <3>5. CASE m = v
      BY <1>1, <1>10, <3>1, <3>5, ZenonT(60) DEF Shown
    <3>6. CASE m # v
      <4>1. v < m
        BY <3>2, <3>3, <3>4, <3>6
      <4>2. \E x \in Mods(p) \ Applied : At(x).nonce = m
        <5>1. CASE m = n
          <6>1. PICK x \in Mods(p) : At(x).nonce = n
            BY <3>1, <3>3, ZenonT(60) DEF MetadataOf, NonceFrom
          <6>2. x \in Events
            BY KindsAreEvents, ZenonT(60)
          <6>3. Before(x, here) => n <= v
            BY <2>2, <3>1, <3>4, <6>1, ZenonT(60) DEF Rising
          <6>4. ~(n <= v)
            BY <3>2, <4>1, <5>1
          <6> QED
            BY <1>2, <2>1, <5>1, <6>1, <6>2, <6>3, <6>4, ZenonT(60)
        <5> QED
          BY <3>4, <5>1
      <4>3. PICK x \in Mods(p) \ Applied : At(x).nonce = m
        BY <4>2
      <4>4. x # Here
        BY <2>1, <2>2, <3>1, <3>6, <4>3, ZenonT(60)
      <4>5. x \in Mods(p)' \ Applied' /\ At(x)'.nonce = m
        BY <1>4, <1>9, <2>4, <4>3, <4>4, ZenonT(60)
      <4> QED
        BY <1>1, <1>10, <3>1, <4>1, <4>5, ZenonT(60) DEF Shown
    <3> QED
      BY <3>5, <3>6
  <2>5. Downloading(p)' => Shown(p)'
    BY ZenonT(60) DEF Shown
  <2> QED
    BY <2>3, <2>4, <2>5, ZenonT(60) DEF MetadataOf
<1>11. CASE /\ db'.providers[p].metadataNonce = db.providers[p].metadataNonce
            /\ Known(p) => Known(p)'
            /\ ~(Event.type = "mod" /\ p = Event.provider /\ Known(p))
  <2>1. ~Downloading(p)'
    BY <1>7, <1>11, ZenonT(60)
  <2>2. NonceFrom(p)'
    BY <1>1, <1>4, <1>11, <2>1, ZenonT(60) DEF MetadataOf, NonceFrom
  <2>3. ASSUME Good', p \notin missed', Rising(p)' PROVE Shown(p)'
    <3>1. CASE db.metadata[p] = db.providers[p].metadataNonce
      BY <1>1, <1>11, <3>1, ZenonT(60) DEF Shown
    <3>2. CASE db.metadata[p] # db.providers[p].metadataNonce
      <4>1. Known(p)
        BY <3>2, ZenonT(60) DEF MetadataOf, NonceFrom
      <4>2. Here \notin Mods(p)
        BY <1>2, <1>11, <4>1, ZenonT(60) DEF Mods
      <4>3. /\ db.providers[p].metadataNonce < db.metadata[p]
            /\ \E x \in Mods(p) \ Applied : At(x).nonce = db.metadata[p]
        BY <1>6, <1>8, <2>3, <3>2, ZenonT(60) DEF Shown
      <4>4. PICK x \in Mods(p) \ Applied : At(x).nonce = db.metadata[p]
        BY <4>3
      <4>5. x \in Mods(p)' \ Applied' /\ At(x)'.nonce = db'.metadata[p]
        BY <1>1, <1>4, <1>9, <2>3, <4>2, <4>4, ZenonT(60)
      <4> QED
        BY <1>1, <1>11, <4>3, <4>5, ZenonT(60) DEF Shown
    <3> QED
      BY <3>1, <3>2
  <2> QED
    BY <2>2, <2>3, ZenonT(60) DEF MetadataOf
<1>12. CASE /\ Event.type = "bond" /\ p = Event.provider /\ db'.providers[p].exists
            /\ db'.providers[p].metadataNonce = db.providers[p].metadataNonce
  <2>1. Event.type # "mod" /\ Known(p)'
    BY <1>12 DEF Known
  <2> QED
    BY <1>11, <1>12, <2>1, ZenonT(60)
<1>13. CASE /\ db'.providers[p] = db.providers[p]
            /\ p = Event.provider => Event.type # "bond" /\ (Event.type = "mod" => ~Known(p))
  BY <1>11, <1>13, ZenonT(60) DEF Known
<1> QED
  BY <1>1, <1>10, <1>12, <1>13, ZenonT(60) DEF ProviderEffect

\* ... and MetadataOf.
LEMMA MetadataStep ==
    CourseInv /\ FoundInv /\ (\A p \in Providers : MetadataOf(p)) /\ [Next]_vars
      => (\A p \in Providers : MetadataOf(p))'
<1> SUFFICES ASSUME CourseInv, FoundInv, \A p \in Providers : MetadataOf(p), [Next]_vars,
                    NEW p \in Providers
             PROVE  MetadataOf(p)'
  BY ZenonT(60)
<1>1. ProviderTables(db) /\ MetadataOf(p)
  BY ZenonT(60) DEF FoundInv
<1> QED
  BY <1>1, MetadataOther, MetadataEvent, ZenonT(60)

\* Once all is indexed nothing is being downloaded, and no block is being applied again.
LEMMA ShownIsCurrent == CourseInv /\ (\A p \in Providers : MetadataOf(p)) => MetadataCurrent
<1> SUFFICES ASSUME CourseInv, \A p \in Providers : MetadataOf(p), Settled,
                    NEW p \in Providers \ missed, Rising(p)
             PROVE  db.metadata[p] = db.providers[p].metadataNonce
  BY ZenonT(60) DEF MetadataCurrent, Rising
<1>1. Applied = Events /\ Good
  BY AllTaken, ZenonT(60)
<1>2. Shown(p)
  BY <1>1, ZenonT(60) DEF MetadataOf
<1>3. Mods(p) \ Applied = {}
  BY <1>1, KindsAreEvents, ZenonT(60)
<1>4. processor.pc # "metadata"
  <2>1. processor.pc = "waiting"
    BY WaitingType, ZenonT(60) DEF Settled
  <2> QED
    BY <2>1
<1> QED
  BY <1>2, <1>3, <1>4, ZenonT(60) DEF Shown, Downloading

-----------------------------------------------------------------------------
(* Blocks that are taken up once *)

\* The height of the block that the processor p is at work on.
Work(p) == IF p.pc \in {"event", "metadata", "insert"} THEN {p.i} ELSE {}

Working == Work(processor)

\* No block was taken up twice, and each one taken up is handled or being worked on.
Once == ~replayed /\ begun \subseteq handled \cup Working

\* Blocks are handled in turn after they were taken up, and one that was taken up once is
\* not worked on after it is handled.
Turns ==
    /\ \A h \in handled : 1 .. h \subseteq handled
    /\ handled \cup Working \subseteq begun
    /\ ~replayed => Working \cap handled = {}

LEMMA WorkIs ==
    ASSUME NEW p
    PROVE  /\ p.pc \in {"waiting", "fetch"} => Work(p) = {}
           /\ p.pc = "waiting" \/ p.pc = "fetch" => Work(p) = {}
           /\ p.pc \in {"event", "metadata"} \/ p.pc = "insert" => Work(p) = {p.i}
BY DEF Work

\* The processor goes on within its block.
GoesOn ==
    /\ processor.pc \in {"event", "metadata"}
    /\ \/ processor' = Following
       \/ processor.pc = "event" /\ processor' = [processor EXCEPT !.pc = "metadata"]

\* What a step does to the blocks taken up and handled.
LEMMA TurnSteps ==
    ASSUME CourseInv, [Next]_vars
    PROVE  \/ UNCHANGED <<processor, begun, handled, replayed>>
           \/ UNCHANGED <<begun, handled, replayed>> /\ Working' = {}
           \/ FetchBlock /\ Working = {} /\ Working' = {processor.i}
           \/ /\ GoesOn /\ UNCHANGED <<begun, handled, replayed>>
              /\ Working' = Working
           \/ /\ processor.pc = "insert" /\ UNCHANGED <<begun, replayed>>
              /\ handled' = handled \cup {processor.i}
              /\ Working = {processor.i} /\ Working' = {}
<1>0. Within /\ processor \in Processors /\ (processor.pc = "insert" => processor.k = 0)
  BY ZenonT(60) DEF CourseInv, RecordsInv, Control, Within, Position
<1>1. Waiting.pc = "waiting" /\ Work(Waiting) = {}
  BY WaitingType, WorkIs, ZenonT(60)
<1>2. Following.i = processor.i /\ Work(Following) = {processor.i}
  <2>1. Following.pc \in {"event", "insert"} /\ Following.i = processor.i
    BY <1>0, FollowingParts, ZenonT(60)
  <2>2. Following.pc \in {"event", "metadata"} \/ Following.pc = "insert"
    BY <2>1
  <2> QED
    BY <2>1, <2>2, WorkIs, ZenonT(60)
<1>3. CASE ChainGrows \/ FindLatestBlock \/ UNCHANGED vars
  BY <1>3, ZenonT(60) DEF ChainGrows, FindLatestBlock, history, vars
<1>4. CASE OfferGap
  <2>1. PICK gap : gap = [pc |-> "fetch", i |-> filler + 1, end |-> height, k |-> 0]
    OBVIOUS
  <2>2. gap.pc = "fetch"
    BY <2>1
  <2>3. Work(gap) = {}
    BY <2>2, WorkIs, ZenonT(60)
  <2>4. /\ processor' = processor \/ processor' = gap
        /\ UNCHANGED <<begun, handled, replayed>>
    BY <1>4, <2>1, ZenonT(60) DEF OfferGap, history
  <2> QED
    BY <2>3, <2>4, ZenonT(60) DEF Working
<1>5. CASE FetchBlock
  <2>1. processor.pc = "fetch" /\ processor' = Following
    BY <1>5, ZenonT(60) DEF FetchBlock
  <2>2. Working = {} /\ Working' = {processor.i}
    BY <1>2, <2>1, WorkIs, ZenonT(60) DEF Working
  <2> QED
    BY <1>5, <2>2, ZenonT(60)
<1>6. CASE FetchBlockFails \/ Restart
  BY <1>1, <1>6, ZenonT(60) DEF FetchBlockFails, Restart, history, Working
<1>7. CASE HandleEvent \/ HandleEventFails \/ UpsertProviderMetadata \/ DownloadFails
  <2>1. processor.pc = "event" \/ processor.pc = "metadata"
    BY <1>7, ZenonT(60) DEF HandleEvent, HandleEventFails, UpsertProviderMetadata, DownloadFails
  <2>2. processor.pc \in {"event", "metadata"}
    BY <2>1
  <2>3. PICK q : q = [processor EXCEPT !.pc = "metadata"]
    OBVIOUS
  <2>4. q.pc \in {"event", "metadata"} /\ q.i = processor.i
    BY <1>0, <2>3 DEF Processors
  <2>5. Work(q) = {processor.i} /\ Work(processor) = {processor.i}
    BY <2>2, <2>4, WorkIs, ZenonT(60)
  <2>6. processor' = Following \/ (processor.pc = "event" /\ processor' = q)
    BY <1>7, <2>3, ZenonT(60) DEF HandleEvent, HandleEventFails, UpsertProviderMetadata,
       DownloadFails
  <2>7. UNCHANGED <<begun, handled, replayed>>
    BY <1>7, ZenonT(60) DEF HandleEvent, HandleEventFails, UpsertProviderMetadata,
       DownloadFails, history
  <2>8. Working' = Working
    BY <1>2, <2>5, <2>6, ZenonT(60) DEF Working
  <2> QED
    BY <2>2, <2>3, <2>6, <2>7, <2>8, ZenonT(60) DEF GoesOn
<1>8. CASE InsertBlock \/ InsertBlockFails
  <2>1. /\ processor.pc = "insert" /\ processor' = NextBlock
        /\ handled' = handled \cup {processor.i} /\ UNCHANGED <<begun, replayed>>
    BY <1>8, ZenonT(60) DEF InsertBlock, InsertBlockFails
  <2>2. NextBlock.pc = "fetch" \/ NextBlock.pc = "waiting"
    BY <1>0, <2>1, NextBlockParts, ZenonT(60)
  <2>3. Work(NextBlock) = {} /\ Work(processor) = {processor.i}
    BY <2>1, <2>2, WorkIs, ZenonT(60)
  <2> QED
    BY <2>1, <2>3, ZenonT(60) DEF Working
<1> QED
  BY <1>3, <1>4, <1>5, <1>6, <1>7, <1>8, ZenonT(60) DEF Next, Filler, Processor

\* Nothing is taken up at first.
LEMMA TurnsInit == Init => Turns
<1> SUFFICES ASSUME Init PROVE Turns
  OBVIOUS
<1>1. processor.pc = "waiting" /\ handled = {} /\ begun = {}
  BY WaitingType, ZenonT(60) DEF Init
<1>2. Working = {}
  BY <1>1, WorkIs, ZenonT(60) DEF Working
<1> QED
  BY <1>1, <1>2, ZenonT(60) DEF Turns

\* Every step keeps Turns.
LEMMA TurnsStep == CourseInv /\ Turns /\ [Next]_vars => Turns'
<1> SUFFICES ASSUME CourseInv, Turns, [Next]_vars PROVE Turns'
  OBVIOUS
<1>1. CASE \/ UNCHANGED <<processor, begun, handled, replayed>>
           \/ UNCHANGED <<begun, handled, replayed>> /\ (Working' = {} \/ Working' = Working)
  BY <1>1, ZenonT(60) DEF Turns, Working
<1>2. CASE FetchBlock /\ Working = {} /\ Working' = {processor.i}
  <2>1. /\ begun' = begun \cup {processor.i} /\ handled' = handled
        /\ ~replayed' => processor.i \notin begun
    BY <1>2, ZenonT(60) DEF FetchBlock
  <2> QED
    BY <1>2, <2>1, ZenonT(60) DEF Turns
<1>3. CASE /\ processor.pc = "insert" /\ UNCHANGED <<begun, replayed>>
           /\ handled' = handled \cup {processor.i}
           /\ Working = {processor.i} /\ Working' = {}
  <2>1. processor.pc # "waiting" /\ processor.i \in Nat
    BY <1>3 DEF CourseInv, RecordsInv, Within, Position, Processors
  <2>2. 1 .. (processor.i - 1) \subseteq handled
    BY <2>1, ZenonT(60) DEF CourseInv, IndexerInv, Behind
  <2>3. 1 .. processor.i \subseteq handled'
    BY <1>3, <2>1, <2>2
  <2>4. \A h \in handled' : 1 .. h \subseteq handled'
    BY <1>3, <2>3, ZenonT(60) DEF Turns
  <2> QED
    BY <1>3, <2>4, ZenonT(60) DEF Turns
<1> QED
  BY <1>1, <1>2, <1>3, TurnSteps, ZenonT(60)

\* As long as every block is taken up once, what was taken up stays so, and the event at
\* hand was not taken up before.
LEMMA OnceKeeps ==
    ASSUME CourseInv, Turns, [Next]_vars, Once'
    PROVE  /\ Once /\ Taken \subseteq Taken'
           /\ HandleEvent => Here \in Taken' /\ Here \notin Taken
<1>0. Within /\ chain \in Chains /\ processor \in Processors
  BY ZenonT(60) DEF CourseInv, RecordsInv, Within, Position
<1>a. processor.i \in Nat /\ processor.k \in Nat
  BY <1>0, ZenonT(60) DEF Processors
<1>1. /\ chain' = chain /\ Events \subseteq Events'
  BY CourseSets, ZenonT(60)
<1>2. \A x : x \in Events => x \in Places(chain)
  BY ZenonT(60) DEF Events
<1>3. ASSUME NEW x \in Events, Working = {}
      PROVE  IsTaken(processor, handled, x) => x[1] \in handled
  <2>1. processor.pc \in {"waiting", "fetch"}
    BY <1>0, <1>3 DEF Working, Work, Processors
  <2>2. ~InBlock(processor, x)
    BY <2>1, OutOfBlock
  <2> QED
    BY <2>2, ZenonT(60) DEF IsTaken
<1>4. CASE UNCHANGED <<processor, begun, handled, replayed>>
  <2>1. Once /\ Taken \subseteq Taken'
    BY <1>1, <1>4, ZenonT(60) DEF Once, Working, Taken, IsTaken
  <2>2. ~HandleEvent
    <3> SUFFICES ASSUME HandleEvent PROVE FALSE
      OBVIOUS
    <3>1. processor.pc = "event"
      BY ZenonT(60) DEF HandleEvent
    <3>2. processor = Following \/ processor = [processor EXCEPT !.pc = "metadata"]
      BY <1>4, ZenonT(60) DEF HandleEvent
    <3>3. CASE processor = Following
      <4>1. Following.pc = "insert" \/ Following.k = processor.k + 1
        BY <1>0, <1>a DEF Following, Processors
      <4>2. processor.pc = "insert" \/ processor.k = processor.k + 1
        BY <3>3, <4>1, ZenonT(60)
      <4> QED
        BY <1>a, <3>1, <4>2
    <3>4. CASE processor = [processor EXCEPT !.pc = "metadata"]
      BY <1>0, <3>1, <3>4 DEF Processors
    <3> QED
      BY <3>2, <3>3, <3>4
  <2> QED
    BY <2>1, <2>2
<1>5. CASE UNCHANGED <<begun, handled, replayed>> /\ Working' = {}
  <2>1. ~replayed /\ begun \subseteq handled
    BY <1>5, ZenonT(60) DEF Once
  <2>2. Working = {}
    BY <2>1, ZenonT(60) DEF Turns
  <2>3. Taken \subseteq Taken'
    BY <1>1, <1>3, <1>5, <2>2, ZenonT(60) DEF Taken, IsTaken
  <2>4. ~HandleEvent
    <3>1. processor.pc # "event"
      BY <2>2 DEF Working, Work
    <3> QED
      BY <3>1, ZenonT(60) DEF HandleEvent
  <2> QED
    BY <2>1, <2>2, <2>3, <2>4, ZenonT(60) DEF Once
<1>6. CASE FetchBlock /\ Working = {} /\ Working' = {processor.i}
  <2>1. /\ begun' = begun \cup {processor.i} /\ handled' = handled
        /\ ~replayed' => ~replayed /\ processor.i \notin begun
        /\ processor.pc = "fetch"
    BY <1>6, ZenonT(60) DEF FetchBlock
  <2>2. Once
    BY <1>6, <2>1, ZenonT(60) DEF Once
  <2>3. Taken \subseteq Taken'
    BY <1>1, <1>3, <1>6, <2>1, ZenonT(60) DEF Taken, IsTaken
  <2>4. ~HandleEvent
    <3>1. processor.pc # "event"
      BY <2>1
    <3> QED
      BY <3>1, ZenonT(60) DEF HandleEvent
  <2> QED
    BY <2>2, <2>3, <2>4
<1>7. CASE GoesOn /\ UNCHANGED <<begun, handled, replayed>> /\ Working' = Working
  <2>1. Once
    BY <1>7, ZenonT(60) DEF Once
  <2>2. processor.pc \in {"event", "metadata"} /\ processor.pc # "waiting"
    BY <1>7 DEF GoesOn
  <2>3. ASSUME NEW x \in Places(chain), x[1] = processor.i, x[2] <= processor.k
        PROVE  InBlock(processor', x)
    <3>1. CASE processor' = Following
      BY <1>0, <2>2, <2>3, <3>1, FollowingIn, ZenonT(60)
    <3>2. CASE processor' = [processor EXCEPT !.pc = "metadata"]
      <4>1. processor'.pc = "metadata" /\ processor'.i = processor.i
            /\ processor'.k = processor.k
        BY <1>0, <3>2 DEF Processors
      <4> QED
        BY <2>3, <4>1, ZenonT(60) DEF InBlock
    <3> QED
      BY <1>7, <3>1, <3>2, ZenonT(60) DEF GoesOn
  <2>4. ASSUME NEW x \in Places(chain), InBlock(processor, x)
        PROVE  x[1] = processor.i /\ x[2] <= processor.k
    <3>1. x[2] \in Nat
      BY <1>0, PlaceFacts, ZenonT(60)
    <3> QED
      BY <1>a, <2>2, <2>4, <3>1 DEF InBlock
  <2>5. Taken \subseteq Taken'
    BY <1>1, <1>2, <1>7, <2>3, <2>4, ZenonT(60) DEF Taken, IsTaken
  <2>6. ASSUME HandleEvent PROVE Here \in Taken' /\ Here \notin Taken
    <3>1. processor.pc = "event"
      BY <2>6, ZenonT(60) DEF HandleEvent
    <3>2. Here \in Events /\ Here[1] = processor.i
      BY <3>1, HereFacts, ZenonT(60)
    <3>3. Here[2] = processor.k
      BY DEF Here
    <3>4. PICK here : here = Here
      OBVIOUS
    <3>5. here[1] = processor.i /\ here[2] <= processor.k /\ ~(here[2] < processor.k)
      BY <1>a, <3>2, <3>3, <3>4
    <3>6. here \in Taken'
      BY <1>1, <1>2, <2>3, <3>2, <3>4, <3>5, ZenonT(60) DEF Taken, IsTaken
    <3>7. processor.i \notin handled
      <4>1. processor.i \in Working /\ ~replayed
        BY <2>1, <2>2 DEF Working, Work, Once
      <4> QED
        BY <4>1, ZenonT(60) DEF Turns
    <3>8. processor.pc # "metadata" /\ processor.pc # "insert"
      BY <3>1
    <3>9. here \notin Taken
      BY <3>5, <3>7, <3>8, ZenonT(60) DEF Taken, IsTaken, InBlock
    <3> QED
      BY <3>4, <3>6, <3>9, ZenonT(60)
  <2> QED
    BY <2>1, <2>5, <2>6
<1>8. CASE /\ processor.pc = "insert" /\ UNCHANGED <<begun, replayed>>
           /\ handled' = handled \cup {processor.i}
           /\ Working = {processor.i} /\ Working' = {}
  <2>1. Once
    BY <1>8, ZenonT(60) DEF Once
  <2>2. Taken \subseteq Taken'
    BY <1>1, <1>8, ZenonT(60) DEF Taken, IsTaken, InBlock
  <2>3. ~HandleEvent
    <3>1. processor.pc # "event"
      BY <1>8
    <3> QED
      BY <3>1, ZenonT(60) DEF HandleEvent
  <2> QED
    BY <2>1, <2>2, <2>3
<1> QED
  BY <1>4, <1>5, <1>6, <1>7, <1>8, TurnSteps, ZenonT(60)

-----------------------------------------------------------------------------
(* What settlements paid *)

\* The settlements of a contract that were taken up.
Counted(id) == Settles(id) \cap Taken

\* What a step does to the settlements taken up: it adds the event at hand at most.
LEMMA CountedSteps ==
    ASSUME CourseInv, Turns, [Next]_vars, ~lost', NEW id \in Ids
    PROVE  /\ chain \in Chains /\ chain' = chain
           /\ Counted(id) \subseteq Places(chain) /\ Counted(id)' \subseteq Places(chain)
           /\ Counted(id)' \subseteq Counted(id) \cup {Here}
           /\ ~HandleEvent \/ Here \notin Settles(id) => Counted(id)' \subseteq Counted(id)
           /\ Once' => Once /\ Counted(id) \subseteq Counted(id)'
           /\ Once' /\ HandleEvent /\ Here \in Settles(id) =>
                Here \in Counted(id)' /\ Here \notin Counted(id)
<1>1. chain \in Chains
  BY ZenonT(60) DEF CourseInv, RecordsInv, Within
<1>2. /\ chain' = chain /\ Events \subseteq Events' /\ Taken' \subseteq Taken \cup {Here}
      /\ ~HandleEvent => Taken' \subseteq Taken
  BY CourseSets, ZenonT(60)
<1>3. Grown(Settles(id), Settles(id)')
  BY <1>2, SetsGrow, ZenonT(60)
<1>4. /\ Taken \subseteq Events /\ Settles(id) \subseteq Events
      /\ Events \subseteq Places(chain) /\ Events' \subseteq Places(chain)
      /\ Taken' \subseteq Events'
  BY <1>2, ZenonT(60) DEF Taken, Settles, Events
<1>5. HandleEvent => Here \in Events
  <2>1. HandleEvent => processor.pc = "event"
    BY ZenonT(60) DEF HandleEvent
  <2> QED
    BY <2>1, HereFacts, ZenonT(60)
<1>6. Once' => /\ Once /\ Taken \subseteq Taken'
               /\ HandleEvent => Here \in Taken' /\ Here \notin Taken
  BY OnceKeeps
<1>7. PICK s, t, u, v, here : /\ s = Settles(id) /\ t = Taken /\ u = Settles(id)' /\ v = Taken'
                              /\ here = Here
  OBVIOUS
<1>8. Counted(id) = s \cap t /\ Counted(id)' = u \cap v
  BY <1>7, ZenonT(60) DEF Counted
<1>9. /\ s \subseteq u /\ u \cap Events \subseteq s /\ t \subseteq Events
      /\ v \subseteq t \cup {here} /\ (~HandleEvent => v \subseteq t)
      /\ HandleEvent => here \in Events
      /\ v \subseteq Places(chain) /\ t \subseteq Places(chain)
      /\ Once' => /\ Once /\ t \subseteq v
                  /\ HandleEvent => here \in v /\ here \notin t
  BY <1>2, <1>3, <1>4, <1>5, <1>6, <1>7, ZenonT(60) DEF Grown
<1>10. /\ s \cap t \subseteq Places(chain) /\ u \cap v \subseteq Places(chain)
       /\ ~HandleEvent \/ here \notin s => u \cap v \subseteq s \cap t
       /\ u \cap v \subseteq (s \cap t) \cup {here}
       /\ Once' => Once /\ s \cap t \subseteq u \cap v
       /\ Once' /\ HandleEvent /\ here \in s => here \in u \cap v /\ here \notin s \cap t
  BY <1>9, ZenonT(60)
<1> QED
  BY <1>1, <1>2, <1>7, <1>8, <1>10, ZenonT(60)

\* A contract that is not known and is opened has no settlement that was taken up: its
\* opening would have been taken up before it, and the contract be known or be kept out
\* by another one.
LEMMA NoneCounted ==
    ASSUME CourseInv, Turns, Found, processor.pc = "event", NEW id \in Ids,
           Here \in Opens(id), ~Indexed(id), ~Conflicts(Event, processor.i)
    PROVE  Counted(id) = {}
<1> SUFFICES ASSUME NEW x \in Counted(id) PROVE FALSE
  BY ZenonT(60)
<1>0. Within /\ chain \in Chains
  BY ZenonT(60) DEF CourseInv, RecordsInv, Within
<1>1. /\ Here \in Events /\ At(Here) = Event /\ Here[1] = processor.i
      /\ processor.i \in Nat /\ 1 <= processor.i
  BY HereFacts, ZenonT(60)
<1>2. x \in Settles(id) /\ x \in Taken /\ x \in Events
  BY ZenonT(60) DEF Counted, Settles
<1>3. Before(Here, x)
  <2>1. x \in Ends(id)
    BY <1>2, ZenonT(60) DEF Ends
  <2> QED
    BY <1>0, <2>1, Histories, ZenonT(60)
<1>4. x \in Places(chain) /\ Here \in Places(chain)
  BY <1>1, <1>2, ZenonT(60) DEF Events
<1>5. ~Before(x, Here)
  BY <1>0, <1>3, <1>4, TotalOrder, ZenonT(60)
<1>6. Here[2] = processor.k
  BY DEF Here
<1>7. ~InBlock(processor, x)
  <2>1. processor.pc # "metadata" /\ processor.pc # "insert"
    OBVIOUS
  <2> QED
    BY <1>1, <1>5, <1>6, <2>1, ZenonT(60) DEF InBlock, Before
<1>8. x[1] \in handled
  BY <1>2, <1>7, ZenonT(60) DEF Taken, IsTaken
<1>9. processor.i \in handled
  <2>1. x[1] \in Nat
    BY <1>0, <1>4, PlaceFacts, ZenonT(60)
  <2>2. processor.i < x[1] \/ processor.i = x[1]
    BY <1>1, <1>3, ZenonT(60) DEF Before
  <2>3. processor.i \in 1 .. x[1]
    BY <1>1, <2>1, <2>2
  <2> QED
    BY <1>8, <2>3, ZenonT(60) DEF Turns
<1>10. Here \in Opens(id) \cap Taken
  BY <1>1, <1>9, ZenonT(60) DEF Taken, IsTaken
<1> QED
  BY <1>1, <1>10, ZenonT(60) DEF Found

\* ... each of which pays a natural number.
LEMMA PaidIsNat == \A c \in Chains : \A x \in Places(c) : c[x[1]][x[2]].paid \in Nat
<1> SUFFICES ASSUME NEW c \in Chains, NEW x \in Places(c) PROVE c[x[1]][x[2]].paid \in Nat
  OBVIOUS
<1>1. PICK h \in DOMAIN c : x \in {h} \X DOMAIN c[h]
  BY ZenonT(60) DEF Places
<1>2. x[1] = h /\ x[2] \in DOMAIN c[h]
  BY <1>1
<1> QED
  BY <1>2, IndexerAssumptions, ZenonT(60) DEF IsEvent

\* The row of a contract that is known says at least what the settlements taken up paid,
\* and exactly that while every block is taken up once.
PaidFor(id) ==
    IF Indexed(id)
    THEN /\ Amount(chain, Counted(id)) <= db.contracts[id].paid
         /\ Once => db.contracts[id].paid = Amount(chain, Counted(id))
    ELSE db.contracts[id].paid = 0

\* No contract is known at first.
LEMMA PaidInit == Init => \A id \in Ids : PaidFor(id)
<1> SUFFICES ASSUME Init, NEW id \in Ids PROVE PaidFor(id)
  OBVIOUS
<1>1. db.contracts[id] = NoContract
  BY ZenonT(60) DEF Init
<1>2. NoContract.height = 0 /\ NoContract.paid = 0 /\ ~(0 > 0)
  BY DEF NoContract
<1>3. ~Indexed(id)
  BY <1>1, <1>2, ZenonT(60) DEF Indexed
<1> QED
  BY <1>1, <1>2, <1>3, ZenonT(60) DEF PaidFor

\* A row that stays as it is while none of its settlements is taken up.
LEMMA PaidKept ==
    ASSUME SumFacts, NEW id, PaidFor(id), chain \in Chains, chain' = chain,
           Counted(id) \subseteq Places(chain), Counted(id)' \subseteq Counted(id),
           Once' => Once /\ Counted(id) \subseteq Counted(id)',
           Indexed(id)' <=> Indexed(id), db'.contracts[id].paid = db.contracts[id].paid,
           db.contracts[id].paid \in Nat
    PROVE  PaidFor(id)'
<1>1. PICK S, T, v : S = Counted(id) /\ T = Counted(id)' /\ v = db.contracts[id].paid
  OBVIOUS
<1>2. Amount(chain, T) <= Amount(chain, S) /\ Amount(chain, S) \in Nat
      /\ Amount(chain, T) \in Nat
  <2>1. S \in SUBSET Places(chain) /\ T \in SUBSET S /\ T \in SUBSET Places(chain)
    BY <1>1, ZenonT(60)
  <2> QED
    BY <2>1, ZenonT(60) DEF SumFacts, Adds
<1>3. CASE Indexed(id)
  <2>1. Amount(chain, S) <= v /\ (Once => v = Amount(chain, S))
    BY <1>1, <1>3, ZenonT(60) DEF PaidFor
  <2>2. Amount(chain, T) <= v
    BY <1>1, <1>2, <2>1
  <2>3. Once' => T = S
    BY <1>1, ZenonT(60)
  <2>4. Once' => v = Amount(chain, T)
    BY <2>1, <2>3, ZenonT(60)
  <2>5. Amount(chain, Counted(id))' = Amount(chain, T)
    BY <1>1, ZenonT(60) DEF Amount, Places
  <2> QED
    BY <1>1, <1>3, <2>2, <2>4, <2>5, ZenonT(60) DEF PaidFor
<1>4. CASE ~Indexed(id)
  BY <1>4, ZenonT(60) DEF PaidFor
<1> QED
  BY <1>3, <1>4

\* A settlement that is applied adds what it paid.
LEMMA PaidSettled ==
    ASSUME SumFacts, CourseInv, Turns, [Next]_vars, HandleEvent, ~lost', NEW id \in Ids,
           PaidFor(id), Here \in Settles(id), Indexed(id), Indexed(id)',
           db'.contracts[id].paid = db.contracts[id].paid + Event.paid,
           db.contracts[id].paid \in Nat
    PROVE  PaidFor(id)'
<1>1. /\ Here \in Events /\ At(Here) = Event
  <2>1. processor.pc = "event"
    BY ZenonT(60) DEF HandleEvent
  <2> QED
    BY <2>1, HereFacts, ZenonT(60)
<1>2. PICK S, T, v, e, here : /\ S = Counted(id) /\ T = Counted(id)' /\ here = Here
                              /\ v = db.contracts[id].paid /\ e = Event.paid
  OBVIOUS
<1>3. /\ chain \in Chains /\ chain' = chain
      /\ S \in SUBSET Places(chain) /\ T \in SUBSET Places(chain) /\ T \subseteq S \cup {here}
      /\ Once' => Once /\ S \subseteq T /\ here \in T /\ here \notin S
  BY <1>2, CountedSteps, ZenonT(60)
<1>4. here \in Places(chain) /\ chain[here[1]][here[2]].paid = e
  BY <1>1, <1>2, ZenonT(60) DEF Events, At
<1>5. /\ Amount(chain, S) \in Nat /\ Amount(chain, T) \in Nat /\ e \in Nat
  BY <1>3, <1>4, PaidIsNat, ZenonT(60) DEF SumFacts, Adds
<1>6. Amount(chain, S) <= v /\ (Once => v = Amount(chain, S)) /\ v \in Nat
  BY <1>2, ZenonT(60) DEF PaidFor
<1>7. Amount(chain, T) <= v + e
  <2>1. CASE here \in S
    <3>1. T \in SUBSET S
      BY <1>3, <2>1, ZenonT(60)
    <3>2. Amount(chain, T) <= Amount(chain, S)
      BY <1>3, <3>1, ZenonT(60) DEF SumFacts, Adds
    <3> QED
      BY <1>5, <1>6, <3>2
  <2>2. CASE here \notin S
    <3>1. PICK U : U = S \cup {here}
      OBVIOUS
    <3>2. U \in SUBSET Places(chain) /\ T \in SUBSET U
      BY <1>3, <1>4, <3>1, ZenonT(60)
    <3>3. Amount(chain, T) <= Amount(chain, U)
      BY <1>3, <3>2, ZenonT(60) DEF SumFacts, Adds
    <3>4. Amount(chain, U) = Amount(chain, S) + e
      BY <1>3, <1>4, <2>2, <3>1, ZenonT(60) DEF SumFacts, Adds
    <3> QED
      BY <1>5, <1>6, <3>3, <3>4
  <2> QED
    BY <2>1, <2>2
<1>8. Once' => v + e = Amount(chain, T)
  <2> SUFFICES ASSUME Once' PROVE v + e = Amount(chain, T)
    OBVIOUS
  <2>1. T = S \cup {here} /\ here \notin S /\ v = Amount(chain, S)
    BY <1>3, <1>6, ZenonT(60)
  <2>2. Amount(chain, S \cup {here}) = Amount(chain, S) + e
    BY <1>3, <1>4, <2>1, ZenonT(60) DEF SumFacts, Adds
  <2> QED
    BY <2>1, <2>2, ZenonT(60)
<1>9. Amount(chain, Counted(id))' = Amount(chain, T)
  <2>1. T = Counted(id)' /\ chain' = chain
    BY <1>2, <1>3, ZenonT(60)
  <2> QED
    BY <2>1, ZenonT(60) DEF Amount, Places
<1> QED
  BY <1>2, <1>7, <1>8, <1>9, ZenonT(60) DEF PaidFor

\* Every step keeps what the row of a contract says was paid.
LEMMA PaidStep ==
    ASSUME SumFacts, CourseInv, FoundInv, Turns, [Next]_vars, ~lost', NEW id \in Ids, PaidFor(id)
    PROVE  PaidFor(id)'
<1>1. ProviderTables(db) /\ ~lost /\ Found
  BY CourseSets, ZenonT(60) DEF FoundInv
<1>2. db.contracts[id].paid \in Nat
  BY ZenonT(60) DEF CourseInv, RecordsInv, DatabaseOK, Database, IsRow
<1>3. /\ chain \in Chains /\ chain' = chain /\ Counted(id) \subseteq Places(chain)
      /\ ~HandleEvent \/ Here \notin Settles(id) => Counted(id)' \subseteq Counted(id)
      /\ Once' => Once /\ Counted(id) \subseteq Counted(id)'
  BY CountedSteps, ZenonT(60)
<1>4. ASSUME ~HandleEvent \/ Here \notin Settles(id), Indexed(id)' <=> Indexed(id),
             db'.contracts[id].paid = db.contracts[id].paid
      PROVE  PaidFor(id)'
  BY <1>2, <1>3, <1>4, PaidKept, ZenonT(60)
<1>5. CASE ~HandleEvent
  <2>1. db'.contracts = db.contracts
    BY <1>1, <1>5, OtherSteps
  <2> QED
    BY <1>4, <1>5, <2>1, ZenonT(60) DEF Indexed
<1>6. CASE HandleEvent
  <2>1. RowEffect(db', Event, processor.i, id) /\ processor.pc = "event"
    BY <1>1, <1>6, EventStep, ZenonT(60)
  <2>2. /\ Here \in Events /\ At(Here) = Event
    BY <2>1, HereFacts, ZenonT(60)
  <2>3. Here \in Settles(id) => Event.type = "settle" /\ Event.id = id
    BY <2>2, ZenonT(60) DEF Settles
  <2>4. CASE /\ Event.type = "settle" /\ id = Event.id /\ Indexed(id)
             /\ SameContract(db.contracts[id], db'.contracts[id])
             /\ db'.contracts[id].paid = db.contracts[id].paid + Event.paid
    <3>1. Here \in Settles(id)
      BY <2>2, <2>4, ZenonT(60) DEF Settles
    <3>2. Indexed(id)'
      BY <2>4, ZenonT(60) DEF Indexed, SameContract
    <3> QED
      BY <1>2, <1>6, <2>4, <3>1, <3>2, PaidSettled, ZenonT(60)
  <2>5. CASE /\ Event.type = "close" /\ id = Event.id /\ Indexed(id)
             /\ SameContract(db.contracts[id], db'.contracts[id])
             /\ db'.contracts[id].paid = db.contracts[id].paid
    <3>1. Event.type # "settle"
      BY <2>5
    <3>2. Here \notin Settles(id)
      BY <2>3, <3>1, ZenonT(60)
    <3>3. Indexed(id)' <=> Indexed(id)
      BY <2>5, ZenonT(60) DEF Indexed, SameContract
    <3> QED
      BY <1>4, <2>5, <3>2, <3>3, ZenonT(60)
  <2>6. CASE /\ Event.type = "open" /\ id = Event.id /\ ~Conflicts(Event, processor.i)
             /\ db'.contracts[id].paid = db.contracts[id].paid
    <3>1. Event.type # "settle"
      BY <2>6
    <3>2. Here \notin Settles(id)
      BY <2>3, <3>1, ZenonT(60)
    <3>3. CASE Indexed(id)
      <4>1. Indexed(id)'
        BY <1>1, <1>6, <3>3, ContractStays, ZenonT(60) DEF Indexed, SameContract
      <4> QED
        BY <1>4, <2>6, <3>2, <3>3, <4>1, ZenonT(60)
    <3>4. CASE ~Indexed(id)
      <4>1. Here \in Opens(id)
        BY <2>2, <2>6, ZenonT(60) DEF Opens
      <4>2. Counted(id) = {}
        BY <1>1, <2>1, <2>6, <3>4, <4>1, NoneCounted, ZenonT(60)
      <4>3. Counted(id)' = {}
        BY <1>3, <3>2, <4>2, ZenonT(60)
      <4>4. Amount(chain, {}) = 0
        <5>1. {} \in SUBSET Places(chain)
          OBVIOUS
        <5> QED
          BY <1>3, <5>1, ZenonT(60) DEF SumFacts, Adds
      <4>5. Amount(chain, Counted(id))' = 0
        BY <1>3, <4>3, <4>4, ZenonT(60) DEF Amount, Places
      <4>6. db'.contracts[id].paid = 0 /\ 0 <= 0
        <5>1. db.contracts[id].paid = 0
          BY <3>4, ZenonT(60) DEF PaidFor
        <5> QED
          BY <2>6, <5>1
      <4> QED
        BY <4>5, <4>6, ZenonT(60) DEF PaidFor
    <3> QED
      BY <3>3, <3>4
  <2>7. CASE /\ db'.contracts[id] = db.contracts[id]
             /\ id = Event.id /\ Event.type \in {"settle", "close"} => ~Indexed(id)
    <3>1. Indexed(id)' <=> Indexed(id)
      BY <2>7, ZenonT(60) DEF Indexed
    <3>2. CASE Indexed(id)
      <4>1. ~(Event.type = "settle" /\ Event.id = id)
        BY <2>7, <3>2
      <4> QED
        BY <1>4, <2>3, <2>7, <3>1, <4>1, ZenonT(60)
    <3>3. CASE ~Indexed(id)
      BY <2>7, <3>1, <3>3, ZenonT(60) DEF PaidFor
    <3> QED
      BY <3>2, <3>3
  <2> QED
    BY <2>1, <2>4, <2>5, <2>6, <2>7, ZenonT(60) DEF RowEffect, EndedRow, OpenedRow
<1> QED
  BY <1>5, <1>6

\* ... and Turns, and PaidFor.
LEMMA PaidForStep ==
    SumFacts /\ CourseInv /\ FoundInv /\ Turns /\ (~lost => \A id \in Ids : PaidFor(id))
      /\ [Next]_vars => Turns' /\ (~lost => \A id \in Ids : PaidFor(id))'
<1> SUFFICES ASSUME SumFacts, CourseInv, FoundInv, Turns, ~lost => \A id \in Ids : PaidFor(id),
                    [Next]_vars
             PROVE  Turns' /\ (~lost' => \A id \in Ids : PaidFor(id)')
  BY ZenonT(60)
<1>1. Turns'
  BY TurnsStep, ZenonT(60)
<1>2. ASSUME ~lost', NEW id \in Ids PROVE PaidFor(id)'
  <2>1. PaidFor(id)
    BY <1>2, CourseSets, ZenonT(60)
  <2> QED
    BY <1>2, <2>1, PaidStep, ZenonT(60)
<1> QED
  BY <1>1, <1>2

\* What the rows say was paid once the processor waits.
LEMMA PaidForAll ==
    SumFacts /\ CourseInv /\ Turns /\ (~lost => \A id \in Ids : PaidFor(id)) => PaidAtLeastOnce
<1> SUFFICES ASSUME SumFacts, CourseInv, Turns, \A id \in Ids : PaidFor(id), processor = Waiting,
                    NEW id \in Ids, Indexed(id)
             PROVE  /\ db.contracts[id].paid >= Paid(id, handled)
                    /\ ~replayed /\ begun = handled => db.contracts[id].paid = Paid(id, handled)
  BY ZenonT(60) DEF PaidAtLeastOnce
<1>1. processor.pc = "waiting" /\ chain \in Chains
  BY WaitingType, ZenonT(60) DEF CourseInv, RecordsInv, Within
<1>2. \A x : ~InBlock(processor, x)
  BY <1>1, OutOfBlock
<1>3. PICK S : S = {x \in Settles(id) : x[1] \in handled}
  OBVIOUS
<1>4. Counted(id) = S /\ S \in SUBSET Places(chain)
  BY <1>2, <1>3, ZenonT(60) DEF Counted, Taken, IsTaken, Settles, Events
<1>5. Paid(id, handled) = SumFunctionOnSet([x \in S |-> At(x).paid], S)
  BY <1>3, ZenonT(60) DEF Paid
<1>6. [x \in S |-> At(x).paid] = [x \in S |-> chain[x[1]][x[2]].paid]
  BY ZenonT(60) DEF At
<1>7. Paid(id, handled) = Amount(chain, S) /\ Amount(chain, S) \in Nat
  BY <1>1, <1>4, <1>5, <1>6, ZenonT(60) DEF SumFacts, Adds
<1>8. ~replayed /\ begun = handled => Once
  BY ZenonT(60) DEF Once
<1>9. /\ Amount(chain, S) <= db.contracts[id].paid
      /\ Once => db.contracts[id].paid = Amount(chain, S)
  BY <1>4, ZenonT(60) DEF PaidFor
<1>10. db.contracts[id].paid \in Nat
  BY ZenonT(60) DEF CourseInv, RecordsInv, DatabaseOK, Database, IsRow
<1>11. db.contracts[id].paid >= Paid(id, handled)
  BY <1>7, <1>9, <1>10
<1> QED
  BY <1>7, <1>8, <1>9, <1>11, ZenonT(60)

-----------------------------------------------------------------------------
(* Sums *)

\* The lemmas about sums, which the rest needs.
INSTANCE SumTheorems

\* The nonces are finitely many.
LEMMA NoncesFinite == IsFiniteSet(0 .. MaxNonce) /\ MaxNonce \in Nat
BY IndexerAssumptions, FS_Interval

\* SumUpdate and SumNat of functions to the natural numbers.
LEMMA SumChanged ==
    ASSUME NEW S, IsFiniteSet(S), NEW f \in [S -> Nat], NEW g \in [S -> Nat], NEW e \in S,
           \A x \in S \ {e} : f[x] = g[x]
    PROVE  /\ SumFunctionOnSet(g, S) = SumFunctionOnSet(f, S) + g[e] - f[e]
           /\ SumFunctionOnSet(f, S) \in Nat
<1>1. \A x \in S : f[x] \in Nat /\ g[x] \in Nat
  BY ZenonT(60)
<1>2. \A x \in S : f[x] \in Int /\ g[x] \in Int
  <2>1. \A i \in Nat : i \in Int
    OBVIOUS
  <2> QED
    BY <1>1, <2>1, ZenonT(60)
<1>3. SumFunctionOnSet(g, S) = SumFunctionOnSet(f, S) + g[e] - f[e]
  BY <1>2, SumUpdate
<1>4. SumFunctionOnSet(f, S) \in Nat
  BY <1>1, SumNat
<1> QED
  BY <1>3, <1>4

\* A settlement that is recorded, over an earlier one with its nonce, adds no more to the
\* records than to what was paid.
LEMMA RecordAdded ==
    ASSUME NEW given, NEW s, NEW n, NEW paid, NEW new, Records(given, s, n, paid, new)
    PROVE  SumFunctionOnSet(s, 0 .. MaxNonce) <= paid + new
<1> DEFINE S == 0 .. MaxNonce
<1>0. /\ IsFiniteSet(S) /\ given \in [S -> Nat] /\ s \in [S -> Nat] /\ n \in S
      /\ \A m \in S \ {n} : given[m] = s[m]
      /\ s[n] = new \/ s[n] = given[n]
      /\ paid \in Nat /\ new \in Nat /\ SumFunctionOnSet(given, S) <= paid
  BY NoncesFinite, ZenonT(60) DEF Records
<1> HIDE DEF S
<1>1. /\ SumFunctionOnSet(s, S) = SumFunctionOnSet(given, S) + s[n] - given[n]
      /\ SumFunctionOnSet(given, S) \in Nat
  BY <1>0, SumChanged
<1>2. PICK x, y, k : x = SumFunctionOnSet(given, S) /\ y = given[n] /\ k = s[n]
  BY ZenonT(60)
<1>3. x \in Nat /\ y \in Nat /\ k \in Nat /\ x <= paid /\ (k = new \/ k = y)
  BY <1>0, <1>1, <1>2, ZenonT(60)
<1>4. x + k - y <= paid + new
  BY <1>0, <1>3
<1> QED
  BY <1>1, <1>2, <1>4, ZenonT(60) DEF S

\* A chain has finitely many events, ...
LEMMA PlacesFinite == \A c \in Chains : IsFiniteSet(Places(c))
<1> SUFFICES ASSUME NEW c \in Chains PROVE IsFiniteSet(Places(c))
  OBVIOUS
<1>1. /\ Len(c) \in Nat /\ DOMAIN c = 1 .. Len(c)
      /\ \A h \in DOMAIN c : Len(c[h]) \in Nat /\ DOMAIN c[h] = 1 .. Len(c[h])
  BY IndexerAssumptions, ZenonT(60) DEF IsSequence
<1>2. IsFiniteSet(DOMAIN c)
  BY <1>1, FS_Interval
<1>3. \A h \in DOMAIN c : IsFiniteSet({h} \X DOMAIN c[h])
  <2> SUFFICES ASSUME NEW h \in DOMAIN c PROVE IsFiniteSet({h} \X DOMAIN c[h])
    OBVIOUS
  <2>1. IsFiniteSet({h})
    BY FS_Singleton
  <2>2. IsFiniteSet(DOMAIN c[h])
    BY <1>1, FS_Interval
  <2> QED
    BY <2>1, <2>2, FS_Product
<1>4. PICK f, T : /\ f = [h \in DOMAIN c |-> {h} \X DOMAIN c[h]]
                  /\ T = {{h} \X DOMAIN c[h] : h \in DOMAIN c}
  OBVIOUS
<1>5. f \in Surjection(DOMAIN c, T)
  BY <1>4 DEF Surjection
<1>6. IsFiniteSet(T)
  BY <1>2, <1>5, FS_Surjection
<1>7. \A t \in T : IsFiniteSet(t)
  BY <1>3, <1>4, ZenonT(60)
<1>8. IsFiniteSet(UNION T)
  BY <1>6, <1>7, FS_UNION
<1> QED
  BY <1>4, <1>8, ZenonT(60) DEF Places

\* The finitely many events add up.
LEMMA Amounts == ASSUME NEW c \in Chains, NEW S \in SUBSET Places(c) PROVE Adds(c, S)
<1>1. PICK f : f = [x \in Places(c) |-> c[x[1]][x[2]].paid]
  OBVIOUS
<1>2. \A T : Amount(c, T) = SumFunctionOnSet(f, T)
  BY <1>1, ZenonT(60) DEF Amount
<1>3. \A x \in Places(c) : f[x] \in Nat /\ f[x] \in Int /\ f[x] = c[x[1]][x[2]].paid
  <2>1. \A x \in Places(c) : f[x] \in Nat /\ f[x] = c[x[1]][x[2]].paid
    BY <1>1, PaidIsNat, ZenonT(60)
  <2>2. \A n \in Nat : n \in Int
    OBVIOUS
  <2> QED
    BY <2>1, <2>2, ZenonT(60)
<1>4. \A T \in SUBSET Places(c) : IsFiniteSet(T)
  BY PlacesFinite, FS_Subset, ZenonT(60)
<1>5. IsFiniteSet(S) /\ SumFunctionOnSet(f, S) \in Nat
  BY <1>3, <1>4, SumNat, ZenonT(60)
<1>6. SumFunctionOnSet(f, {}) = 0
  BY SumEmpty, ZenonT(60)
<1>7. ASSUME NEW x \in Places(c) \ S
      PROVE  SumFunctionOnSet(f, S \cup {x}) = SumFunctionOnSet(f, S) + f[x]
  <2>1. PICK U : U = S \cup {x}
    OBVIOUS
  <2>2. /\ U \in SUBSET Places(c) /\ x \in U /\ U \ {x} = S
    BY <1>7, <2>1, ZenonT(60)
  <2>3. IsFiniteSet(U) /\ \A y \in U : f[y] \in Int
    BY <1>3, <1>4, <2>2, ZenonT(60)
  <2>4. SumFunctionOnSet(f, U) = f[x] + SumFunctionOnSet(f, U \ {x})
    BY <2>2, <2>3, SumRemove, ZenonT(60)
  <2>5. SumFunctionOnSet(f, U) = f[x] + SumFunctionOnSet(f, S)
    BY <2>2, <2>4, ZenonT(60)
  <2>6. f[x] \in Nat
    BY <1>3, <1>7, ZenonT(60)
  <2> QED
    BY <1>5, <2>1, <2>5, <2>6
<1>8. ASSUME NEW T \in SUBSET S PROVE SumFunctionOnSet(f, T) <= SumFunctionOnSet(f, S)
  <2>1. PICK g : g = [x \in S |-> IF x \in T THEN f[x] ELSE 0]
    OBVIOUS
  <2>2. \A x \in S : /\ f[x] \in Int /\ g[x] \in Int /\ g[x] <= f[x]
                     /\ x \notin T => g[x] = 0
                     /\ x \in T => g[x] = f[x]
    BY <1>3, <2>1
  <2>3. SumFunctionOnSet(g, T) = SumFunctionOnSet(g, S)
    BY <1>5, <2>2, SumPart, ZenonT(60)
  <2>4. SumFunctionOnSet(g, S) <= SumFunctionOnSet(f, S)
    BY <1>5, <2>2, SumMonotonic, ZenonT(60)
  <2>5. IsFiniteSet(T) /\ \A x \in T : g[x] \in Int /\ g[x] = f[x]
    BY <1>4, <2>2, ZenonT(60)
  <2>6. SumFunctionOnSet(g, T) = SumFunctionOnSet(f, T)
    BY <2>5, SumSame, ZenonT(60)
  <2> QED
    BY <2>3, <2>4, <2>6, ZenonT(60)
<1>9. SumFunctionOnSet([x \in S |-> c[x[1]][x[2]].paid], S) = SumFunctionOnSet(f, S)
  <2>1. PICK g : g = [x \in S |-> c[x[1]][x[2]].paid]
    OBVIOUS
  <2>2. \A x \in S : f[x] \in Int /\ f[x] = g[x]
    BY <1>3, <2>1, ZenonT(60)
  <2>3. SumFunctionOnSet(f, S) = SumFunctionOnSet(g, S)
    BY <1>5, <2>2, SumSame, ZenonT(60)
  <2> QED
    BY <2>1, <2>3, ZenonT(60)
<1> QED
  BY <1>2, <1>3, <1>5, <1>6, <1>7, <1>8, <1>9, ZenonT(60) DEF Adds

\* What was used of sums.
LEMMA SumFactsHold == SumFacts
<1>1. \A s : (\A n \in 0 .. MaxNonce : s[n] = 0) => SumFunctionOnSet(s, 0 .. MaxNonce) = 0
  BY NoncesFinite, SumZero
<1> QED
  BY <1>1, RecordAdded, Amounts, ZenonT(60) DEF SumFacts

-----------------------------------------------------------------------------
(* What holds throughout *)

\* RecordsInv holds throughout.
LEMMA RecordsInvAlways == Spec => []RecordsInv
BY SumFactsHold, RecordsInit, RecordsStep, PTL DEF Spec

\* Every variable of the indexer has its type: what the goroutines hold and what is
\* recorded never runs ahead of the chain.
THEOREM IndexerTyped == Spec => []IndexerTypeOK
BY RecordsTyped, RecordsInvAlways, PTL

\* The settlement events recorded for a contract never add up to more than what its row
\* says was paid, for every chain and whatever is applied twice, in part or out of turn.
THEOREM RecordsNeverExceedPaid == Spec => []RecordsWithinPaid
<1>1. RecordsInv => RecordsWithinPaid
  BY ZenonT(60) DEF RecordsInv, DatabaseOK, RowOK, RecordsWithinPaid
<1> QED
  BY <1>1, RecordsInvAlways, PTL

\* CourseInv and FoundInv hold throughout.
LEMMA FoundAlways == Spec => [](CourseInv /\ FoundInv)
<1>1. Init => CourseInv /\ FoundInv
  BY SumFactsHold, RecordsInit, IndexerInitInv, ControlInit, FoundInit DEF CourseInv
<1> QED
  BY <1>1, SumFactsHold, CourseStep, PTL DEF Spec

\* A contract the directory does not know was opened in the same block, for the same
\* provider and delegate, as another one: for every history of the market, any number of
\* faults and restarts that lose no event, and every interleaving.
THEOREM MissingContracts == Spec => []MissingOnlyIfConflict
BY FoundExplains, FoundAlways, PTL

\* What the tables hold of settlements and bonds is tracked throughout.
LEMMA TrackedAlways == Spec => [](CourseInv /\ (Good => Tracked))
<1>1. Init => CourseInv /\ FoundInv /\ (Good => Tracked)
  BY SumFactsHold, RecordsInit, IndexerInitInv, ControlInit, FoundInit, TrackedInit DEF CourseInv
<1> QED
  BY <1>1, TrackedStep, FoundAlways, PTL DEF Spec

\* Once all is indexed the directory agrees with the chain on each contract's last
\* settlement, its height and its nonce, and on each provider's bond: for every history of
\* the market and every course of faults, restarts and blocks applied again.
THEOREM DirectoryInAgreement == Spec => []DirectoryAgrees
BY TrackedAgrees, TrackedAlways, PTL

\* What the directory shows of metadata, throughout.
LEMMA MetadataAlways == Spec => [](CourseInv /\ \A p \in Providers : MetadataOf(p))
BY MetadataStep, MetadataInit, FoundAlways, PTL DEF Spec

\* Once all is indexed the metadata shown for a provider is that of the nonce in its row,
\* unless its download was missed or its nonces fell.
THEOREM MetadataIsCurrent == Spec => []MetadataCurrent
BY ShownIsCurrent, MetadataAlways, PTL

\* What the rows of contracts say was paid, throughout.
LEMMA PaidAlways == Spec => [](CourseInv /\ Turns /\ (~lost => \A id \in Ids : PaidFor(id)))
<1>1. Init => Turns /\ (~lost => \A id \in Ids : PaidFor(id))
  BY TurnsInit, PaidInit
<1> QED
  BY <1>1, SumFactsHold, PaidForStep, FoundAlways, PTL DEF Spec

\* What the directory says was paid for a contract is never less than what the blocks
\* handled paid, and it is that exactly as long as no block was taken up twice or left in
\* the middle: for every history of the market and every course of faults.
THEOREM PaidIsAtLeastOnce == Spec => []PaidAtLeastOnce
BY SumFactsHold, PaidForAll, PaidAlways, PTL
=============================================================================
