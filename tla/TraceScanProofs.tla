--------------------------- MODULE TraceScanProofs ---------------------------
(***************************************************************************)
(* Proofs about TraceScan, for every chain, every forest of calls within   *)
(* the depth limit, every size of the code cache and every pattern of      *)
(* failures.                                                               *)
(***************************************************************************)
EXTENDS TraceTreeProofs, FiniteSetTheorems

-----------------------------------------------------------------------------
(* The inductive invariant                                                 *)

\* Where ScanBlock is in its transactions and on its stack.
Scanning == pc \in {"tx", "trace", "collect"}

Passed == Len(Block[block]) - Len(txs)

ScanInv ==
  /\ Scanning => /\ Passed >= 0
                 /\ \A i \in 1 .. Len(txs) : txs[i] = Block[block][i + Passed]
  /\ pc \in {"trace", "collect"} => txs # <<>> /\ To[txs[1]] # None
  /\ pc # "collect" => stack = <<>>

\* The stack is that of the transaction at hand.
StackInv == StackOf(txs[1], stack)

\* The numbers given out so far are below the counter, each given once.
KeysInv ==
  /\ \A e \in events : \E n \in 0 .. frameCounter - 1 : e.key[2] = LogIndex(n)
  /\ \A e1, e2 \in events : e1.key[2] = e2.key[2] => e1.deposit = e2.deposit

\* What the walk has yet to enter.
Waiting ==
  {stack[i][1] : i \in 1 .. Len(stack)}
    \cup {txs[i] : i \in (IF pc = "collect" THEN 2 ELSE 1) .. Len(txs)}

WalkInv == Scanning /\ clean => Walked(Due(block, known), Found, Waiting)

\* How many deposits to the accounts of A the walk of block b comes to before f.
Place(b, A, f) == Cardinality({g \in Due(b, A) : Precedes(g, f)})

CountInv ==
  clean /\ Settled =>
    /\ frameCounter = Cardinality(Found)
    /\ \A e \in events : e.key[2] = LogIndex(Place(block, known, e.deposit))

\* A scanner that has given up tracing makes no clean scan.
SupportInv == clean => ~traceUnsupported

\* While steady, the accounts of the scan at hand are those of the scans of its block
\* that were saved.
SettledInv == steady /\ block \in traced => Settled

\* A key that a clean scan gives: the transaction, and the place in the walk, which no
\* two deposits of the block share.
ProperKey(k, f) ==
  \E b \in traced :
    /\ f \in Due(b, accounts)
    /\ k[1] \in Above[f]
    /\ k[2] = LogIndex(Place(b, accounts, f))
    /\ \A g, h \in Due(b, accounts) : Place(b, accounts, g) = Place(b, accounts, h) => g = h

SteadyInv == steady => \A k \in DOMAIN credited : ProperKey(k, credited[k])

\* The code cache is finite, so that what it holds can be counted.
CacheInv ==
  /\ codeCache \in [DOMAIN codeCache -> BOOLEAN]
  /\ DOMAIN codeCache \subseteq Addr
  /\ IsFiniteSet(DOMAIN codeCache)
  /\ Cardinality(DOMAIN codeCache) <= CacheMax

Inv ==
  /\ TypeOK /\ CacheInv
  /\ ScanInv /\ StackInv /\ EventsLasting /\ KeysInv
  /\ WalkInv /\ CompleteWhenHealthy /\ CountInv
  /\ SupportInv /\ SettledInv /\ SteadyInv

-----------------------------------------------------------------------------
(* Steps that leave the walk where it is                                   *)

LEMMA SameEvents ==
  ASSUME Inv, UNCHANGED <<block, events, frameCounter, known>>, clean' => clean,
         accounts \subseteq accounts'
  PROVE  EventsLasting' /\ KeysInv' /\ CountInv'
<1>1. /\ Due(block, known) \subseteq Due(block, accounts)
      /\ Due(block, accounts) \subseteq Due(block, accounts')
  BY DueType DEF Inv, TypeOK
<1>2. EventsLasting' /\ KeysInv'
  BY <1>1 DEF Inv, EventsLasting, KeysInv
<1>3. Settled' => Settled
  BY <1>1 DEF Settled
<1> QED BY <1>2, <1>3 DEF Inv, CountInv, Found

LEMMA SameCache ==
  ASSUME Inv, codeCache' = codeCache
  PROVE  CacheInv'
BY DEF Inv, CacheInv

LEMMA SameCredit ==
  ASSUME Inv, UNCHANGED <<credited, steady, traced, accounts>>
  PROVE  SteadyInv'
BY DEF Inv, SteadyInv, ProperKey

\* A step that looks at no frame, registers no account and credits nothing.
LEMMA QuietInv ==
  ASSUME Inv, TypeOK', CacheInv',
         UNCHANGED <<accounts, known, block, events, frameCounter, stack>>,
         UNCHANGED <<credited, steady, traced>>, clean' => clean, SupportInv',
         ScanInv', WalkInv', CompleteWhenHealthy', stack = <<>> \/ UNCHANGED txs
  PROVE  Inv'
<1>1. StackInv'
  BY DEF Inv, StackInv, StackOf
<1>2. SettledInv'
  BY DEF Inv, SettledInv, Settled
<1> QED BY <1>1, <1>2, SameEvents, SameCredit DEF Inv

LEMMA MineInv ==
  ASSUME Inv, Mine
  PROVE  Inv'
<1> USE DEF Inv, Mine, scanner, local, result, SupportInv
<1>0. head' \in 1 .. Len(Block) /\ 1 .. head \subseteq 1 .. head'
  BY TraceAssumption, SMTT(20) DEF TypeOK
<1>1. TypeOK'
  BY <1>0 DEF TypeOK
<1>2. ScanInv'
  BY DEF ScanInv, Scanning, Passed
<1>3. WalkInv' /\ CompleteWhenHealthy'
  BY DEF WalkInv, Scanning, Waiting, Found, CompleteWhenHealthy
<1> QED BY <1>1, <1>2, <1>3, SameCache, QuietInv

\* What was recorded of a block does not count the deposits to a new account, unless
\* that ends the steadiness.
LEMMA RegisterInv ==
  ASSUME Inv, NEW a \in Accounts, Register(a)
  PROVE  Inv'
<1>1. /\ accounts' = accounts \cup {a}
      /\ steady' = (steady /\ \A b \in traced : Due(b, accounts') = Due(b, accounts))
      /\ UNCHANGED <<head, codeCache, traceUnsupported, pc, block, txs, stack, frameCounter>>
      /\ UNCHANGED <<events, credited, traced, clean, known, faults>>
  BY DEF Register, scanner, local
<1>2. steady' \in BOOLEAN /\ (steady' => steady)
      /\ (steady' => \A b \in traced : Due(b, accounts') = Due(b, accounts))
  BY <1>1, Zenon
<1>3. TypeOK' /\ CacheInv'
  BY <1>1, <1>2, SameCache DEF Inv, TypeOK
<1>4. ScanInv' /\ StackInv'
  BY <1>1 DEF Inv, ScanInv, Scanning, Passed, StackInv
<1>5. WalkInv' /\ CompleteWhenHealthy' /\ SupportInv'
  BY <1>1 DEF Inv, WalkInv, Scanning, Waiting, Found, CompleteWhenHealthy, SupportInv
<1>6. EventsLasting' /\ KeysInv' /\ CountInv'
  BY <1>1, SameEvents
<1>7. SettledInv'
  BY <1>1, <1>2 DEF Inv, SettledInv, Settled
<1>8. SteadyInv'
  <2> SUFFICES ASSUME steady', NEW k \in DOMAIN credited PROVE ProperKey(k, credited[k])'
    BY <1>1 DEF SteadyInv
  <2>1. ProperKey(k, credited[k])
    BY <1>2 DEF Inv, SteadyInv
  <2>2. \A b \in traced : Due(b, accounts') = Due(b, accounts)
    BY <1>2
  <2>3. \A b \in traced : \A f : Place(b, accounts', f) = Place(b, accounts, f)
    BY <2>2 DEF Place
  <2> QED BY <1>1, <2>1, <2>2, <2>3 DEF ProperKey
<1> QED BY <1>3, <1>4, <1>5, <1>6, <1>7, <1>8 DEF Inv

LEMMA NewTraceScannerInv ==
  ASSUME Inv, NewTraceScanner
  PROVE  Inv'
<1> USE DEF Inv, NewTraceScanner, world, local, result, SupportInv
<1>0. CacheInv'
  <2>1. codeCache' \in [DOMAIN codeCache' -> BOOLEAN] /\ DOMAIN codeCache' = {}
    BY DEF Empty
  <2> QED BY <2>1, FS_EmptySet, TraceAssumption DEF CacheInv
<1>1. TypeOK'
  BY <1>0 DEF TypeOK, CacheInv
<1>2. ScanInv'
  BY DEF ScanInv, Scanning, Passed
<1>3. WalkInv' /\ CompleteWhenHealthy'
  BY DEF WalkInv, Scanning, Waiting, Found, CompleteWhenHealthy
<1> QED BY <1>0, <1>1, <1>2, <1>3, QuietInv

\* ScanBlock returns, with an error, with what it has or with a save that failed.
LEMMA ReturnInv ==
  ASSUME Inv, UNCHANGED <<world, known, codeCache, block, txs, stack, frameCounter>>,
         UNCHANGED <<events, result>>, SupportInv', faults' \in Nat,
         traceUnsupported' \in BOOLEAN, clean' \in BOOLEAN, clean' => clean,
         stack = <<>>, pc' = "idle" \/ (pc' = "done" /\ ~clean')
  PROVE  Inv'
<1> USE DEF Inv, world, result
<1>1. TypeOK' /\ CacheInv'
  BY SameCache DEF TypeOK
<1>2. ScanInv' /\ WalkInv' /\ CompleteWhenHealthy'
  BY DEF ScanInv, Scanning, WalkInv, CompleteWhenHealthy
<1> QED BY <1>1, <1>2, QuietInv

LEMMA ErrorInv ==
  ASSUME Inv, ScanFails \/ TraceUnsupported \/ SaveFails
  PROVE  Inv'
<1> USE DEF Inv, ScanFails, TraceUnsupported, SaveFails, scanner, local, result
<1>1. UNCHANGED <<world, known, codeCache, block, txs, stack, frameCounter, events, result>>
  OBVIOUS
<1>2. faults' \in Nat
  BY DEF TypeOK, Fault
<1>3. \/ traceUnsupported' = traceUnsupported /\ clean' = clean /\ pc' = "idle"
      \/ traceUnsupported' = TRUE /\ clean' = FALSE /\ pc' = "done"
  OBVIOUS
<1>4. /\ traceUnsupported' \in BOOLEAN /\ clean' \in BOOLEAN /\ (clean' => clean)
      /\ (pc' = "idle" \/ (pc' = "done" /\ ~clean')) /\ SupportInv'
  <2> HIDE DEF ScanFails, TraceUnsupported, SaveFails
  <2>1. CASE traceUnsupported' = traceUnsupported /\ clean' = clean /\ pc' = "idle"
    BY <2>1 DEF TypeOK, SupportInv
  <2>2. CASE traceUnsupported' = TRUE /\ clean' = FALSE /\ pc' = "done"
    BY <2>2, Zenon DEF SupportInv
  <2> QED BY <1>3, <2>1, <2>2
<1>5. stack = <<>>
  BY DEF ScanInv
<1> QED BY <1>1, <1>2, <1>3, <1>4, <1>5, ReturnInv

-----------------------------------------------------------------------------
(* The steps from transaction to transaction                               *)

\* On to the next transaction, from one that is walked to its end or whose tree holds
\* no deposit.
LEMMA NextTxInv ==
  ASSUME Inv, Scanning, stack = <<>>, txs # <<>>, txs' = Tail(txs), pc' = "tx",
         UNCHANGED <<world, known, traceUnsupported, block, stack, frameCounter>>,
         UNCHANGED <<events, result>>, CacheInv',
         clean' \in BOOLEAN, clean' => clean, faults' \in Nat,
         pc # "collect" /\ clean' => \A f \in Made(block) : txs[1] \notin Above[f]
  PROVE  Inv'
<1> USE DEF Inv, world, result
<1>1. /\ txs \in Seq(Tx) /\ txs' \in Seq(Tx) /\ Len(txs) \in Nat
      /\ Len(txs') = Len(txs) - 1 /\ Len(txs) >= 1
      /\ \A i \in 1 .. Len(txs') : txs'[i] = txs[i + 1]
  BY DEF TypeOK
<1>2. TypeOK'
  BY <1>1 DEF TypeOK, CacheInv
<1>3. ScanInv'
  <2>1. Len(Block[block]) \in Nat /\ block' = block
    BY TraceAssumption DEF TypeOK
  <2>2. Passed' = Passed + 1 /\ Passed \in Int
    BY <1>1, <2>1 DEF Passed
  <2>3. ASSUME NEW i \in 1 .. Len(txs') PROVE txs'[i] = Block[block'][i + Passed']
    <3>1. txs'[i] = txs[i + 1] /\ i + 1 \in 1 .. Len(txs) /\ i \in Int
      BY <1>1
    <3>2. txs[i + 1] = Block[block][(i + 1) + Passed] /\ (i + 1) + Passed = i + (Passed + 1)
      BY <2>2, <3>1 DEF ScanInv
    <3> QED BY <2>1, <2>2, <3>1, <3>2
  <2> QED BY <2>2, <2>3 DEF ScanInv, Scanning
<1>4. WalkInv'
  <2>1. Waiting' \subseteq Waiting
    BY <1>1 DEF Waiting
  <2>2. Waiting \subseteq Waiting' \cup (IF pc = "collect" THEN {} ELSE {txs[1]})
    <3>1. ASSUME NEW i \in 2 .. Len(txs) PROVE txs[i] \in Waiting'
      <4>1. i - 1 \in 1 .. Len(txs') /\ txs'[i - 1] = txs[i]
        BY <1>1
      <4> QED BY <4>1 DEF Waiting
    <3>2. ASSUME NEW i \in 1 .. Len(txs), i \notin 2 .. Len(txs) PROVE i = 1
      BY <1>1, <3>2
    <3> QED BY <3>1, <3>2, <1>1 DEF Waiting
  <2>3. Found' = Found /\ block' = block /\ known' = known
    BY DEF Found
  <2>4. Due(block, known) \subseteq Made(block)
    BY DEF Due
  <2> QED BY <2>1, <2>2, <2>3, <2>4 DEF WalkInv, Walked, Scanning
<1>5. CompleteWhenHealthy' /\ SupportInv'
  BY DEF CompleteWhenHealthy, SupportInv
<1> QED BY <1>2, <1>3, <1>4, <1>5, QuietInv

\* A transaction still to be looked at is of the block.
LEMMA OfBlock ==
  ASSUME Inv, Scanning, NEW i \in 1 .. Len(txs)
  PROVE  /\ block \in DOMAIN Block /\ Block[block] \in Lists
         /\ i + Passed \in DOMAIN Block[block] /\ txs[i] = Block[block][i + Passed]
         /\ txs[i] \in Range(Block[block]) /\ txs[i] \in Tx
<1>1. block \in DOMAIN Block /\ txs \in Seq(Tx) /\ i \in Nat /\ Len(txs) \in Nat
  BY TraceAssumption, SMTT(20) DEF Inv, TypeOK
<1>2. Len(Block[block]) \in Nat /\ DOMAIN Block[block] = 1 .. Len(Block[block])
  BY <1>1, BlockType
<1>3. Passed \in Int /\ Passed >= 0 /\ txs[i] = Block[block][i + Passed]
  BY <1>1, <1>2 DEF Inv, ScanInv, Passed
<1>4. i + Passed \in DOMAIN Block[block]
  BY <1>1, <1>2, <1>3 DEF Passed
<1> QED BY <1>1, <1>3, <1>4, BlockType DEF Lists

LEMMA SkipCreationInv ==
  ASSUME Inv, SkipCreation
  PROVE  Inv'
<1> USE DEF Inv, SkipCreation
<1>1. txs \in Seq(Tx) /\ txs # <<>> /\ 1 \in 1 .. Len(txs) /\ Head(txs) = txs[1] /\ Scanning
  BY DEF TypeOK, Scanning
<1>2. ASSUME NEW f \in Made(block), txs[1] \in Above[f] PROVE FALSE
  <2>1. PICK t \in Sent(block) : t \in Above[f]
    BY DEF Made
  <2>2. f \in Node
    BY MadeType
  <2>3. t \in Tx /\ To[t] # None
    <3>1. t \in Range(Block[block]) /\ To[t] # None
      BY <2>1 DEF Sent
    <3>2. block \in DOMAIN Block
      BY TraceAssumption DEF TypeOK
    <3> QED BY <3>1, <3>2, BlockType
  <2>4. txs[1] \in Tx
    BY <1>1
  <2>5. t = txs[1]
    BY <1>2, <2>1, <2>2, <2>3, <2>4, OneTx
  <2> QED BY <1>1, <2>3, <2>5
<1>3. stack = <<>>
  BY DEF ScanInv
<1>4. /\ codeCache' = codeCache /\ clean' = clean /\ faults' = faults
      /\ UNCHANGED <<world, known, traceUnsupported, block, stack, frameCounter>>
      /\ UNCHANGED <<events, result>>
  BY DEF scanner
<1>5. clean' \in BOOLEAN /\ (clean' => clean) /\ faults' \in Nat
  BY <1>4 DEF TypeOK
<1> QED BY <1>1, <1>2, <1>3, <1>4, <1>5, SameCache, NextTxInv

LEMMA TraceFailsInv ==
  ASSUME Inv, TraceFails
  PROVE  Inv'
<1> USE DEF Inv, TraceFails
<1>1. txs # <<>> /\ stack = <<>> /\ Scanning
  BY DEF ScanInv, Scanning
<1>2. /\ codeCache' = codeCache /\ faults' \in Nat
      /\ UNCHANGED <<world, known, traceUnsupported, block, stack, frameCounter>>
      /\ UNCHANGED <<events, result>>
  BY DEF scanner, Fault, TypeOK
<1>3. ~clean' /\ clean' \in BOOLEAN
  <2>1. clean' = FALSE
    OBVIOUS
  <2> QED BY ONLY <2>1
<1> QED BY <1>1, <1>2, <1>3, SameCache, NextTxInv

LEMMA EndTxInv ==
  ASSUME Inv, EndTx
  PROVE  Inv'
<1> USE DEF Inv, EndTx
<1>1. txs # <<>> /\ stack = <<>> /\ Scanning
  BY DEF ScanInv, Scanning
<1>2. /\ codeCache' = codeCache /\ clean' = clean /\ faults' = faults
      /\ UNCHANGED <<world, known, traceUnsupported, block, stack, frameCounter>>
      /\ UNCHANGED <<events, result>>
  BY DEF scanner
<1>3. clean' \in BOOLEAN /\ (clean' => clean) /\ faults' \in Nat
  BY <1>2 DEF TypeOK
<1> QED BY <1>1, <1>2, <1>3, SameCache, NextTxInv

\* The code cache stays within its limit, and answers for the address just asked.
LEMMA RememberType ==
  ASSUME Inv, NEW a \in Addr
  PROVE  /\ Remember(a) \in [DOMAIN Remember(a) -> BOOLEAN]
         /\ DOMAIN Remember(a) \subseteq Addr
         /\ IsFiniteSet(DOMAIN Remember(a))
         /\ Cardinality(DOMAIN Remember(a)) <= CacheMax
<1> DEFINE kept == IF Cardinality(DOMAIN codeCache) >= CacheMax THEN {} ELSE DOMAIN codeCache
<1>1. /\ codeCache \in [DOMAIN codeCache -> BOOLEAN] /\ DOMAIN codeCache \subseteq Addr
      /\ IsFiniteSet(DOMAIN codeCache) /\ HasCode(a) \in BOOLEAN
  BY DEF Inv, CacheInv, HasCode
<1>2. kept \subseteq DOMAIN codeCache /\ IsFiniteSet(kept) /\ Cardinality(kept) < CacheMax
  <2>1. Cardinality(DOMAIN codeCache) \in Nat
    BY <1>1, FS_CardinalityType
  <2> QED BY <1>1, <2>1, FS_EmptySet, TraceAssumption
<1>3. Remember(a) = [x \in kept \cup {a} |-> IF x = a THEN HasCode(a) ELSE codeCache[x]]
  BY DEF Remember
<1> HIDE DEF kept
<1>4. DOMAIN Remember(a) = kept \cup {a} /\ Remember(a) \in [kept \cup {a} -> BOOLEAN]
  BY <1>1, <1>2, <1>3
<1>5. IsFiniteSet(kept \cup {a}) /\ Cardinality(kept \cup {a}) <= CacheMax
  <2>1. /\ IsFiniteSet(kept \cup {a}) /\ Cardinality(kept) \in Nat
        /\ Cardinality(kept \cup {a}) \in {Cardinality(kept), Cardinality(kept) + 1}
    BY <1>2, FS_AddElement, FS_CardinalityType
  <2> QED BY <1>2, <2>1, TraceAssumption
<1> QED BY <1>1, <1>2, <1>4, <1>5

\* What an address without code at the head was sent makes no call, in an older block
\* neither.
LEMMA NoCode ==
  ASSUME Inv, Scanning, txs # <<>>, To[txs[1]] # None, ~HasCode(To[txs[1]]),
         NEW f \in Made(block), txs[1] \in Above[f]
  PROVE  FALSE
<1>1. 1 \in 1 .. Len(txs)
  BY DEF Inv, TypeOK
<1>2. /\ block \in DOMAIN Block /\ txs[1] \in Range(Block[block]) /\ txs[1] \in Tx
      /\ txs[1] \in Node
  BY <1>1, OfBlock DEF Node
<1>3. block \in Int /\ head \in Int /\ block <= head /\ DeployedAt[To[txs[1]]] \in Int
  BY <1>2, TraceAssumption, SMTT(20) DEF Inv, TypeOK
<1>4. Calls[txs[1]] = <<>>
  BY <1>2, <1>3, ChainAssumption DEF HasCode
<1>5. f \in Frame /\ f \in Node /\ f # txs[1]
  BY <1>2, TraceAssumption DEF Made, Node
<1>6. \E i \in DOMAIN Calls[txs[1]] : Calls[txs[1]][i] \in Above[f]
  BY <1>5, Kid
<1> QED BY <1>4, <1>6

LEMMA IsContractInv ==
  ASSUME Inv, IsContract
  PROVE  Inv'
<1> USE DEF Inv
<1>1. /\ pc = "tx" /\ txs # <<>> /\ Head(txs) = txs[1] /\ Scanning /\ stack = <<>>
      /\ txs[1] \in Tx /\ To[txs[1]] # None
  BY DEF IsContract, TypeOK, Scanning, ScanInv
<1> DEFINE a == To[txs[1]]
<1>2. a \in Addr
  BY <1>1, TraceAssumption
<1>3. /\ codeCache' = IF a \in DOMAIN codeCache THEN codeCache ELSE Remember(a)
      /\ IF codeCache'[a] THEN pc' = "trace" /\ txs' = txs ELSE txs' = Tail(txs) /\ pc' = pc
      /\ clean' = (clean /\ codeCache'[a] = HasCode(a))
      /\ UNCHANGED <<world, known, traceUnsupported, block, stack, frameCounter, events>>
      /\ UNCHANGED <<result, faults>>
  BY <1>1 DEF IsContract
<1> HIDE DEF a
<1>4. CacheInv'
  <2>1. CASE a \in DOMAIN codeCache
    BY <1>3, <2>1, SameCache
  <2>2. CASE a \notin DOMAIN codeCache
    <3>1. codeCache' = Remember(a)
      BY <1>3, <2>2
    <3> QED BY <1>2, <3>1, RememberType DEF CacheInv
  <2> QED BY <2>1, <2>2
<1>5. clean' \in BOOLEAN /\ (clean' => clean /\ codeCache'[a] = HasCode(a))
  BY <1>3, Zenon
<1>6. faults' \in Nat
  BY <1>3 DEF TypeOK
<1>7. CASE codeCache'[a]
  <2>1. TypeOK'
    BY <1>3, <1>4, <1>5, <1>6, <1>7 DEF TypeOK, CacheInv, world, result
  <2>2. ScanInv'
    BY <1>1, <1>3, <1>7 DEF ScanInv, Scanning, Passed
  <2>3. WalkInv' /\ CompleteWhenHealthy'
    BY <1>1, <1>3, <1>5, <1>7 DEF WalkInv, Scanning, Waiting, Found, CompleteWhenHealthy
  <2>4. SupportInv'
    BY <1>3, <1>5 DEF SupportInv
  <2> QED BY <1>1, <1>3, <1>4, <1>5, <1>7, <2>1, <2>2, <2>3, <2>4, QuietInv DEF world, result
<1>8. CASE ~codeCache'[a]
  <2>1. clean' => \A f \in Made(block) : txs[1] \notin Above[f]
    BY <1>1, <1>5, <1>8, NoCode DEF a
  <2> QED BY <1>1, <1>3, <1>4, <1>5, <1>6, <1>8, <2>1, NextTxInv
<1> QED BY <1>7, <1>8

LEMMA EndScanInv ==
  ASSUME Inv, EndScan
  PROVE  Inv'
<1> USE DEF Inv, EndScan, world, scanner, local, result
<1>1. TypeOK' /\ ScanInv' /\ WalkInv' /\ SupportInv'
  BY DEF TypeOK, ScanInv, Scanning, WalkInv, SupportInv
<1>2. CompleteWhenHealthy'
  <2>1. stack = <<>> /\ Waiting = {}
    BY DEF ScanInv, Waiting
  <2>2. Found' = Found
    BY DEF Found
  <2> QED BY <2>1, <2>2, ZenonT(30) DEF WalkInv, Walked, Scanning, CompleteWhenHealthy
<1> QED BY <1>1, <1>2, SameCache, QuietInv

\* A scan begins: nothing is found, and every deposit lies below a transaction.
LEMMA ScanBlockInv ==
  ASSUME Inv, NEW b \in 1 .. Len(Block), ScanBlock(b)
  PROVE  Inv'
<1> USE DEF Inv, ScanBlock, CounterStart, world, scanner, result
<1>1. b \in DOMAIN Block /\ Block[b] \in Seq(Tx) /\ Len(Block[b]) \in Nat /\ b \in 1 .. head
  BY BlockType, TraceAssumption DEF TypeOK
<1>2. stack = <<>> /\ stack' = <<>>
  BY DEF ScanInv
<1>3. Found' = {} /\ events' = {} /\ frameCounter' = 0 /\ block' = b
  BY DEF Found
<1>4. EventsLasting' /\ KeysInv' /\ StackInv' /\ SteadyInv'
  <2>1. EventsLasting' /\ KeysInv' /\ StackInv'
    BY <1>2, <1>3 DEF EventsLasting, KeysInv, StackInv, StackOf
  <2>2. UNCHANGED <<credited, steady, traced, accounts>>
    OBVIOUS
  <2> QED BY <2>1, <2>2, SameCredit
<1>5. CountInv' /\ SettledInv' /\ SupportInv'
  <2>1. CountInv'
    BY <1>3, FS_EmptySet DEF CountInv
  <2>2. SettledInv'
    BY DEF SettledInv, Settled
  <2>3. SupportInv'
    BY Zenon DEF SupportInv
  <2> QED BY <2>1, <2>2, <2>3
<1>6. CASE traceUnsupported
  <2>1. pc' = "done" /\ txs' = txs /\ clean' = FALSE
    BY <1>6, Zenon
  <2>2. TypeOK' /\ CacheInv'
    BY <1>1, <1>3, <2>1, SameCache DEF TypeOK
  <2>3. ScanInv' /\ WalkInv' /\ CompleteWhenHealthy'
    BY <1>2, <2>1 DEF ScanInv, Scanning, WalkInv, CompleteWhenHealthy
  <2> QED BY <1>4, <1>5, <2>2, <2>3
<1>7. CASE ~traceUnsupported
  <2>1. pc' = "tx" /\ txs' = Block[b] /\ clean' \in BOOLEAN
    BY <1>7
  <2>2. TypeOK' /\ CacheInv'
    BY <1>1, <1>3, <2>1, SameCache, SMTT(20) DEF TypeOK
  <2>3. ScanInv'
    <3>1. Passed' = 0
      BY <1>1, <1>3, <2>1 DEF Passed
    <3> QED BY <1>1, <1>2, <1>3, <2>1, <3>1 DEF ScanInv, Scanning
  <2>4. ASSUME NEW f \in Due(b, known') PROVE Waiting' \cap Above[f] # {}
    <3>1. PICK t \in Range(Block[b]) : t \in Above[f]
      BY DEF Due, Made, Sent
    <3>2. PICK i \in 1 .. Len(Block[b]) : t = Block[b][i]
      BY <1>1, BlockType
    <3>3. t \in Waiting'
      BY <2>1, <3>2 DEF Waiting
    <3> QED BY <3>1, <3>3
  <2>5. WalkInv' /\ CompleteWhenHealthy'
    BY <1>3, <2>1, <2>4 DEF WalkInv, Walked, CompleteWhenHealthy
  <2> QED BY <1>4, <1>5, <2>2, <2>3, <2>5
<1> QED BY <1>6, <1>7

-----------------------------------------------------------------------------
(* The steps of the walk                                                   *)

LEMMA FoundType ==
  ASSUME Inv
  PROVE  Found \subseteq Frame /\ Found \in SUBSET Node /\ Found \subseteq Due(block, accounts)
BY DEF Inv, TypeOK, Found, Node, EventsLasting

LEMMA KnownType ==
  ASSUME Inv
  PROVE  /\ Due(block, known) \in SUBSET Node /\ Due(block, known) \subseteq Made(block)
         /\ Due(block, known) \subseteq Due(block, accounts)
BY DueType DEF Inv, TypeOK

LEMMA WaitingType ==
  ASSUME Inv
  PROVE  Waiting \in SUBSET Node
<1>1. ASSUME NEW i \in 1 .. Len(stack) PROVE stack[i][1] \in Node
  BY DEF Inv, TypeOK, Node
<1>2. ASSUME NEW i \in 1 .. Len(txs) PROVE txs[i] \in Node
  BY DEF Inv, TypeOK, Node
<1> QED BY <1>1, <1>2 DEF Waiting

LEMMA TraceTransactionInv ==
  ASSUME Inv, TraceTransaction
  PROVE  Inv'
<1> USE DEF Inv
<1> DEFINE t == txs[1]
<1>1. /\ txs \in Seq(Tx) /\ Len(txs) \in Nat /\ 1 \in 1 .. Len(txs) /\ t = Head(txs)
      /\ t \in Tx /\ t \in Node /\ Scanning /\ stack = <<>> /\ To[t] # None
  BY DEF TraceTransaction, TypeOK, ScanInv, Scanning, Node
<1>2. /\ pc = "trace" /\ pc' = "collect" /\ stack' = AtDepth(Calls[t], 0)
      /\ UNCHANGED <<head, accounts, codeCache, traceUnsupported, block, txs>>
      /\ UNCHANGED <<frameCounter, events, credited, traced, steady, clean, known, faults>>
  BY <1>1 DEF TraceTransaction, world, scanner, result
<1>3. 0 = Lv(t) + 1 /\ Above[t] = {t} /\ Above[t] \cap Reverted = {}
  BY <1>1, AboveTx, TraceAssumption DEF Lv
<1> HIDE DEF t
<1>4. /\ stack' \in Seq(Frame \X (0 .. MaxDepth)) /\ Len(stack') = Len(Calls[t])
      /\ \A i \in 1 .. Len(Calls[t]) : /\ stack'[i] = <<Calls[t][i], 0>> /\ i \in DOMAIN Calls[t]
                                       /\ Calls[t][i] \in Range(Calls[t])
  BY <1>1, <1>2, <1>3, Entered
<1>5. TypeOK' /\ CacheInv'
  BY <1>2, <1>4, SameCache DEF TypeOK
<1>6. ScanInv'
  BY <1>1, <1>2 DEF ScanInv, Scanning, Passed, t
<1>7. StackInv'
  <2>1. /\ \A i \in DOMAIN Calls[t] : OnStack(t, Calls[t][i], 0)
        /\ \A i, j \in DOMAIN Calls[t] : i < j => Left(Calls[t][i], Calls[t][j])
    <3>1. t \in Above[t]
      BY <1>3
    <3>2. /\ \A i \in DOMAIN Calls[t] : OnStack(t, Calls[t][i], Lv(t) + 1)
          /\ \A i, j \in DOMAIN Calls[t] : i < j => Left(Calls[t][i], Calls[t][j])
      BY <1>1, <1>3, <3>1, Children
    <3>3. 0 = Lv(t) + 1
      BY <1>3
    <3> QED BY ONLY <3>2, <3>3
  <2>2. ASSUME NEW i \in 1 .. Len(stack')
        PROVE  stack'[i] = <<Calls[t][i], 0>> /\ i \in DOMAIN Calls[t]
    BY <1>4
  <2>3. StackOf(t, stack')
    BY <2>1, <2>2 DEF StackOf
  <2> QED BY <1>2, <2>3 DEF StackInv, t
<1>8. WalkInv'
  <2> DEFINE R == {txs[i] : i \in 2 .. Len(txs)}
  <2>1. clean' => Walked(Due(block, known), Found, Waiting)
    BY <1>1, <1>2 DEF WalkInv
  <2>2. t \in Waiting /\ Waiting \subseteq {t} \cup R /\ R \subseteq Waiting
    BY <1>1, <1>2 DEF Waiting, t
  <2>3. Waiting' = R \cup Range(Calls[t])
    <3>1. ASSUME NEW i \in 1 .. Len(stack') PROVE stack'[i][1] \in Range(Calls[t])
      BY <1>4
    <3>2. ASSUME NEW f \in Range(Calls[t]) PROVE \E i \in 1 .. Len(stack') : f = stack'[i][1]
      <4>1. PICK i \in DOMAIN Calls[t] : f = Calls[t][i]
        BY <1>1, CallsType, ZenonT(30)
      <4>2. i \in 1 .. Len(Calls[t])
        BY <1>1, CallsType
      <4> QED BY <1>4, <4>1, <4>2
    <3> QED BY <1>2, <3>1, <3>2 DEF Waiting
  <2>4. t \notin Due(block, known) /\ t \notin Found
    BY <1>1, FoundType, KnownType, MadeType, TraceAssumption
  <2>5. Waiting \in SUBSET Node /\ R \in SUBSET Node
    BY <2>2, WaitingType
  <2> HIDE DEF R
  <2>6. clean' => Walked(Due(block, known), Found, Waiting')
    BY <1>1, <2>1, <2>2, <2>3, <2>4, <2>5, FoundType, KnownType, EnterNode, ZenonT(30)
  <2>7. Found' = Found /\ block' = block /\ known' = known
    BY <1>2 DEF Found
  <2> QED BY <2>6, <2>7 DEF WalkInv
<1>9. CompleteWhenHealthy' /\ EventsLasting' /\ KeysInv' /\ CountInv' /\ SteadyInv'
  BY <1>2, SameEvents, SameCredit DEF CompleteWhenHealthy
<1>10. SupportInv' /\ SettledInv'
  BY <1>2 DEF SupportInv, SettledInv, Settled
<1> QED BY <1>5, <1>6, <1>7, <1>8, <1>9, <1>10

\* The frame on the top comes before all else that waits.
LEMMA TopFirst ==
  ASSUME Inv, pc = "collect", stack # <<>>, NEW f, NEW d, stack[1] = <<f, d>>, f \in Node,
         txs[1] \in Above[f]
  PROVE  /\ \A i \in 2 .. Len(stack) : Left(f, stack[i][1])
         /\ \A i \in 2 .. Len(txs) : Left(f, txs[i])
<1>1. stack \in Seq(Frame \X (0 .. MaxDepth)) /\ txs \in Seq(Tx) /\ txs # <<>> /\ Scanning
  BY DEF Inv, TypeOK, ScanInv, Scanning
<1>2. ASSUME NEW i \in 2 .. Len(stack) PROVE Left(f, stack[i][1])
  <2>1. 1 \in 1 .. Len(stack) /\ i \in 1 .. Len(stack) /\ 1 < i
    BY <1>1
  <2> QED BY <2>1 DEF Inv, StackInv, StackOf
<1>3. ASSUME NEW i \in 2 .. Len(txs) PROVE Left(f, txs[i])
  <2>1. 1 \in 1 .. Len(txs) /\ i \in 1 .. Len(txs) /\ 1 < i
    BY <1>1
  <2>2. /\ Block[block] \in Lists
        /\ 1 + Passed \in DOMAIN Block[block] /\ txs[1] = Block[block][1 + Passed]
        /\ i + Passed \in DOMAIN Block[block] /\ txs[i] = Block[block][i + Passed]
        /\ txs[i] \in Tx
    BY <1>1, <2>1, OfBlock
  <2>3. 1 + Passed < i + Passed
    BY <1>1, <2>1, OfBlock, BlockType DEF Passed
  <2>4. txs[i] \in Above[txs[i]]
    BY <2>2, AboveTx
  <2> QED BY <2>2, <2>3, <2>4 DEF Left
<1> QED BY <1>2, <1>3

\* A frame that becomes an event.
LEMMA TopMade ==
  ASSUME Inv, pc = "collect", NEW f \in Transfers, NEW d, OnStack(txs[1], f, d),
         f \notin Reverted, Has(f)
  PROVE  f \in Due(block, accounts)
<1>1. Above[f] \cap Reverted = {} /\ txs[1] \in Above[f]
  BY DEF OnStack
<1>2. txs # <<>> /\ To[txs[1]] # None /\ Scanning /\ 1 \in 1 .. Len(txs)
  BY DEF Inv, TypeOK, ScanInv, Scanning
<1>3. txs[1] \in Sent(block)
  BY <1>2, OfBlock DEF Sent
<1> QED BY <1>1, <1>3 DEF Due, Made, Lasting, Has

\* The number of a new event is the counter's, which no event has.
LEMMA NewKey ==
  ASSUME Inv, NEW e, e.key[2] = LogIndex(frameCounter), events' = events \cup {e},
         frameCounter' = frameCounter + 1
  PROVE  KeysInv'
<1> USE DEF Inv, LogIndex
<1>1. frameCounter \in Nat
  BY DEF TypeOK
<1>2. ASSUME NEW x \in events PROVE x.key[2] # e.key[2]
  <2>1. PICK n \in 0 .. frameCounter - 1 : x.key[2] = LogIndex(n)
    BY DEF KeysInv
  <2> QED BY <1>1, <2>1
<1>3. ASSUME NEW x \in events' PROVE \E n \in 0 .. frameCounter' - 1 : x.key[2] = LogIndex(n)
  <2>1. CASE x \in events
    <3>1. PICK n \in 0 .. frameCounter - 1 : x.key[2] = LogIndex(n)
      BY <2>1 DEF KeysInv
    <3>2. n \in 0 .. frameCounter' - 1
      BY <1>1
    <3> HIDE DEF LogIndex
    <3> QED BY <3>1, <3>2
  <2>2. CASE x = e
    <3>1. frameCounter \in 0 .. frameCounter' - 1
      BY <1>1
    <3> HIDE DEF LogIndex
    <3> QED BY <2>2, <3>1
  <2> QED BY <2>1, <2>2
<1> HIDE DEF LogIndex
<1>4. ASSUME NEW x \in events', NEW y \in events', x.key[2] = y.key[2]
      PROVE  x.deposit = y.deposit
  BY <1>2, <1>4 DEF KeysInv
<1> QED BY <1>3, <1>4 DEF KeysInv

\* One frame of the walk.
LEMMA VisitInv ==
  ASSUME Inv, NEW found \in BOOLEAN, Visit(found), clean' \in BOOLEAN,
         clean' => clean /\ found, faults' \in Nat
  PROVE  Inv'
<1> DEFINE f == stack[1][1]
           d == stack[1][2]
           R == {stack[i][1] : i \in 2 .. Len(stack)} \cup {txs[i] : i \in 2 .. Len(txs)}
           event == [key |-> <<txs[1], LogIndex(frameCounter)>>, deposit |-> f]
           takes == found /\ f \in Transfers /\ f \notin Reverted /\ Has(f)
<1>1. /\ pc = "collect" /\ stack # <<>> /\ stack \in Seq(Frame \X (0 .. MaxDepth))
      /\ Head(stack) = stack[1] /\ stack[1] = <<f, d>>
      /\ txs \in Seq(Tx) /\ txs # <<>> /\ Head(txs) = txs[1] /\ txs[1] \in Tx /\ Scanning
  BY DEF Inv, Visit, TypeOK, ScanInv, Scanning
<1>2. /\ pc' = pc /\ txs' = txs /\ block' = block /\ head' = head /\ codeCache' = codeCache
      /\ traceUnsupported' = traceUnsupported /\ accounts' = accounts /\ known' = known
      /\ credited' = credited /\ traced' = traced /\ steady' = steady
      /\ stack' = Push(InPlaceOf(f, d), stack)
      /\ IF takes THEN events' = events \cup {event} /\ frameCounter' = frameCounter + 1
                  ELSE events' = events /\ frameCounter' = frameCounter
  BY <1>1 DEF Visit, Push, InPlaceOf, Skipped, world, scanner, result
<1> HIDE DEF f, d
<1>3. /\ f \in Frame /\ f \in Node /\ d \in Nat /\ OnStack(txs[1], f, d)
      /\ txs[1] \in Above[f]
  <2>1. <<f, d>> \in Frame \X (0 .. MaxDepth) /\ 1 \in 1 .. Len(stack)
    BY <1>1
  <2>2. OnStack(txs[1], stack[1][1], stack[1][2])
    BY <2>1 DEF Inv, StackInv, StackOf
  <2> QED BY <2>1, <2>2 DEF OnStack, Node, f, d
<1>4. /\ stack' \in Seq(Frame \X (0 .. MaxDepth)) /\ StackInv'
      /\ {stack'[i][1] : i \in 1 .. Len(stack')} =
           {stack[i][1] : i \in 2 .. Len(stack)}
             \cup (IF f \in Reverted THEN {} ELSE Range(Calls[f]))
  <2>1. stack' = Push(InPlaceOf(f, d), stack) /\ StackOf(txs[1], stack)
    BY <1>2 DEF Inv, StackInv
  <2>2. Visited(txs[1], f, stack, stack')
    BY <1>1, <1>3, <2>1, VisitStack
  <2>3. txs' = txs
    BY <1>2
  <2> QED BY ONLY <2>2, <2>3 DEF Visited, StackInv
<1>5. TypeOK' /\ CacheInv'
  <2>1. takes => event \in [key : Tx \X Int, deposit : Frame]
    BY <1>1, <1>3 DEF Inv, TypeOK, LogIndex
  <2>2. events' \subseteq [key : Tx \X Int, deposit : Frame] /\ frameCounter' \in Nat
    <3> HIDE DEF event, takes
    <3> QED BY <1>2, <2>1 DEF Inv, TypeOK
  <2> HIDE DEF event, takes
  <2> QED BY <1>2, <1>4, <2>2, SameCache, SMTT(20) DEF Inv, TypeOK
<1>6. ScanInv'
  BY <1>1, <1>2 DEF Inv, ScanInv, Scanning, Passed
<1>7. /\ f \in Waiting /\ Waiting \subseteq {f} \cup R /\ R \subseteq Waiting
      /\ \A w \in R : Left(f, w)
  <2>1. \A i \in 1 .. Len(stack) : i = 1 \/ i \in 2 .. Len(stack)
    BY <1>1
  <2>2. 1 \in 1 .. Len(stack) /\ 2 .. Len(stack) \subseteq 1 .. Len(stack)
    BY <1>1
  <2> QED BY <1>1, <1>3, <2>1, <2>2, TopFirst DEF Waiting, f
<1>8. Waiting' = R \cup (IF f \in Reverted THEN {} ELSE Range(Calls[f]))
  BY <1>1, <1>2, <1>4, ZenonT(30) DEF Waiting
<1>9. clean' => Walked(Due(block, known), Found, Waiting)
  BY <1>1 DEF Inv, WalkInv
<1>10. takes => f \in Due(block, accounts)
  BY <1>1, <1>3, TopMade
<1>11. Found' = IF takes THEN Found \cup {f} ELSE Found
  <2>1. CASE takes
    <3>1. events' = events \cup {event} /\ event.deposit = f
      BY <1>2, <2>1
    <3> HIDE DEF event, takes
    <3> QED BY <2>1, <3>1 DEF Found
  <2>2. CASE ~takes
    BY <1>2, <2>2 DEF Found
  <2> QED BY <2>1, <2>2
<1> HIDE DEF R
<1>12. WalkInv'
  <2>1. R \in SUBSET Node /\ Found' \in SUBSET Node
    BY <1>3, <1>7, <1>11, WaitingType, FoundType
  <2>2. CASE f \in Reverted
    <3>1. \A g \in Due(block, known) : f \notin Above[g]
      BY <2>2 DEF Due, Made, Lasting
    <3>2. Found' = Found /\ Waiting' = R
      BY <1>8, <1>11, <2>2
    <3>3. clean' => Walked(Due(block, known), Found, R)
      BY <1>7, <1>9, <3>1 DEF Walked
    <3> QED BY <1>2, <3>2, <3>3 DEF WalkInv
  <2>3. CASE f \notin Reverted
    <3>1. ASSUME clean', f \in Due(block, known) PROVE f \in Found'
      <4>1. f \in Due(block, accounts)
        BY <3>1, KnownType
      <4> QED BY <1>11, <2>3, <3>1, <4>1 DEF Due, Made, Has
    <3>2. Found \subseteq Found' /\ Found' \subseteq Found \cup {f}
      BY <1>11
    <3>3. Waiting' = R \cup Range(Calls[f])
      BY <1>8, <2>3
    <3>4. clean' => Walked(Due(block, known), Found', R \cup Range(Calls[f]))
      <4> HIDE DEF takes
      <4> QED BY <1>3, <1>7, <1>9, <2>1, <3>1, <3>2, WaitingType, FoundType, KnownType,
                 EnterNode, ZenonT(30)
    <3> QED BY <1>2, <3>3, <3>4 DEF WalkInv
  <2> QED BY <2>2, <2>3
<1>13. CompleteWhenHealthy' /\ SteadyInv' /\ SupportInv' /\ SettledInv'
  <2> HIDE DEF takes
  <2>1. SupportInv' /\ SettledInv'
    BY <1>2 DEF Inv, SupportInv, SettledInv, Settled
  <2> QED BY <1>1, <1>2, <2>1, SameCredit DEF CompleteWhenHealthy
<1>14. CASE ~takes
  <2>1. EventsLasting' /\ KeysInv' /\ CountInv'
    BY <1>2, <1>14, SameEvents
  <2> QED BY <1>4, <1>5, <1>6, <1>12, <1>13, <2>1 DEF Inv
<1>15. CASE takes
  <2>1. events' = events \cup {event} /\ frameCounter' = frameCounter + 1
        /\ f \in Due(block, accounts) /\ Found' = Found \cup {f}
    BY <1>2, <1>10, <1>11, <1>15
  <2>2. event.key[1] = txs[1] /\ event.key[2] = LogIndex(frameCounter) /\ event.deposit = f
    OBVIOUS
  <2> HIDE DEF event, takes
  <2>3. EventsLasting'
    BY <1>2, <1>3, <2>1, <2>2 DEF Inv, EventsLasting
  <2>4. KeysInv'
    BY <2>1, <2>2, NewKey
  <2>5. CountInv'
    <3>1. SUFFICES ASSUME clean', Settled' PROVE CountInv'
      BY DEF CountInv
    <3>2. Settled /\ Due(block, accounts) = Due(block, known)
      BY <1>2, <3>1 DEF Settled
    <3>3. Found = {g \in Due(block, known) : Precedes(g, f)} /\ f \notin Found
      <4> DEFINE M == Due(block, known)
      <4>1. M \in SUBSET Node /\ Found \in SUBSET M /\ Waiting \in SUBSET Node
        BY <3>2, WaitingType, FoundType, KnownType
      <4>2. Walked(M, Found, Waiting) /\ R \in SUBSET Waiting
        BY <1>7, <1>9, <3>1
      <4> HIDE DEF M
      <4>3. Found = {g \in M : Precedes(g, f)} /\ f \notin Found
        BY <1>7, <4>1, <4>2, FoundBefore
      <4> QED BY <4>3 DEF M
    <3>4. frameCounter = Cardinality(Found) /\ frameCounter = Place(block, known, f)
      BY <3>1, <3>2, <3>3 DEF Inv, CountInv, Place
    <3>5. Cardinality(Found') = frameCounter + 1
      <4>1. IsFiniteSet(Found)
        BY FoundType, FS_Subset, TraceAssumption
      <4>2. f \notin Found
        BY <3>3
      <4>3. Cardinality(Found \cup {f}) = Cardinality(Found) + 1
        BY <4>1, <4>2, FS_AddElement
      <4> QED BY <2>1, <3>4, <4>3
    <3>6. \A e \in events' : e.key[2] = LogIndex(Place(block', known', e.deposit))
      BY <1>2, <2>1, <2>2, <3>1, <3>2, <3>4 DEF Inv, CountInv
    <3> QED BY <2>1, <3>5, <3>6 DEF CountInv
  <2> QED BY <1>4, <1>5, <1>6, <1>12, <1>13, <2>3, <2>4, <2>5 DEF Inv
<1> QED BY <1>14, <1>15

-----------------------------------------------------------------------------
(* What becomes of the events                                              *)

LEMMA PlaceType ==
  ASSUME NEW b, NEW A, NEW f
  PROVE  Place(b, A, f) \in Nat
<1>1. IsFiniteSet({g \in Due(b, A) : Precedes(g, f)})
  <2>1. {g \in Due(b, A) : Precedes(g, f)} \subseteq Frame
    BY TraceAssumption DEF Due, Made
  <2> QED BY <2>1, FS_Subset, TraceAssumption
<1> QED BY <1>1, FS_CardinalityType DEF Place

\* A proper key belongs to one deposit, and a deposit has one proper key.
LEMMA ProperKeys ==
  ASSUME traced \subseteq DOMAIN Block,
         NEW k \in Tx \X Int, NEW l \in Tx \X Int, NEW f, NEW g,
         ProperKey(k, f), NEW c \in DOMAIN Block, g \in Due(c, accounts), l[1] \in Above[g],
         c \in traced => l[2] = LogIndex(Place(c, accounts, g))
  PROVE  k = l <=> f = g
<1>1. PICK b \in traced :
        /\ f \in Due(b, accounts) /\ k[1] \in Above[f]
        /\ k[2] = LogIndex(Place(b, accounts, f))
        /\ \A x, y \in Due(b, accounts) :
             Place(b, accounts, x) = Place(b, accounts, y) => x = y
  BY DEF ProperKey
<1>2. k[1] \in Tx /\ l[1] \in Tx /\ k = <<k[1], k[2]>> /\ l = <<l[1], l[2]>>
  OBVIOUS
<1>3. f \in Made(b) /\ g \in Made(c) /\ b \in DOMAIN Block
  BY <1>1 DEF Due
<1>4. k[1] \in Range(Block[b]) /\ l[1] \in Range(Block[c])
  BY <1>1, <1>2, <1>3, KeyTx
<1>5. ASSUME k[1] = l[1] PROVE b = c /\ l[2] = LogIndex(Place(b, accounts, g))
  <2>1. b = c
    BY <1>3, <1>4, <1>5, OneBlock
  <2> QED BY <1>1, <2>1
<1>6. ASSUME k = l PROVE f = g
  <2>1. b = c /\ LogIndex(Place(b, accounts, f)) = LogIndex(Place(b, accounts, g))
    BY <1>1, <1>5, <1>6
  <2>2. Place(b, accounts, f) = Place(b, accounts, g)
    BY <2>1, PlaceType, SMT DEF LogIndex
  <2> QED BY <1>1, <2>1, <2>2
<1>7. ASSUME f = g PROVE k = l
  <2>1. k[1] = l[1]
    BY <1>1, <1>2, <1>3, <1>7, MadeType, OneTx
  <2>2. k[2] = l[2]
    BY <1>1, <1>5, <1>7, <2>1
  <2> QED BY <1>2, <2>1, <2>2
<1> QED BY <1>6, <1>7

LEMMA SaveInv ==
  ASSUME Inv, Save
  PROVE  Inv'
<1>1. /\ pc = "done" /\ pc' = "idle" /\ steady' = (steady /\ clean /\ Settled)
      /\ credited' = [k \in DOMAIN credited \cup Keys |->
                        IF k \in DOMAIN credited THEN credited[k]
                        ELSE (CHOOSE e \in events : e.key = k).deposit]
      /\ traced' = (IF traceUnsupported THEN traced ELSE traced \cup {block})
      /\ UNCHANGED <<head, accounts, codeCache, traceUnsupported, clean, known, faults>>
      /\ UNCHANGED <<block, txs, stack, frameCounter, events>>
  BY DEF Save, world, scanner, local
<1>2. \A e \in events : e \in [key : Tx \X Int, deposit : Frame]
  BY DEF Inv, TypeOK
<1>3. ASSUME NEW k \in DOMAIN credited', k \notin DOMAIN credited
      PROVE  \E e \in events : e.key = k /\ credited'[k] = e.deposit
  BY <1>1, <1>3, ZenonT(30) DEF Keys
<1>4. DOMAIN credited' = DOMAIN credited \cup Keys
      /\ \A k \in DOMAIN credited : credited'[k] = credited[k]
  BY <1>1
<1>5. credited' \in [DOMAIN credited' -> Frame] /\ DOMAIN credited' \subseteq Tx \X Int
  <2>1. credited' \in [DOMAIN credited' -> Frame]
    <3>1. \A k \in DOMAIN credited' : credited'[k] \in Frame
      <4>1. \A k \in DOMAIN credited : credited'[k] \in Frame
        BY <1>4 DEF Inv, TypeOK
      <4>2. \A e \in events : e.deposit \in Frame
        BY <1>2
      <4> QED BY <1>3, <4>1, <4>2
    <3>2. credited' = [k \in DOMAIN credited' |-> credited'[k]]
      BY <1>1
    <3> HIDE DEF Keys
    <3> QED BY <3>1, <3>2
  <2>2. Keys \subseteq Tx \X Int
    BY <1>2 DEF Keys
  <2> QED BY <1>4, <2>1, <2>2 DEF Inv, TypeOK
<1>6. TypeOK' /\ CacheInv'
  BY <1>1, <1>5, SameCache, ZenonT(30) DEF Inv, TypeOK
<1>7. ScanInv' /\ WalkInv' /\ CompleteWhenHealthy' /\ StackInv'
  BY <1>1 DEF Inv, ScanInv, Scanning, WalkInv, CompleteWhenHealthy, StackInv
<1>8. EventsLasting' /\ KeysInv' /\ CountInv'
  BY <1>1, SameEvents
<1>9. SteadyInv'
  <2> SUFFICES ASSUME steady', NEW k \in DOMAIN credited' PROVE ProperKey(k, credited[k])'
    BY DEF SteadyInv
  <2>1. steady /\ clean /\ Settled /\ Due(block, accounts) = Due(block, known)
    BY <1>1, ZenonT(30) DEF Settled
  <2>2. \A f : Place(block, accounts, f) = Place(block, known, f)
    BY <2>1 DEF Place
  <2>3. traced' = traced \cup {block} /\ accounts' = accounts
    BY <1>1, <2>1 DEF Inv, SupportInv
  <2>4. CASE k \in DOMAIN credited
    <3>1. ProperKey(k, credited[k]) /\ credited'[k] = credited[k]
      BY <1>4, <2>1, <2>4 DEF Inv, SteadyInv
    <3> QED BY <2>3, <3>1 DEF ProperKey
  <2>5. CASE k \notin DOMAIN credited
    <3>1. PICK e \in events : e.key = k /\ credited'[k] = e.deposit
      BY <1>3, <2>5
    <3>2. /\ e.deposit \in Due(block, accounts) /\ k[1] \in Above[e.deposit]
          /\ k[2] = LogIndex(Place(block, accounts, e.deposit))
      BY <2>1, <2>2, <3>1 DEF Inv, EventsLasting, CountInv
    <3>3. ASSUME NEW g \in Due(block, accounts), NEW h \in Due(block, accounts),
                 Place(block, accounts, g) = Place(block, accounts, h)
          PROVE  g = h
      <4>1. g \in Found /\ h \in Found
        BY <1>1, <2>1 DEF Inv, CompleteWhenHealthy
      <4>2. PICK x \in events : x.deposit = g
        BY <4>1 DEF Found
      <4>3. PICK y \in events : y.deposit = h
        BY <4>1 DEF Found
      <4>4. x.key[2] = LogIndex(Place(block, accounts, g))
        BY <2>1, <2>2, <4>2 DEF Inv, CountInv
      <4>5. y.key[2] = LogIndex(Place(block, accounts, h))
        BY <2>1, <2>2, <4>3 DEF Inv, CountInv
      <4>6. x.key[2] = y.key[2]
        BY ONLY <3>3, <4>4, <4>5
      <4> QED BY <4>2, <4>3, <4>6 DEF Inv, KeysInv
    <3> QED BY <2>3, <3>1, <3>2, <3>3 DEF ProperKey
  <2> QED BY <2>4, <2>5
<1>10. SettledInv'
  BY <1>1, ZenonT(30) DEF SettledInv, Settled
<1>11. SupportInv'
  BY <1>1 DEF Inv, SupportInv
<1> QED BY <1>6, <1>7, <1>8, <1>9, <1>10, <1>11 DEF Inv

-----------------------------------------------------------------------------
(* The theorems                                                            *)

LEMMA NextInv == Inv /\ [Next]_vars => Inv'
<1> SUFFICES ASSUME Inv, [Next]_vars PROVE Inv'
  OBVIOUS
<1>1. CASE Mine \/ NewTraceScanner
  BY <1>1, MineInv, NewTraceScannerInv
<1>2. ASSUME NEW b \in 1 .. Len(Block), ScanBlock(b) PROVE Inv'
  BY <1>2, ScanBlockInv
<1>3. CASE SkipCreation \/ IsContract
  BY <1>3, SkipCreationInv, IsContractInv
<1>4. CASE ScanFails \/ TraceUnsupported \/ SaveFails
  BY <1>4, ErrorInv
<1>5. CASE TraceTransaction \/ TraceFails
  BY <1>5, TraceTransactionInv, TraceFailsInv
<1>6. CASE VisitFound
  <2>1. Visit(TRUE) /\ clean' = clean /\ faults' = faults
    BY <1>6 DEF VisitFound
  <2>2. clean' \in BOOLEAN /\ (clean' => clean) /\ faults' \in Nat
    BY <2>1 DEF Inv, TypeOK
  <2> QED BY <2>1, <2>2, VisitInv
<1>7. CASE HasFails
  <2>1. Visit(FALSE) /\ clean' = FALSE
    BY <1>7 DEF HasFails
  <2>2. faults' \in Nat
    BY <1>7 DEF HasFails, Fault, Inv, TypeOK
  <2>3. clean' \in BOOLEAN /\ ~clean'
    BY ONLY <2>1, Zenon
  <2> QED BY <2>1, <2>2, <2>3, VisitInv
<1>8. CASE EndTx \/ EndScan
  BY <1>8, EndTxInv, EndScanInv
<1>9. CASE Save
  BY <1>9, SaveInv
<1>10. ASSUME NEW a \in Accounts, Register(a) PROVE Inv'
  BY <1>10, RegisterInv
<1>11. CASE UNCHANGED vars
  <2>1. /\ UNCHANGED <<head, accounts, codeCache, traceUnsupported, pc, block, txs, stack>>
        /\ UNCHANGED <<frameCounter, events, credited, traced, steady, clean, known, faults>>
    BY <1>11 DEF vars, world, scanner, local, result
  <2>2. TypeOK' /\ CacheInv'
    BY <2>1, SameCache DEF Inv, TypeOK
  <2>3. ScanInv'
    BY <2>1 DEF Inv, ScanInv, Scanning, Passed
  <2>4. WalkInv' /\ CompleteWhenHealthy'
    BY <2>1 DEF Inv, WalkInv, Scanning, Waiting, Found, CompleteWhenHealthy
  <2>5. SupportInv'
    BY <2>1 DEF Inv, SupportInv
  <2> QED BY <2>1, <2>2, <2>3, <2>4, <2>5, QuietInv
<1> QED BY <1>1, <1>2, <1>3, <1>4, <1>5, <1>6, <1>7, <1>8, <1>9, <1>10, <1>11 DEF Next

LEMMA InitInv == Init => Inv
<1> SUFFICES ASSUME Init PROVE Inv
  OBVIOUS
<1>1. CacheInv
  <2>1. codeCache \in [DOMAIN codeCache -> BOOLEAN] /\ DOMAIN codeCache = {}
    BY DEF Init, Empty
  <2> QED BY <2>1, FS_EmptySet, TraceAssumption DEF CacheInv
<1>2. stack = <<>> /\ events = {} /\ frameCounter = 0 /\ pc = "idle"
  BY DEF Init
<1>3. credited \in [{} -> Frame] /\ DOMAIN credited = {}
  BY DEF Init, Empty
<1>4. TypeOK
  <2>1. Len(Block) \in Nat /\ Len(Block) >= 1
    BY TraceAssumption
  <2>2. head \in 1 .. Len(Block) /\ block \in 1 .. head /\ faults \in Nat
    BY <2>1 DEF Init
  <2>3. txs \in Seq(Tx) /\ stack \in Seq(Frame \X (0 .. MaxDepth)) /\ traced = {}
    BY DEF Init
  <2>4. traceUnsupported \in BOOLEAN /\ clean \in BOOLEAN /\ steady \in BOOLEAN
    BY DEF Init
  <2>5. accounts \subseteq Accounts /\ known \subseteq accounts
    BY TraceAssumption DEF Init
  <2> QED BY <1>1, <1>2, <1>3, <2>2, <2>3, <2>4, <2>5 DEF TypeOK, CacheInv
<1>5. ScanInv /\ WalkInv /\ CompleteWhenHealthy
  BY <1>2 DEF ScanInv, Scanning, WalkInv, CompleteWhenHealthy
<1>6. StackInv /\ EventsLasting /\ KeysInv
  BY <1>2 DEF StackInv, StackOf, EventsLasting, KeysInv
<1>7. CountInv
  <2>1. Found = {}
    BY <1>2 DEF Found
  <2> QED BY <1>2, <2>1, FS_EmptySet DEF CountInv
<1>8. SteadyInv /\ SettledInv /\ SupportInv
  BY <1>3 DEF SteadyInv, SettledInv, Settled, SupportInv, Init
<1> QED BY <1>1, <1>4, <1>5, <1>6, <1>7, <1>8 DEF Inv

\* Every scan of every block walks the forest of calls in order, whatever fails on
\* the way and however often the block is scanned.
THEOREM Invariance == Spec => []Inv
BY InitInv, NextInv, PTL DEF Spec

\* Types; the code cache never holds more than codeCacheMaxEntries addresses, and no
\* frame below maxCallFrameDepth comes on the stack.
THEOREM TypeCorrect == Spec => []TypeOK
<1>1. Inv => TypeOK
  BY DEF Inv
<1> QED BY <1>1, Invariance, PTL

\* collect takes no deposit that a reverted call undid, at whatever level below the
\* root, and gives each the transaction it was made in.
THEOREM OnlyLasting == Spec => []EventsLasting
<1>1. Inv => EventsLasting
  BY DEF Inv
<1> QED BY <1>1, Invariance, PTL

\* The depth-first walk leaves out no branch: when no call failed and the code cache
\* was right, ScanBlock returns every deposit, of the transactions it looks at, to the
\* accounts there were when it began.
THEOREM CompleteWalk == Spec => []CompleteWhenHealthy
<1>1. Inv => CompleteWhenHealthy
  BY DEF Inv
<1> QED BY <1>1, Invariance, PTL

\* One counter for the block keeps the keys of its deposits apart, across
\* transactions, branches and failed calls.
THEOREM DistinctKeys == Spec => []KeysDistinct
<1>1. Inv => KeysDistinct
  BY DEF Inv, KeysInv, KeysDistinct
<1> QED BY <1>1, Invariance, PTL

\* The log_index of a deposit is its place among the deposits to accounts.  So every
\* clean scan gives it the same key, and gives that key to nothing else, as long as no
\* account registered in between has a deposit in the block: one that has moves the
\* places of the deposits after its own.
THEOREM ReproducibleKeys == Spec => []KeysReproducible
<1>1. ASSUME Inv PROVE KeysReproducible
  <2> SUFFICES ASSUME steady, clean, NEW e \in events, NEW k \in DOMAIN credited
               PROVE  k = e.key <=> credited[k] = e.deposit
    BY DEF KeysReproducible
  <2> DEFINE f == credited[k]
             g == e.deposit
             l == e.key
  <2>1. k \in Tx \X Int
    BY <1>1 DEF Inv, TypeOK
  <2>2. l \in Tx \X Int
    BY <1>1 DEF Inv, TypeOK
  <2>3. block \in DOMAIN Block /\ traced \subseteq DOMAIN Block
    <3>1. head \in 1 .. Len(Block) /\ block \in 1 .. head /\ traced \subseteq 1 .. head
      BY <1>1 DEF Inv, TypeOK
    <3>2. Len(Block) \in Nat /\ DOMAIN Block = 1 .. Len(Block)
      BY TraceAssumption
    <3>3. 1 .. head \subseteq 1 .. Len(Block)
      BY <3>1, <3>2
    <3> QED BY <3>1, <3>2, <3>3
  <2>4. ProperKey(k, f)
    BY <1>1 DEF Inv, SteadyInv
  <2>5. g \in Due(block, accounts) /\ l[1] \in Above[g]
    BY <1>1 DEF Inv, EventsLasting
  <2>6. block \in traced => l[2] = LogIndex(Place(block, accounts, g))
    <3> HAVE block \in traced
    <3>1. Settled /\ Place(block, accounts, g) = Place(block, known, g)
      BY <1>1 DEF Inv, SettledInv, Settled, Place
    <3> QED BY <1>1, <3>1 DEF Inv, CountInv
  <2> HIDE DEF f, g, l
  <2>7. k = l <=> f = g
    <3>1. l[1] \in Above[g] /\ g \in Due(block, accounts)
      BY <2>5
    <3> QED BY ONLY <2>1, <2>2, <2>3, <2>4, <2>6, <3>1, ProperKeys, SMTT(40)
  <2> QED BY <2>7 DEF f, g, l
<1> QED BY <1>1, Invariance, PTL
=============================================================================
