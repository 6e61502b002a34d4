------------------------- MODULE EventIndexerProofs -------------------------
(***************************************************************************)
(* Proofs about EventIndexer: its types, and that no event is lost behind  *)
(* the cursor, for any number of processes, any transactions and bounds.   *)
(***************************************************************************)
EXTENDS EventIndexer, TLAPS

-----------------------------------------------------------------------------
(* The inductive invariant.  A block counts as stored up to n when every   *)
(* transfer of the original blocks up to n has its row among rows.  The    *)
(* cursor vouches for that in sync_status, as read by a process, and, with *)
(* the rows still to be saved, at the end of the process's range.  A new   *)
(* block cannot slip in under one of these numbers: before the first       *)
(* reorganisation they do not exceed the head, and afterwards no block     *)
(* that is mined is an original one.                                       *)
Covered(n, rows) ==
  \A m \in 1..n : Original(m) =>
    \A t \in transfersOf[m] : [number |-> m, tx |-> t] \in rows

OriginalsAreMined == \A n \in Heights : Original(n) => n <= head

NumbersAreMined ==
  fork = 1 => processed <= head /\ \A i \in Indexers : lastBlock[i] <= head /\ currentBlock[i] <= head

IInv ==
  /\ TypeOK
  /\ OriginalsAreMined
  /\ NumbersAreMined
  /\ Covered(processed, transactions)
  /\ \A i \in Indexers : Covered(lastBlock[i], transactions)
  /\ \A i \in Indexers : pc[i] = "save" => Covered(currentBlock[i], transactions \cup toSave[i])

-----------------------------------------------------------------------------
(* More rows cover no less, and 0 blocks are covered by any rows.          *)
LEMMA CoveredGrows ==
  ASSUME NEW n, NEW rows, NEW more, rows \subseteq more, Covered(n, rows)
  PROVE  Covered(n, more)
BY DEF Covered

LEMMA NothingToCover ==
  ASSUME NEW rows
  PROVE  Covered(0, rows)
BY DEF Covered

(* An original block that is not new was original before, with the same   *)
(* transactions, and there are no new ones after a reorganisation.         *)
LEMMA NodeKeepsOriginals ==
  ASSUME TypeOK, OriginalsAreMined, NodeMines \/ \E k \in Heights : NodeReorgs(k),
         NEW m \in Heights, fork = 1 => m <= head, Original(m)'
  PROVE  Original(m) /\ transfersOf'[m] = transfersOf[m]
<1>1. head \in Nat /\ MaxHeight \in Nat /\ MaxFork \in Nat /\ fork \in 1..MaxFork
  BY ChainAssumption DEF TypeOK, ChainTypeOK, Heights
<1>2. chain \in [Heights -> 0..MaxFork] /\ transfersOf \in [Heights -> SUBSET Txs]
  BY DEF TypeOK, ChainTypeOK
<1>3. CASE NodeMines
  <2>1. head' = head + 1 /\ head + 1 \in Heights
    BY <1>1, <1>3 DEF NodeMines, Mine, Heights
  <2>2. chain' = [chain EXCEPT ![head + 1] = fork]
    BY <1>3 DEF NodeMines, Mine
  <2>3. PICK mined : transfersOf' = [transfersOf EXCEPT ![head + 1] = mined]
    BY <1>3, <2>1 DEF NodeMines
  <2>4. m # head + 1
    BY <1>1, <1>2, <2>1, <2>2 DEF Original, Heights
  <2> QED BY <1>2, <2>2, <2>3, <2>4 DEF Original
<1>4. ASSUME NEW k \in Heights, NodeReorgs(k)
      PROVE  Original(m) /\ transfersOf'[m] = transfersOf[m]
  <2>1. chain' = [n \in Heights |-> IF n < k THEN chain[n]
                                    ELSE IF n = k THEN fork + 1 ELSE NotMined]
    BY <1>4 DEF NodeReorgs, Reorg
  <2>2. PICK mined : transfersOf' = [n \in Heights |-> IF n < k THEN transfersOf[n]
                                                       ELSE IF n = k THEN mined ELSE {}]
    BY <1>4 DEF NodeReorgs
  <2>3. m < k
    BY <1>1, <2>1 DEF Original, Heights, NotMined
  <2> QED BY <2>1, <2>2, <2>3 DEF Original
<1> QED BY <1>3, <1>4

LEMMA NodeKeepsCovered ==
  ASSUME TypeOK, OriginalsAreMined, NodeMines \/ \E k \in Heights : NodeReorgs(k),
         NEW n \in Heights, fork = 1 => n <= head, NEW rows, Covered(n, rows)
  PROVE  \A m \in 1..n : Original(m)' =>
           \A t \in transfersOf'[m] : [number |-> m, tx |-> t] \in rows
<1> SUFFICES ASSUME NEW m \in 1..n, Original(m)'
             PROVE  \A t \in transfersOf'[m] : [number |-> m, tx |-> t] \in rows
  OBVIOUS
<1>1. m \in Heights /\ (fork = 1 => m <= head)
  BY ChainAssumption DEF TypeOK, ChainTypeOK, Heights
<1>2. Original(m) /\ transfersOf'[m] = transfersOf[m]
  BY <1>1, NodeKeepsOriginals
<1> QED BY <1>2 DEF Covered

(* The node's steps preserve the invariant.                                *)
LEMMA NodePreserves ==
  ASSUME IInv, NodeMines \/ \E k \in Heights : NodeReorgs(k)
  PROVE  IInv'
<1> USE DEF IInv
<1>1. UNCHANGED <<tableVars, procVars, faults>>
  BY DEF NodeMines, NodeReorgs
<1>2. /\ processed' = processed /\ transactions' = transactions /\ pc' = pc
      /\ lastBlock' = lastBlock /\ currentBlock' = currentBlock /\ toSave' = toSave
      /\ faults' = faults
  BY <1>1 DEF tableVars, procVars
<1>3. head \in Nat /\ MaxHeight \in Nat /\ MaxFork \in Nat /\ fork \in 1..MaxFork
  BY ChainAssumption DEF TypeOK, ChainTypeOK, Heights
<1>4. TypeOK'
  <2>1. ChainTypeOK'
    <3>1. CASE NodeMines
      BY <1>3, <3>1, ChainAssumption DEF NodeMines, Mine, TypeOK, ChainTypeOK, Heights
    <3>2. ASSUME NEW k \in Heights, NodeReorgs(k)
          PROVE  ChainTypeOK'
      BY <1>3, <3>2, ChainAssumption DEF NodeReorgs, Reorg, TypeOK, ChainTypeOK, NotMined
    <3> QED BY <3>1, <3>2
  <2>2. transfersOf' \in [Heights -> SUBSET Txs]
    BY DEF NodeMines, NodeReorgs, TypeOK
  <2> QED BY <1>2, <2>1, <2>2 DEF TypeOK
<1>5. OriginalsAreMined'
  <2>1. CASE NodeMines
    BY <1>3, <2>1 DEF NodeMines, Mine, OriginalsAreMined, Original, TypeOK, ChainTypeOK, Heights
  <2>2. ASSUME NEW k \in Heights, NodeReorgs(k)
        PROVE  OriginalsAreMined'
    BY <1>3, <2>2 DEF NodeReorgs, Reorg, OriginalsAreMined, Original, NotMined, Heights
  <2> QED BY <2>1, <2>2
<1>6. NumbersAreMined'
  <2>1. CASE NodeMines
    <3>1. head' = head + 1 /\ fork' = fork
      BY <2>1 DEF NodeMines, Mine
    <3> QED BY <1>2, <1>3, <3>1 DEF NumbersAreMined, TypeOK, Heights
  <2>2. ASSUME NEW k \in Heights, NodeReorgs(k)
        PROVE  NumbersAreMined'
    <3>1. fork' = fork + 1
      BY <2>2 DEF NodeReorgs, Reorg
    <3> QED BY <1>3, <3>1 DEF NumbersAreMined
  <2> QED BY <2>1, <2>2
<1>7. Covered(processed, transactions)'
  BY <1>2, NodeKeepsCovered DEF NumbersAreMined, TypeOK, Covered
<1>8. ASSUME NEW i \in Indexers
      PROVE  Covered(lastBlock[i], transactions)'
  <2>1. lastBlock[i] \in Heights /\ (fork = 1 => lastBlock[i] <= head)
    BY DEF NumbersAreMined, TypeOK
  <2> QED BY <1>2, <2>1, NodeKeepsCovered DEF Covered
<1>9. ASSUME NEW i \in Indexers, pc'[i] = "save"
      PROVE  Covered(currentBlock[i], transactions \cup toSave[i])'
  <2>1. currentBlock[i] \in Heights /\ (fork = 1 => currentBlock[i] <= head)
    BY DEF NumbersAreMined, TypeOK
  <2>2. Covered(currentBlock[i], transactions \cup toSave[i])
    BY <1>2, <1>9
  <2> QED BY <1>2, <2>1, <2>2, NodeKeepsCovered DEF Covered
<1> QED BY <1>4, <1>5, <1>6, <1>7, <1>8, <1>9

-----------------------------------------------------------------------------
(* A step of a process leaves the node alone.                              *)
LEMMA NodeUnchanged ==
  ASSUME UNCHANGED nodeVars
  PROVE  /\ head' = head /\ fork' = fork /\ chain' = chain /\ transfersOf' = transfersOf
         /\ \A n, rows : Covered(n, rows) =>
              \A m \in 1..n : Original(m)' =>
                \A t \in transfersOf'[m] : [number |-> m, tx |-> t] \in rows
BY DEF nodeVars, chainVars, Covered, Original

(* A process begins its next turn, or starts again.                        *)
LEMMA NextTurnPreserves ==
  ASSUME IInv, NEW i \in Indexers, NextTurn(i), UNCHANGED <<nodeVars, transactions>>,
         processed' = processed \/ (pc[i] = "save" /\ toSave[i] = {} /\ processed' = currentBlock[i]),
         faults' \in 0..MaxFaults
  PROVE  IInv'
<1> USE DEF IInv
<1>1. /\ head' = head /\ fork' = fork /\ chain' = chain /\ transfersOf' = transfersOf
      /\ transactions' = transactions
  BY NodeUnchanged
<1>2. 0 \in Heights /\ head \in Nat
  BY ChainAssumption DEF TypeOK, ChainTypeOK, Heights
<1>3. TypeOK'
  BY <1>1, <1>2 DEF NextTurn, TypeOK, ChainTypeOK, Labels
<1>4. OriginalsAreMined'
  BY <1>1 DEF OriginalsAreMined, Original
<1>5. /\ \A j \in Indexers \ {i} : /\ pc'[j] = pc[j] /\ toSave'[j] = toSave[j]
                                   /\ lastBlock'[j] = lastBlock[j]
                                   /\ currentBlock'[j] = currentBlock[j]
      /\ pc'[i] = "status" /\ lastBlock'[i] = 0 /\ currentBlock'[i] = 0
  BY DEF NextTurn, TypeOK
<1>6. NumbersAreMined'
  BY <1>1, <1>2, <1>5 DEF NumbersAreMined
<1>7. Covered(processed, transactions)'
  <2>1. Covered(processed', transactions)
    <3>1. CASE processed' = processed
      BY <3>1
    <3>2. CASE pc[i] = "save" /\ toSave[i] = {} /\ processed' = currentBlock[i]
      BY <3>2, transactions \cup toSave[i] = transactions
    <3> QED BY <3>1, <3>2
  <2> QED BY <1>1, <2>1 DEF Covered, Original
<1>8. ASSUME NEW j \in Indexers
      PROVE  Covered(lastBlock[j], transactions)'
  BY <1>1, <1>5, NothingToCover DEF Covered, Original
<1>9. ASSUME NEW j \in Indexers, pc'[j] = "save"
      PROVE  Covered(currentBlock[j], transactions \cup toSave[j])'
  BY <1>1, <1>5, <1>9 DEF Covered, Original
<1> QED BY <1>3, <1>4, <1>6, <1>7, <1>8, <1>9

-----------------------------------------------------------------------------
(* Nothing is processed and nothing is read.                               *)
LEMMA InitEstablishes ==
  ASSUME Init
  PROVE  IInv
<1>1. head = 0 /\ fork = 1 /\ chain = [n \in Heights |-> IF n = 0 THEN 1 ELSE NotMined]
  BY DEF Init, ChainInit
<1>2. 0 \in Heights /\ 1 \in 1..MaxFork /\ Heights \subseteq Nat
  BY ChainAssumption DEF Heights
<1>3. TypeOK
  <2>1. ChainTypeOK
    BY <1>1, ChainAssumption DEF ChainTypeOK, NotMined, Heights
  <2>2. transfersOf \in [Heights -> SUBSET Txs] /\ toSave \in [Indexers -> SUBSET Row]
    BY DEF Init
  <2>3. faults \in 0..MaxFaults
    BY EventIndexerAssumption DEF Init
  <2> QED BY <1>2, <2>1, <2>2, <2>3 DEF Init, TypeOK, Labels
<1>4. OriginalsAreMined
  BY <1>1, <1>2 DEF OriginalsAreMined, Original, NotMined
<1>5. NumbersAreMined
  BY <1>1 DEF Init, NumbersAreMined
<1>6. Covered(processed, transactions) /\ \A i \in Indexers : Covered(lastBlock[i], transactions)
  BY NothingToCover DEF Init
<1>7. \A i \in Indexers : pc[i] # "save"
  BY DEF Init
<1> QED BY <1>3, <1>4, <1>5, <1>6, <1>7 DEF IInv

(* Every step preserves the invariant.                                     *)
LEMMA NextPreserves ==
  ASSUME IInv, [Next]_vars
  PROVE  IInv'
<1>1. CASE UNCHANGED vars
  BY <1>1 DEF vars, nodeVars, chainVars, tableVars, procVars, IInv, TypeOK, ChainTypeOK,
              OriginalsAreMined, NumbersAreMined, Covered, Original
<1>2. CASE NodeMines \/ \E k \in Heights : NodeReorgs(k)
  BY <1>2, NodePreserves
<1>3. ASSUME NEW i \in Indexers, ReadStatus(i)
      PROVE  IInv'
  <2> USE DEF IInv
  <2>1. /\ head' = head /\ fork' = fork /\ chain' = chain /\ transfersOf' = transfersOf
        /\ transactions' = transactions /\ processed' = processed
        /\ currentBlock' = currentBlock /\ toSave' = toSave /\ faults' = faults
    BY <1>3 DEF ReadStatus, nodeVars, chainVars, tableVars
  <2>2. /\ lastBlock' = [lastBlock EXCEPT ![i] = processed]
        /\ pc' = [pc EXCEPT ![i] = "head"]
    BY <1>3 DEF ReadStatus
  <2>3. TypeOK'
    BY <2>1, <2>2 DEF TypeOK, ChainTypeOK, Labels
  <2>4. OriginalsAreMined' /\ NumbersAreMined'
    BY <2>1, <2>2 DEF OriginalsAreMined, NumbersAreMined, Original, TypeOK
  <2>5. Covered(processed, transactions)'
    BY <2>1 DEF Covered, Original
  <2>6. ASSUME NEW j \in Indexers
        PROVE  Covered(lastBlock[j], transactions)'
    <3>1. lastBlock'[j] = lastBlock[j] \/ lastBlock'[j] = processed
      BY <2>2 DEF TypeOK
    <3> QED BY <2>1, <3>1 DEF Covered, Original
  <2>7. ASSUME NEW j \in Indexers, pc'[j] = "save"
        PROVE  Covered(currentBlock[j], transactions \cup toSave[j])'
    <3>1. pc[j] = "save"
      BY <2>2, <2>7 DEF TypeOK
    <3> QED BY <2>1, <3>1 DEF Covered, Original
  <2> QED BY <2>3, <2>4, <2>5, <2>6, <2>7
<1>4. ASSUME NEW i \in Indexers, ReadHead(i)
      PROVE  IInv'
  <2> USE DEF IInv
  <2>1. CASE NextTurn(i)
    BY <1>4, <2>1, NextTurnPreserves DEF ReadHead, tableVars, TypeOK
  <2>2. CASE ~ NextTurn(i)
    <3>1. /\ head' = head /\ fork' = fork /\ chain' = chain /\ transfersOf' = transfersOf
          /\ transactions' = transactions /\ processed' = processed
          /\ lastBlock' = lastBlock /\ toSave' = toSave /\ faults' = faults
      BY <1>4, <2>2 DEF ReadHead, nodeVars, chainVars, tableVars
    <3>2. /\ currentBlock' = [currentBlock EXCEPT ![i] = head]
          /\ pc' = [pc EXCEPT ![i] = "logs"]
      BY <1>4, <2>2 DEF ReadHead
    <3>3. TypeOK'
      BY <3>1, <3>2 DEF TypeOK, ChainTypeOK, Labels
    <3>4. OriginalsAreMined' /\ NumbersAreMined'
      BY <3>1, <3>2, ChainAssumption
         DEF OriginalsAreMined, NumbersAreMined, Original, TypeOK, ChainTypeOK, Heights
    <3>5. Covered(processed, transactions)' /\ \A j \in Indexers : Covered(lastBlock[j], transactions)'
      BY <3>1 DEF Covered, Original
    <3>6. ASSUME NEW j \in Indexers, pc'[j] = "save"
          PROVE  Covered(currentBlock[j], transactions \cup toSave[j])'
      <4>1. pc[j] = "save" /\ currentBlock'[j] = currentBlock[j]
        BY <3>2, <3>6 DEF TypeOK
      <4> QED BY <3>1, <4>1 DEF Covered, Original
    <3> QED BY <3>3, <3>4, <3>5, <3>6
  <2> QED BY <2>1, <2>2
<1>5. ASSUME NEW i \in Indexers, FetchLogs(i)
      PROVE  IInv'
  <2> USE DEF IInv
  <2> DEFINE logs == LogsIn(FromBlock(lastBlock[i]), currentBlock[i])
  <2>1. CASE NextTurn(i)
    BY <1>5, <2>1, NextTurnPreserves DEF FetchLogs, tableVars, TypeOK
  <2>2. CASE ~ NextTurn(i)
    <3>1. /\ head' = head /\ fork' = fork /\ chain' = chain /\ transfersOf' = transfersOf
          /\ transactions' = transactions /\ processed' = processed
          /\ lastBlock' = lastBlock /\ currentBlock' = currentBlock /\ faults' = faults
      BY <1>5, <2>2 DEF FetchLogs, nodeVars, chainVars, tableVars
    <3>2. /\ toSave' = [toSave EXCEPT ![i] = logs]
          /\ pc' = [pc EXCEPT ![i] = "save"]
      BY <1>5, <2>2 DEF FetchLogs
    <3>3. logs \subseteq Row
      BY DEF LogsIn
    <3>4. TypeOK'
      BY <3>1, <3>2, <3>3 DEF TypeOK, ChainTypeOK, Labels
    <3>5. OriginalsAreMined' /\ NumbersAreMined'
      BY <3>1 DEF OriginalsAreMined, NumbersAreMined, Original
    <3>6. Covered(processed, transactions)' /\ \A j \in Indexers : Covered(lastBlock[j], transactions)'
      BY <3>1 DEF Covered, Original
    <3>7. Covered(currentBlock[i], transactions \cup logs)
      <4> SUFFICES ASSUME NEW m \in 1..currentBlock[i], Original(m), NEW t \in transfersOf[m]
                   PROVE  [number |-> m, tx |-> t] \in transactions \cup logs
        BY DEF Covered
      <4>1. /\ lastBlock[i] \in Nat /\ currentBlock[i] \in Nat /\ MaxHeight \in Nat
            /\ currentBlock[i] <= MaxHeight
        BY ChainAssumption DEF TypeOK, Heights
      <4>2. m \in Heights /\ m <= head
        BY <4>1 DEF Heights, OriginalsAreMined
      <4>3. CASE m <= lastBlock[i]
        BY <4>1, <4>3 DEF Covered
      <4>4. CASE m > lastBlock[i]
        <5>1. m \in FromBlock(lastBlock[i])..currentBlock[i]
          BY <4>1, <4>4 DEF FromBlock
        <5>2. [number |-> m, tx |-> t] \in Row
          BY <4>2 DEF Row, TypeOK
        <5> QED BY <4>2, <5>1, <5>2 DEF LogsIn
      <4> QED BY <4>1, <4>3, <4>4
    <3>8. ASSUME NEW j \in Indexers, pc'[j] = "save"
          PROVE  Covered(currentBlock[j], transactions \cup toSave[j])'
      <4> HIDE DEF logs
      <4>1. CASE j = i
        <5>1. toSave'[i] = logs
          BY <3>2 DEF TypeOK
        <5> QED BY <3>1, <3>7, <4>1, <5>1 DEF Covered, Original
      <4>2. CASE j # i
        <5>1. pc[j] = "save" /\ toSave'[j] = toSave[j]
          BY <3>2, <3>8, <4>2 DEF TypeOK
        <5> QED BY <3>1, <5>1 DEF Covered, Original
      <4> QED BY <4>1, <4>2
    <3> QED BY <3>4, <3>5, <3>6, <3>8
  <2> QED BY <2>1, <2>2
<1>6. ASSUME NEW i \in Indexers, NEW row \in Row, SaveTransaction(i, row)
      PROVE  IInv'
  <2> USE DEF IInv
  <2>1. /\ head' = head /\ fork' = fork /\ chain' = chain /\ transfersOf' = transfersOf
        /\ processed' = processed /\ pc' = pc /\ faults' = faults
        /\ lastBlock' = lastBlock /\ currentBlock' = currentBlock
        /\ transactions' = transactions \cup {row}
        /\ toSave' = [toSave EXCEPT ![i] = toSave[i] \ {row}]
    BY <1>6 DEF SaveTransaction, nodeVars, chainVars
  <2>2. TypeOK'
    BY <2>1 DEF TypeOK, ChainTypeOK
  <2>3. OriginalsAreMined' /\ NumbersAreMined'
    BY <2>1 DEF OriginalsAreMined, NumbersAreMined, Original
  <2>4. Covered(processed, transactions)' /\ \A j \in Indexers : Covered(lastBlock[j], transactions)'
    BY <2>1 DEF Covered, Original
  <2>5. ASSUME NEW j \in Indexers, pc'[j] = "save"
        PROVE  Covered(currentBlock[j], transactions \cup toSave[j])'
    <3>1. transactions \cup toSave[j] \subseteq transactions' \cup toSave'[j]
      BY <2>1 DEF TypeOK
    <3>2. Covered(currentBlock[j], transactions \cup toSave[j])
      BY <2>1, <2>5
    <3>3. Covered(currentBlock[j], transactions' \cup toSave'[j])
      BY <3>1, <3>2, CoveredGrows
    <3> QED BY <2>1, <3>3 DEF Covered, Original
  <2> QED BY <2>2, <2>3, <2>4, <2>5
<1>7. ASSUME NEW i \in Indexers, NEW row \in Row, SaveConflicts(i, row)
      PROVE  IInv'
  BY <1>7, NextTurnPreserves DEF SaveConflicts, tableVars, IInv, TypeOK
<1>8. ASSUME NEW i \in Indexers, UpdateProgress(i)
      PROVE  IInv'
  BY <1>8, NextTurnPreserves DEF UpdateProgress, IInv, TypeOK
<1>9. ASSUME NEW i \in Indexers, Crash(i)
      PROVE  IInv'
  <2>1. faults' \in 0..MaxFaults
    BY <1>9, EventIndexerAssumption DEF Crash, Fault, IInv, TypeOK
  <2> QED BY <1>9, <2>1, NextTurnPreserves DEF Crash, tableVars
<1> QED BY <1>1, <1>2, <1>3, <1>4, <1>5, <1>6, <1>7, <1>8, <1>9 DEF Next, Poll, Save

-----------------------------------------------------------------------------
(* The inductive invariant holds in every behaviour.                       *)
THEOREM EventIndexerInvariant == Spec => []IInv
<1> QED BY InitEstablishes, NextPreserves, PTL DEF Spec

(* Every variable keeps its type, for any processes, transactions, bounds. *)
THEOREM EventIndexerTypeCorrect == Spec => []TypeOK
<1>1. IInv => TypeOK
  BY DEF IInv
<1> QED BY <1>1, EventIndexerInvariant, PTL

(* event-indexer.ts: no event of a block that was never replaced is lost   *)
(* behind last_processed_block, however processes overlap and crash.       *)
THEOREM NoEventIsSkipped == Spec => []NothingIsSkipped
<1>1. IInv => NothingIsSkipped
  BY DEF IInv, NothingIsSkipped, Covered
<1> QED BY <1>1, EventIndexerInvariant, PTL
=============================================================================
