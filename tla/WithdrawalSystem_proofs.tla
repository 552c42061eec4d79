----------------------- MODULE WithdrawalSystem_proofs -----------------------
(***************************************************************************)
(* For any withdrawals, chains and confirmation thresholds, and any number *)
(* of sweepers and workers: what the confirmation watcher keeps, alone and *)
(* with the payout job.                                                    *)
(***************************************************************************)
EXTENDS WithdrawalSystem, PayoutJob_proofs

USE DEF Put, InFlight, Terminal, Statuses, Reasons, Refunds, Row

LEMMA ChainType ==
  ASSUME NEW w \in Withdrawals PROVE ChainOf(w) \in Chains
BY DEF ChainOf, Chains

(* What users, admins and the payout job do to a row.                       *)
Unpaid == {"none", "queued", "processing", "hold"}
OthersTables == UserStep \/ AdminStep \/ JobTables

LEMMA OthersRow ==
  ASSUME TableInv, OthersTables, NEW w \in Withdrawals
  PROVE  \/ row'[w] = row[w]
         \/ /\ row[w].status \in Unpaid /\ row'[w].conf = row[w].conf
            /\ \/ /\ row'[w].ref = row[w].ref
                  /\ row'[w].status \in
                       {"queued", "processing", "hold", "failed", "rejected"}
               \/ /\ row'[w].ref
                  /\ row'[w].status = IF IsOnchain(w) THEN "broadcast"
                                                      ELSE "sent"
<1> DEFINE Goal ==
      \/ row'[w] = row[w]
      \/ /\ row[w].status \in Unpaid /\ row'[w].conf = row[w].conf
         /\ \/ /\ row'[w].ref = row[w].ref
               /\ row'[w].status \in
                    {"queued", "processing", "hold", "failed", "rejected"}
            \/ /\ row'[w].ref
               /\ row'[w].status = IF IsOnchain(w) THEN "broadcast"
                                                   ELSE "sent"
<1> SUFFICES Goal OBVIOUS
<1>0. row \in [Withdrawals -> Row] BY DEF TableInv, TableTypeOK
<1>1. CASE UNCHANGED row BY <1>1
<1>2. ASSUME NEW v \in Withdrawals, NEW record \in Row, Put(v, record),
             row[v].status \in Unpaid, record.conf = row[v].conf,
             \/ /\ record.ref = row[v].ref
                /\ record.status \in
                     {"queued", "processing", "hold", "failed", "rejected"}
             \/ /\ record.ref
                /\ record.status = IF IsOnchain(v) THEN "broadcast"
                                                   ELSE "sent"
      PROVE  Goal
  BY <1>0, <1>2
<1>3. ASSUME NEW v \in Withdrawals, RequestCommit(v) PROVE Goal
  <2> DEFINE held == [row[v] EXCEPT !.status = "hold", !.review = TRUE]
             queued == [row[v] EXCEPT !.status = "queued",
                                      !.review = FALSE]
  <2>1. /\ held \in Row /\ held.status = "hold"
        /\ held.conf = row[v].conf /\ held.ref = row[v].ref
        /\ queued \in Row /\ queued.status = "queued"
        /\ queued.conf = row[v].conf /\ queued.ref = row[v].ref
    BY <1>0
  <2>2. Put(v, held) \/ Put(v, queued) BY <1>3 DEF RequestCommit
  <2>3. row[v].status = "none"
    BY <1>3 DEF RequestCommit, TableInv, RequestHasNoRow
  <2> HIDE DEF held, queued, Put, Goal
  <2>4. QED BY <1>2, <2>1, <2>2, <2>3 DEF Unpaid
<1>4. ASSUME NEW v \in Withdrawals, Approve(v) \/ ClaimRow(v) PROVE Goal
  <2> DEFINE approved == [row[v] EXCEPT !.status = "queued",
                                        !.review = FALSE]
             claimed == [row[v] EXCEPT !.status = "processing"]
  <2>1. /\ approved \in Row /\ approved.status = "queued"
        /\ approved.conf = row[v].conf /\ approved.ref = row[v].ref
        /\ claimed \in Row /\ claimed.status = "processing"
        /\ claimed.conf = row[v].conf /\ claimed.ref = row[v].ref
    BY <1>0
  <2>2. /\ Put(v, approved) \/ Put(v, claimed)
        /\ row[v].status \in Unpaid
    BY <1>4 DEF Approve, ClaimRow, Unpaid
  <2> HIDE DEF approved, claimed, Put, Goal
  <2>3. QED BY <1>2, <2>1, <2>2
<1>5. ASSUME NEW v \in Withdrawals, NEW reason \in Refunds,
             NEW status \in {"failed", "rejected"},
             row[v].status \in Unpaid, ReturnFunds(v, reason, status)
      PROVE  Goal
  <2> DEFINE record == [row[v] EXCEPT !.status = status,
                                      !.review = @ /\ status # "rejected"]
  <2>1. /\ record \in Row /\ record.status = status
        /\ record.conf = row[v].conf /\ record.ref = row[v].ref
    BY <1>0
  <2>2. Put(v, record) BY <1>5 DEF ReturnFunds
  <2> HIDE DEF record, Put, Goal
  <2>3. QED BY <1>2, <1>5, <2>1, <2>2
<1>6. ASSUME NEW v \in Withdrawals, SettleSent(v) PROVE Goal
  <2> DEFINE record ==
        [row[v] EXCEPT
           !.status = IF IsOnchain(v) THEN "broadcast" ELSE "sent",
           !.ref = TRUE]
  <2>1. /\ record \in Row /\ record.conf = row[v].conf /\ record.ref
        /\ record.status = IF IsOnchain(v) THEN "broadcast" ELSE "sent"
    BY <1>0
  <2>2. Put(v, record) /\ row[v].status \in Unpaid
    BY <1>6 DEF SettleSent, SettleUnguarded, Unpaid
  <2> HIDE DEF record, Put, Goal
  <2>3. QED BY <1>2, <2>1, <2>2
<1> HIDE DEF Goal
<1>7. CASE UserStep
  BY <1>1, <1>3, <1>7 DEF UserStep, RequestCheck, RequestAbort
<1>8. CASE AdminStep
  BY <1>4, <1>5, <1>8 DEF AdminStep, Reject, Rejectable, Unpaid
<1>9. CASE JobTables
  BY <1>1, <1>4, <1>5, <1>6, <1>9
  DEF JobTables, JobTransaction, MarkFailedAndRefund, FailUnguarded,
      Unpaid, tableVars
<1>10. QED BY <1>7, <1>8, <1>9 DEF OthersTables

----------------------------------------------------------------------------
(* The watcher, whether its lock outlasts a sweep or not.                   *)

HeightsBelow == \A c \in Chains : height[c] \in 1..MaxHeight
MinedBelow ==
    \A w \in Withdrawals :
        /\ mined[w] <= height[ChainOf(w)]
        /\ mined[w] # 0 => row[w].ref /\ IsOnchain(w)
        /\ reverted[w] => mined[w] # 0
RefMeansPaidOut ==
    \A w \in Withdrawals :
        row[w].ref => row[w].status \in {"broadcast", "sent", "failed"}

(* What a sweeper remembers is still so, or was a block ago: a row keeps    *)
(* its reference and a transaction its block, and chains only grow.         *)
Memory(s) ==
    s.pc # "idle" =>
        /\ \A w \in s.todo : IsOnchain(w) /\ row[w].ref
        /\ s.chain # "none" => s.head <= height[s.chain]
        /\ s.pc = "write" =>
             /\ s.row \in s.todo /\ s.chain = ChainOf(s.row)
             /\ mined[s.row] # 0
             /\ s.conf = Depth(s.head, mined[s.row])
             /\ s.bad = reverted[s.row]

WatchInv ==
    /\ TableInv /\ WatchTypeOK /\ HeightsBelow /\ MinedBelow
    /\ RefMeansPaidOut /\ RefundedOnlyIfReverted
    /\ \A k \in Sweepers : Memory(sweep[k])

WatchTypes ==
    /\ row \in [Withdrawals -> Row]
    /\ height \in [Chains -> Nat] /\ mined \in [Withdrawals -> Nat]
    /\ reverted \in [Withdrawals -> BOOLEAN]
    /\ sweep \in [Sweepers -> Sweep]

LEMMA WatchTyped == ASSUME WatchInv PROVE WatchTypes
BY DEF WatchInv, WatchTypeOK, TableTypeOK, WatchTypes

(* A count is one that the tables know.                                     *)
LEMMA CountKnown ==
  ASSUME WatchInv, NEW k \in Sweepers, sweep[k].pc = "write"
  PROVE  /\ sweep[k].row \in Withdrawals /\ IsOnchain(sweep[k].row)
         /\ row[sweep[k].row].ref
         /\ sweep[k].conf \in Confirmations
<1>1. WatchTypes /\ Memory(sweep[k]) /\ HeightsBelow
  BY WatchTyped DEF WatchInv
<1>2. /\ sweep[k] \in Sweep /\ sweep[k].row \in sweep[k].todo
      /\ sweep[k].todo \subseteq Withdrawals
      /\ sweep[k].head \in Nat
  BY <1>1 DEF Memory, WatchTypes, Sweep
<1>3. /\ IsOnchain(sweep[k].row) /\ row[sweep[k].row].ref
      /\ mined[sweep[k].row] \in Nat \ {0}
      /\ sweep[k].chain \in Chains /\ sweep[k].chain # "none"
  BY <1>1, <1>2, ChainType DEF Memory, WatchTypes, Chains
<1>4. sweep[k].head <= MaxHeight
  BY <1>1, <1>2, <1>3, WatchAssumption DEF Memory, HeightsBelow
<1>5. sweep[k].conf \in 0..MaxHeight
  BY <1>1, <1>2, <1>3, <1>4, WatchAssumption DEF Memory, Depth
<1>6. QED BY <1>2, <1>3, <1>5, CountsAssumption

LEMMA WriteTables ==
  ASSUME WatchInv, NEW k \in Sweepers, WriteRow(k)
  PROVE  /\ sweep[k].pc = "write"
         /\ sweep[k].row \in Withdrawals
         /\ sweep[k].conf \in Confirmations
         /\ \/ UNCHANGED tableVars
            \/ /\ ~ sweep[k].bad
               /\ \/ RecordConfirmations(sweep[k].row, sweep[k].conf)
                  \/ Promote(sweep[k].row, sweep[k].conf)
            \/ /\ sweep[k].bad
               /\ RefundReverted(sweep[k].row, sweep[k].conf)
<1>1. sweep[k].pc = "write" BY DEF WriteRow
<1>2. QED BY <1>1, CountKnown DEF WriteRow, Finalise

LEMMA WatchTables ==
  ASSUME WatchInv, WatchStep
  PROVE  /\ [TableNext]_tableVars
         /\ UNCHANGED tableVars \/ \E k \in Sweepers : WriteRow(k)
<1>1. UNCHANGED tableVars \/ \E k \in Sweepers : WriteRow(k)
  <2>1. ASSUME NEW k \in Sweepers, SweepStep(k) \/ SweepDies(k)
        PROVE  UNCHANGED tableVars \/ WriteRow(k)
    BY <2>1 DEF SweepStep, SweepStart, FetchHead, SkipRow, LookUp, SweepEnd,
       SweepDies
  <2>2. ASSUME NEW c \in Chains, NewBlock(c) PROVE UNCHANGED tableVars
    BY <2>2 DEF NewBlock
  <2>3. CASE WatchLockExpires BY <2>3 DEF WatchLockExpires
  <2>4. UsedChains \subseteq Chains BY ChainType DEF UsedChains
  <2>5. QED BY <2>1, <2>2, <2>3, <2>4 DEF WatchStep
<1>2. ASSUME NEW k \in Sweepers, WriteRow(k) PROVE [TableNext]_tableVars
  BY <1>2, WriteTables DEF TableNext, WatcherTransaction
<1>3. QED BY <1>1, <1>2

(* What a sweep does to a row.                                              *)
Writes(k, w) ==
    /\ WriteRow(k) /\ sweep[k].pc = "write" /\ sweep[k].row = w
    /\ row'[w].ref = row[w].ref /\ row'[w].conf = sweep[k].conf
    /\ \/ ~ sweep[k].bad /\ row'[w].status = row[w].status
       \/ /\ ~ sweep[k].bad
          /\ row[w].status = "broadcast" /\ row'[w].status = "sent"
          /\ sweep[k].conf >= Finality[Method[w]]
       \/ /\ sweep[k].bad
          /\ row[w].status = "broadcast" /\ row'[w].status = "failed"

LEMMA WatchRow ==
  ASSUME WatchInv, WatchStep, NEW w \in Withdrawals
  PROVE  row'[w] = row[w] \/ \E k \in Sweepers : Writes(k, w)
<1>0. row \in [Withdrawals -> Row] BY WatchTyped DEF WatchTypes
<1>1. ASSUME NEW k \in Sweepers, WriteRow(k)
      PROVE  row'[w] = row[w] \/ Writes(k, w)
  <2>1. /\ sweep[k].pc = "write" /\ sweep[k].row \in Withdrawals
        /\ sweep[k].conf \in Nat
    BY <1>1, WriteTables, ConfirmationsAssumption
  <2>2. PICK v \in Withdrawals : v = sweep[k].row BY <2>1
  <2>3. PICK n \in Nat : n = sweep[k].conf BY <2>1
  <2>4. CASE UNCHANGED tableVars BY <2>4 DEF tableVars
  <2>5. CASE ~ sweep[k].bad /\ RecordConfirmations(v, n)
    <3>1. /\ \A u \in Withdrawals : u # v => row'[u] = row[u]
          /\ row'[v].ref = row[v].ref /\ row'[v].conf = n
          /\ row'[v].status = row[v].status
      BY <1>0, <2>5 DEF RecordConfirmations
    <3>2. QED BY <1>1, <2>1, <2>2, <2>3, <2>5, <3>1 DEF Writes
  <2>6. CASE ~ sweep[k].bad /\ Promote(v, n)
    <3>1. /\ \A u \in Withdrawals : u # v => row'[u] = row[u]
          /\ row'[v].ref = row[v].ref /\ row'[v].conf = n
          /\ row[v].status = "broadcast" /\ row'[v].status = "sent"
          /\ n >= Finality[Method[v]]
      BY <1>0, <2>6 DEF Promote
    <3>2. QED BY <1>1, <2>1, <2>2, <2>3, <2>6, <3>1 DEF Writes
  <2>7. CASE sweep[k].bad /\ RefundReverted(v, n)
    <3>1. /\ \A u \in Withdrawals : u # v => row'[u] = row[u]
          /\ row'[v].ref = row[v].ref /\ row'[v].conf = n
          /\ row[v].status = "broadcast" /\ row'[v].status = "failed"
      BY <1>0, <2>7 DEF RefundReverted
    <3>2. QED BY <1>1, <2>1, <2>2, <2>3, <2>7, <3>1 DEF Writes
  <2>8. QED BY <1>1, <2>2, <2>3, <2>4, <2>5, <2>6, <2>7, WriteTables
<1>2. QED BY <1>1, WatchTables DEF tableVars

(* References and blocks stay, and chains grow.                             *)
Grows ==
    /\ \A w \in Withdrawals :
         /\ row[w].ref => row'[w].ref
         /\ mined[w] # 0 => mined'[w] = mined[w] /\ reverted'[w] = reverted[w]
    /\ \A c \in Chains : height[c] <= height'[c]

LEMMA MemoryKept ==
  ASSUME WatchTypes, WatchTypes', Grows, NEW s \in Sweep, Memory(s)
  PROVE  Memory(s)'
<1> SUFFICES ASSUME s.pc # "idle"
    PROVE  /\ \A w \in s.todo : IsOnchain(w) /\ row'[w].ref
           /\ s.chain # "none" => s.head <= height'[s.chain]
           /\ s.pc = "write" =>
                /\ s.row \in s.todo /\ s.chain = ChainOf(s.row)
                /\ mined'[s.row] # 0
                /\ s.conf = Depth(s.head, mined'[s.row])
                /\ s.bad = reverted'[s.row]
  BY DEF Memory, Depth
<1>1. s.todo \subseteq Withdrawals /\ s.chain \in Chains \cup {"none"}
      /\ s.head \in Nat
  BY DEF Sweep
<1>2. \A w \in s.todo : IsOnchain(w) /\ row'[w].ref
  BY <1>1 DEF Memory, Grows
<1>3. s.chain # "none" => s.head <= height'[s.chain]
  BY <1>1 DEF Memory, Grows, WatchTypes
<1>4. s.pc = "write" => s.row \in Withdrawals /\ mined'[s.row] = mined[s.row]
                        /\ reverted'[s.row] = reverted[s.row]
  BY <1>1 DEF Memory, Grows
<1>5. QED BY <1>2, <1>3, <1>4 DEF Memory

LEMMA OthersGrow ==
  ASSUME WatchInv, OthersTables, UNCHANGED chainVars
  PROVE  Grows
<1>1. WatchTypes BY WatchTyped
<1>2. \A c \in Chains : height[c] <= height'[c]
  BY <1>1 DEF chainVars, WatchTypes
<1>3. ASSUME NEW w \in Withdrawals, row[w].ref PROVE row'[w].ref
  <2>1. row[w].status \notin Unpaid
    BY <1>3 DEF WatchInv, RefMeansPaidOut, Unpaid
  <2>2. row'[w] = row[w] BY <2>1, OthersRow DEF WatchInv
  <2>3. QED BY <1>3, <2>2
<1>4. QED BY <1>2, <1>3 DEF Grows, chainVars

LEMMA WatchGrows == ASSUME WatchInv, WatchStep PROVE Grows
<1>0. WatchTypes /\ MinedBelow BY WatchTyped DEF WatchInv
<1>1. \A w \in Withdrawals : row[w].ref => row'[w].ref
  BY WatchRow DEF Writes
<1>2. ASSUME NEW c \in Chains, NewBlock(c) PROVE Grows
  <2>1. \A d \in Chains : height[d] <= height'[d]
    BY <1>0, <1>2 DEF NewBlock, WatchTypes
  <2>2. ASSUME NEW w \in Withdrawals, mined[w] # 0
        PROVE  mined'[w] = mined[w] /\ reverted'[w] = reverted[w]
    BY <1>0, <1>2, <2>2 DEF NewBlock, WatchTypes
  <2>3. QED BY <1>1, <2>1, <2>2 DEF Grows
<1>3. CASE UNCHANGED chainVars
  BY <1>0, <1>1, <1>3 DEF chainVars, Grows, WatchTypes
<1>4. ASSUME NEW k \in Sweepers, SweepStep(k) \/ SweepDies(k)
      PROVE  UNCHANGED chainVars
  BY <1>4 DEF SweepStep, SweepStart, FetchHead, SkipRow, LookUp, SweepEnd,
     SweepDies, WriteRow
<1>5. CASE WatchLockExpires BY <1>3, <1>5 DEF WatchLockExpires
<1>6. UsedChains \subseteq Chains BY ChainType DEF UsedChains
<1>7. QED BY <1>2, <1>3, <1>4, <1>5, <1>6 DEF WatchStep

LEMMA HeadKnown ==
  ASSUME WatchInv, NEW k \in Sweepers, NEW w \in RowsOn(k, sweep[k].chain)
  PROVE  /\ w \in sweep[k].todo /\ w \in Withdrawals
         /\ sweep[k].chain = ChainOf(w) /\ sweep[k].chain \in Chains
  BY WatchTyped, ChainType DEF RowsOn, WatchTypes, Sweep

(* The chains and the sweepers keep their types.                            *)
LEMMA SweepTypes ==
  ASSUME WatchInv, WatchStep
  PROVE  sweep' \in [Sweepers -> Sweep] /\ watchLock' \in BOOLEAN
<1>0. WatchTypes /\ watchLock \in BOOLEAN
  BY WatchTyped DEF WatchInv, WatchTypeOK
<1>1. sweep \in [Sweepers -> Sweep] BY <1>0 DEF WatchTypes
<1>2. Idle \in Sweep BY DEF Idle, Sweep
<1>3. ASSUME NEW k \in Sweepers, NEW s \in Sweep,
             sweep' = [sweep EXCEPT ![k] = s]
      PROVE  sweep' \in [Sweepers -> Sweep]
  BY <1>1, <1>3
<1>4. ASSUME NEW k \in Sweepers, SweepStart(k)
      PROVE  sweep' \in [Sweepers -> Sweep]
  <2> DEFINE rows == {w \in Withdrawals : /\ row[w].status = "broadcast"
                                          /\ IsOnchain(w) /\ row[w].ref}
             seen == [w \in Withdrawals |-> row[w].conf]
             s == [Idle EXCEPT !.pc = "rows", !.todo = rows, !.seen = seen]
  <2>1. rows \subseteq Withdrawals /\ seen \in [Withdrawals -> Nat]
    BY <1>0 DEF WatchTypes
  <2> HIDE DEF rows, seen
  <2>2. s \in Sweep BY <2>1 DEF Idle, Sweep
  <2>3. sweep' = [sweep EXCEPT ![k] = s]
    BY <1>4 DEF SweepStart, rows, seen
  <2> HIDE DEF s
  <2>4. QED BY <1>3, <2>2, <2>3
<1>5. ASSUME NEW k \in Sweepers, NEW c \in Chains, FetchHead(k, c)
      PROVE  sweep' \in [Sweepers -> Sweep]
  <2> DEFINE found == [sweep[k] EXCEPT !.chain = c, !.head = height[c]]
             left == [sweep[k] EXCEPT !.todo = @ \ RowsOn(k, c)]
  <2>1. found \in Sweep /\ left \in Sweep
    BY ZenonT(60), <1>0, <1>1 DEF Sweep, WatchTypes
  <2>2. \/ sweep' = [sweep EXCEPT ![k] = found]
        \/ sweep' = [sweep EXCEPT ![k] = left]
    BY <1>1, <1>5 DEF FetchHead
  <2> HIDE DEF found, left
  <2>3. QED BY <1>3, <2>1, <2>2
<1>6. ASSUME NEW k \in Sweepers, NEW w \in Withdrawals,
             SkipRow(k, w) \/ LookUp(k, w)
      PROVE  sweep' \in [Sweepers -> Sweep]
  <2> DEFINE n == Depth(sweep[k].head, mined[w])
             bad == reverted[w]
             left == [sweep[k] EXCEPT !.todo = @ \ {w}]
             s == [sweep[k] EXCEPT !.pc = "write", !.row = w, !.conf = n,
                                   !.bad = bad]
  <2>1. n \in Nat /\ bad \in BOOLEAN
    BY <1>0, <1>1 DEF Depth, WatchTypes, Sweep
  <2>2. \/ sweep' = [sweep EXCEPT ![k] = left]
        \/ sweep' = [sweep EXCEPT ![k] = s]
    BY <1>1, <1>6 DEF SkipRow, LookUp
  <2> HIDE DEF n, bad
  <2>3. left \in Sweep /\ s \in Sweep
    BY <1>1, <2>1 DEF Sweep
  <2> HIDE DEF left, s
  <2>4. QED BY <1>3, <2>2, <2>3
<1>7. ASSUME NEW k \in Sweepers, WriteRow(k)
      PROVE  sweep' \in [Sweepers -> Sweep]
  <2> DEFINE s == [sweep[k] EXCEPT
                     !.pc = "rows", !.todo = @ \ {sweep[k].row},
                     !.row = "none", !.conf = 0, !.bad = FALSE]
  <2>1. s \in Sweep BY <1>1 DEF Sweep
  <2>2. sweep' = [sweep EXCEPT ![k] = s]
    BY <1>1, <1>7 DEF WriteRow, NextRow
  <2> HIDE DEF s
  <2>3. QED BY <1>3, <2>1, <2>2
<1>8. ASSUME NEW k \in Sweepers, SweepEnd(k) \/ SweepDies(k)
      PROVE  sweep' \in [Sweepers -> Sweep]
  BY <1>2, <1>3, <1>8 DEF SweepEnd, SweepDies
<1>9. watchLock' \in BOOLEAN
  BY ZenonT(60), <1>0
  DEF WatchStep, SweepStep, SweepStart, FetchHead, SkipRow, LookUp, SweepEnd,
      SweepDies, WatchLockExpires, NewBlock, WriteRow
<1>10. CASE UNCHANGED sweep BY <1>1, <1>9, <1>10
<1>11. QED
  BY <1>4, <1>5, <1>6, <1>7, <1>8, <1>9, <1>10
  DEF WatchStep, SweepStep, WatchLockExpires, NewBlock

(* What the acting sweeper remembers after its step.                        *)
LEMMA SweepMemory ==
  ASSUME WatchInv, WatchTypes', WatchStep, NEW k \in Sweepers
  PROVE  Memory(sweep[k])'
<1>0. /\ WatchTypes /\ Grows /\ sweep[k] \in Sweep /\ sweep'[k] \in Sweep
      /\ Memory(sweep[k])
  BY WatchTyped, WatchGrows DEF WatchTypes, WatchInv
<1> DEFINE Kept == /\ \A w \in sweep'[k].todo : IsOnchain(w) /\ row'[w].ref
                   /\ sweep'[k].chain # "none"
                        => sweep'[k].head <= height'[sweep'[k].chain]
                   /\ sweep'[k].pc = "write" =>
                        /\ sweep'[k].row \in sweep'[k].todo
                        /\ sweep'[k].chain = ChainOf(sweep'[k].row)
                        /\ mined'[sweep'[k].row] # 0
                        /\ sweep'[k].conf
                             = Depth(sweep'[k].head, mined'[sweep'[k].row])
                        /\ sweep'[k].bad = reverted'[sweep'[k].row]
<1>1. Kept => Memory(sweep[k])' BY DEF Memory, Depth
<1> HIDE DEF Kept
<1>2. CASE sweep'[k] = sweep[k]
  <2>1. PICK s \in Sweep : s = sweep[k] BY <1>0
  <2>2. Memory(s) BY <1>0, <2>1
  <2>3. Memory(s)' BY <1>0, <2>2, MemoryKept
  <2>4. QED BY <1>2, <2>1, <2>3
<1>3. CASE sweep'[k].pc = "idle" BY <1>3 DEF Memory
<1>4. CASE SweepStart(k)
  <2>1. /\ sweep'[k].pc = "rows" /\ sweep'[k].chain = "none"
        /\ \A w \in sweep'[k].todo : IsOnchain(w) /\ row[w].ref
        /\ row' = row
    BY <1>0, <1>4 DEF SweepStart, Idle, tableVars, WatchTypes
  <2>2. Kept BY <2>1 DEF Kept
  <2>3. QED BY <1>1, <2>2
<1>5. ASSUME NEW c \in Chains, FetchHead(k, c) PROVE Memory(sweep[k])'
  <2>1. /\ sweep[k].pc = "rows" /\ sweep'[k].pc = "rows"
        /\ sweep'[k].todo \subseteq sweep[k].todo
        /\ UNCHANGED <<row, height, mined, reverted>>
        /\ \/ sweep'[k].chain = c /\ sweep'[k].head = height[c]
           \/ /\ sweep'[k].chain = sweep[k].chain
              /\ sweep'[k].head = sweep[k].head
    <3> DEFINE found == [sweep[k] EXCEPT !.chain = c, !.head = height[c]]
               left == [sweep[k] EXCEPT !.todo = @ \ RowsOn(k, c)]
    <3>1. sweep'[k] = found \/ sweep'[k] = left
      <4>1. \/ sweep' = [sweep EXCEPT ![k] = found]
            \/ sweep' = [sweep EXCEPT ![k] = left]
        BY <1>0, <1>5 DEF FetchHead, WatchTypes
      <4>2. QED BY <1>0, <4>1 DEF WatchTypes
    <3>2. /\ sweep'[k].pc = sweep[k].pc
          /\ sweep'[k].todo \subseteq sweep[k].todo
          /\ \/ sweep'[k].chain = c /\ sweep'[k].head = height[c]
             \/ /\ sweep'[k].chain = sweep[k].chain
                /\ sweep'[k].head = sweep[k].head
      BY <1>0, <3>1 DEF Sweep
    <3>3. QED BY <1>5, <3>2 DEF FetchHead, tableVars, chainVars
  <2>2. height[c] \in Nat BY <1>0 DEF WatchTypes
  <2>3. Kept BY <1>0, <2>1, <2>2 DEF Kept, Memory
  <2>4. QED BY <1>1, <2>3
<1>6. ASSUME NEW w \in Withdrawals, SkipRow(k, w) PROVE Memory(sweep[k])'
  <2>1. /\ sweep[k].pc = "rows" /\ sweep'[k].pc = "rows"
        /\ sweep'[k].todo \subseteq sweep[k].todo
        /\ UNCHANGED <<row, height, mined, reverted>>
        /\ sweep'[k].chain = sweep[k].chain
        /\ sweep'[k].head = sweep[k].head
    BY <1>0, <1>6 DEF SkipRow, tableVars, chainVars, WatchTypes
  <2>2. Kept BY <1>0, <2>1 DEF Kept, Memory
  <2>3. QED BY <1>1, <2>2
<1>7. ASSUME NEW w \in Withdrawals, LookUp(k, w) PROVE Memory(sweep[k])'
  <2>1. /\ sweep[k].pc = "rows" /\ mined[w] # 0
        /\ sweep'[k].todo = sweep[k].todo
        /\ UNCHANGED <<row, height, mined, reverted>>
        /\ sweep'[k].chain = sweep[k].chain
        /\ sweep'[k].head = sweep[k].head
        /\ sweep'[k].row = w
        /\ sweep'[k].conf = Depth(sweep[k].head, mined[w])
        /\ sweep'[k].bad = reverted[w]
    BY <1>0, <1>7 DEF LookUp, tableVars, chainVars, WatchTypes
  <2>2. w \in sweep[k].todo /\ sweep[k].chain = ChainOf(w)
    BY <1>7, HeadKnown DEF LookUp
  <2>3. Kept BY <1>0, <2>1, <2>2 DEF Kept, Memory
  <2>4. QED BY <1>1, <2>3
<1>8. CASE WriteRow(k)
  <2>1. /\ sweep[k].pc = "write" /\ sweep'[k].pc = "rows"
        /\ sweep'[k].todo \subseteq sweep[k].todo
        /\ UNCHANGED <<height, mined, reverted>>
        /\ sweep'[k].chain = sweep[k].chain
        /\ sweep'[k].head = sweep[k].head
    BY <1>0, <1>8 DEF WriteRow, NextRow, chainVars, WatchTypes
  <2>2. sweep[k].todo \subseteq Withdrawals BY <1>0 DEF Sweep
  <2>3. Kept BY <1>0, <2>1, <2>2 DEF Kept, Memory, Grows
  <2>4. QED BY <1>1, <2>3
<1>9. CASE SweepEnd(k) \/ SweepDies(k)
  BY <1>0, <1>3, <1>9 DEF SweepEnd, SweepDies, Idle, WatchTypes
<1>10. ASSUME NEW j \in Sweepers, j # k, SweepStep(j) \/ SweepDies(j)
       PROVE  sweep'[k] = sweep[k]
  BY <1>0, <1>10
  DEF SweepStep, SweepStart, FetchHead, SkipRow, LookUp, SweepEnd, SweepDies,
      WriteRow, NextRow, WatchTypes
<1>11. CASE UNCHANGED sweep BY <1>2, <1>11
<1>12. QED
  BY <1>2, <1>4, <1>5, <1>6, <1>7, <1>8, <1>9, <1>10, <1>11
  DEF WatchStep, SweepStep, WatchLockExpires, NewBlock

LEMMA ChainStep ==
  ASSUME WatchInv, WatchStep
  PROVE  /\ height' \in [Chains -> Nat] /\ mined' \in [Withdrawals -> Nat]
         /\ reverted' \in [Withdrawals -> BOOLEAN]
         /\ HeightsBelow' /\ MinedBelow'
<1>0. WatchTypes /\ HeightsBelow /\ MinedBelow /\ Grows
  BY WatchTyped, WatchGrows DEF WatchInv
<1>1. ASSUME NEW c \in Chains, NewBlock(c)
      PROVE  /\ height' \in [Chains -> Nat] /\ mined' \in [Withdrawals -> Nat]
             /\ reverted' \in [Withdrawals -> BOOLEAN]
             /\ HeightsBelow' /\ MinedBelow'
  <2>1. /\ height[c] < MaxHeight /\ height[c] \in Nat
        /\ height' = [height EXCEPT ![c] = height[c] + 1]
        /\ row' = row
    BY <1>0, <1>1 DEF NewBlock, tableVars, WatchTypes
  <2>2. /\ height' \in [Chains -> Nat]
        /\ \A d \in Chains :
             height'[d] = IF d = c THEN height[c] + 1 ELSE height[d]
    BY <1>0, <2>1 DEF WatchTypes
  <2>3. HeightsBelow'
    BY <1>0, <2>1, <2>2, WatchAssumption DEF HeightsBelow
  <2>4. PICK landed \in SUBSET {w \in Withdrawals :
                                  /\ IsOnchain(w) /\ ChainOf(w) = c
                                  /\ row[w].ref /\ mined[w] = 0} :
          /\ mined' = [w \in Withdrawals |->
                         IF w \in landed THEN height[c] + 1 ELSE mined[w]]
          /\ \E failing \in SUBSET {w \in landed : CanRevert(w)} :
               reverted' = [w \in Withdrawals |->
                              reverted[w] \/ w \in failing]
    BY <1>1 DEF NewBlock
  <2>5. PICK failing \in SUBSET landed :
          reverted' = [w \in Withdrawals |-> reverted[w] \/ w \in failing]
    BY <2>4
  <2>6. /\ mined' \in [Withdrawals -> Nat]
        /\ reverted' \in [Withdrawals -> BOOLEAN]
    BY <1>0, <2>1, <2>4, <2>5 DEF WatchTypes
  <2>7. ASSUME NEW w \in Withdrawals
        PROVE  /\ mined'[w] <= height'[ChainOf(w)]
               /\ mined'[w] # 0 => row'[w].ref /\ IsOnchain(w)
               /\ reverted'[w] => mined'[w] # 0
    <3>1. ChainOf(w) \in Chains /\ height[ChainOf(w)] \in Nat
          /\ mined[w] \in Nat
      BY <1>0, ChainType DEF WatchTypes
    <3>2. CASE w \in landed
      <4>1. /\ mined'[w] = height[c] + 1 /\ ChainOf(w) = c
            /\ row[w].ref /\ IsOnchain(w)
        BY <2>4, <3>2
      <4>2. QED BY <2>1, <2>2, <3>1, <4>1
    <3>3. CASE w \notin landed
      <4>1. mined'[w] = mined[w] /\ (reverted'[w] = reverted[w])
        BY <1>0, <2>4, <2>5, <3>3 DEF WatchTypes
      <4>2. QED BY <1>0, <2>1, <2>2, <3>1, <4>1 DEF MinedBelow
    <3>4. QED BY <3>2, <3>3
  <2>8. QED BY <2>2, <2>3, <2>6, <2>7 DEF MinedBelow
<1>2. CASE UNCHANGED chainVars
  BY <1>0, <1>2
  DEF chainVars, WatchTypes, HeightsBelow, MinedBelow, Grows
<1>3. ASSUME NEW k \in Sweepers, SweepStep(k) \/ SweepDies(k)
      PROVE  UNCHANGED chainVars
  BY <1>3 DEF SweepStep, SweepStart, FetchHead, SkipRow, LookUp, SweepEnd,
     SweepDies, WriteRow
<1>4. CASE WatchLockExpires BY <1>2, <1>4 DEF WatchLockExpires
<1>5. UsedChains \subseteq Chains BY ChainType DEF UsedChains
<1>6. QED BY <1>1, <1>2, <1>3, <1>4, <1>5 DEF WatchStep

LEMMA OthersInv ==
  ASSUME WatchInv, OthersTables, UNCHANGED watcherVars
  PROVE  WatchInv'
<1>0. /\ WatchTypes /\ Grows /\ UNCHANGED <<height, mined, reverted, sweep>>
      /\ UNCHANGED watchLock
  BY WatchTyped, OthersGrow DEF watcherVars, chainVars
<1>1. [TableNext]_tableVars
  BY DEF OthersTables, JobTables, TableNext
<1>2. TableInv' BY <1>1, StepInv DEF WatchInv
<1>3. WatchTypeOK' /\ WatchTypes'
  BY <1>0, <1>2 DEF WatchInv, WatchTypeOK, TableInv, TableTypeOK, WatchTypes
<1>4. HeightsBelow' /\ MinedBelow'
  BY <1>0 DEF WatchInv, HeightsBelow, MinedBelow, Grows
<1>5. RefMeansPaidOut'
  <2> SUFFICES ASSUME NEW w \in Withdrawals, row'[w].ref
      PROVE  row'[w].status \in {"broadcast", "sent", "failed"}
    BY DEF RefMeansPaidOut
  <2>1. row[w].status \in Unpaid => ~ row[w].ref
    BY DEF WatchInv, RefMeansPaidOut, Unpaid
  <2>2. QED BY <2>1, OthersRow DEF WatchInv, RefMeansPaidOut
<1>6. RefundedOnlyIfReverted'
  <2> SUFFICES ASSUME NEW w \in Withdrawals, row'[w].status = "failed",
                      row'[w].ref
      PROVE  reverted[w]
    BY <1>0 DEF RefundedOnlyIfReverted
  <2>1. row[w].status \in Unpaid => ~ row[w].ref
    BY DEF WatchInv, RefMeansPaidOut, Unpaid
  <2>2. QED BY <2>1, OthersRow DEF WatchInv, RefundedOnlyIfReverted
<1>7. ASSUME NEW k \in Sweepers PROVE Memory(sweep[k])'
  <2>1. PICK s \in Sweep : s = sweep[k] BY <1>0 DEF WatchTypes
  <2>2. Memory(s) BY <2>1 DEF WatchInv
  <2>3. Memory(s)' BY <1>0, <1>3, <2>2, MemoryKept
  <2>4. QED BY <1>0, <2>1, <2>3
<1>8. QED BY <1>2, <1>3, <1>4, <1>5, <1>6, <1>7 DEF WatchInv

LEMMA WatchStepInv == ASSUME WatchInv, WatchStep PROVE WatchInv'
<1>0. WatchTypes /\ Grows BY WatchTyped, WatchGrows
<1>1. TableInv' BY WatchTables, StepInv DEF WatchInv
<1>2. WatchTypeOK' /\ WatchTypes'
  BY <1>1, SweepTypes, ChainStep
  DEF WatchTypeOK, TableInv, TableTypeOK, WatchTypes
<1>3. HeightsBelow' /\ MinedBelow' BY ChainStep
<1>4. ASSUME NEW k \in Sweepers, NEW w \in Withdrawals, Writes(k, w)
      PROVE  /\ sweep[k].bad = reverted[w] /\ mined[w] # 0
             /\ row[w].ref
  BY <1>4, CountKnown DEF Writes, WatchInv, Memory
<1>5. RefMeansPaidOut'
  BY <1>4, WatchRow DEF Writes, WatchInv, RefMeansPaidOut
<1>6. RefundedOnlyIfReverted'
  <2> SUFFICES ASSUME NEW w \in Withdrawals, row'[w].status = "failed",
                      row'[w].ref
      PROVE  reverted'[w]
    BY DEF RefundedOnlyIfReverted
  <2>1. CASE row'[w] = row[w]
    <3>1. reverted[w] /\ mined[w] # 0
      BY <2>1 DEF WatchInv, RefundedOnlyIfReverted, MinedBelow
    <3>2. QED BY <1>0, <3>1 DEF Grows
  <2>2. ASSUME NEW k \in Sweepers, Writes(k, w) PROVE reverted'[w]
    <3>1. row[w].status = "failed" \/ sweep[k].bad BY <2>2 DEF Writes
    <3>2. reverted[w] /\ mined[w] # 0
      BY <1>4, <2>2, <3>1 DEF WatchInv, RefundedOnlyIfReverted
    <3>3. QED BY <1>0, <3>2 DEF Grows
  <2>3. QED BY <2>1, <2>2, WatchRow
<1>7. \A k \in Sweepers : Memory(sweep[k])' BY <1>2, SweepMemory
<1>8. QED BY <1>1, <1>2, <1>3, <1>5, <1>6, <1>7 DEF WatchInv

LEMMA WatchInitInv == ASSUME TableInit, WatcherInit PROVE WatchInv
<1>1. TableInv BY InitInv
<1>2. Idle \in Sweep /\ Idle.pc = "idle" BY DEF Idle, Sweep
<1>3. WatchTypeOK
  BY <1>1, <1>2 DEF WatcherInit, WatchTypeOK, TableInv
<1>4. \A w \in Withdrawals : ~ row[w].ref BY DEF TableInit
<1>5. HeightsBelow /\ MinedBelow
  BY ChainType, WatchAssumption DEF WatcherInit, HeightsBelow, MinedBelow
<1>6. RefMeansPaidOut /\ RefundedOnlyIfReverted
  BY <1>4 DEF RefMeansPaidOut, RefundedOnlyIfReverted
<1>7. \A k \in Sweepers : Memory(sweep[k])
  BY <1>2 DEF WatcherInit, Memory
<1>8. QED BY <1>1, <1>3, <1>5, <1>6, <1>7 DEF WatchInv

LEMMA WatchInvariant == WatchSpec => []WatchInv
<1>1. WatchInit => WatchInv BY WatchInitInv DEF WatchInit
<1>2. WatchInv /\ [WatchNext]_watchVars => WatchInv'
  <2> SUFFICES ASSUME WatchInv, [WatchNext]_watchVars PROVE WatchInv'
    OBVIOUS
  <2>1. CASE WatchStep BY <2>1, WatchStepInv
  <2>2. CASE OthersStep
    BY <2>2, OthersInv DEF OthersStep, OthersTables, JobTables
  <2>3. CASE UNCHANGED watchVars
    BY <2>3, OthersInv DEF watchVars, OthersTables, JobTables
  <2>4. QED BY <2>1, <2>2, <2>3 DEF WatchNext
<1>3. QED BY <1>1, <1>2, PTL DEF WatchSpec

(* The watcher, the chains and the tables keep their types; a count that a  *)
(* sweep writes is one of the chain's.                                      *)
THEOREM WatchTypeCorrect == WatchSpec => []WatchTypeOK
BY WatchInvariant, PTL DEF WatchInv

(* A withdrawal that failed with a payout reference is one whose transfer   *)
(* the chain reverted, even when sweeps overlap and write what they read    *)
(* long ago (WatchOnchainConfirmationsJob:324-350).                         *)
THEOREM RefundsAreReverted == WatchSpec => []RefundedOnlyIfReverted
BY WatchInvariant, PTL DEF WatchInv

----------------------------------------------------------------------------
(* The watcher, while its lock outlasts a sweep.                            *)

CountAt(head, w) == IF mined[w] = 0 THEN 0 ELSE Depth(head, mined[w])

OneSweep ==
    /\ \A k \in Sweepers : sweep[k].pc # "idle" => watchLock
    /\ \A j, k \in Sweepers :
         sweep[j].pc # "idle" /\ sweep[k].pc # "idle" => j = k

(* The rows of a sweep wait as it read them.                                *)
Fresh(s) ==
    s.pc # "idle" =>
        \A w \in s.todo :
            /\ row[w].status = "broadcast"
            /\ ChainOf(w) = s.chain => row[w].conf <= CountAt(s.head, w)

ShownDepth ==
    \A w \in Withdrawals : row[w].conf <= CountAt(height[ChainOf(w)], w)

LockInv == /\ OneSweep /\ ShownDepth /\ SentAtFinality
           /\ \A k \in Sweepers : Fresh(sweep[k])

LEMMA DepthGrows ==
  ASSUME NEW g \in Nat, NEW h \in Nat, NEW b \in Nat, g <= h
  PROVE  Depth(g, b) <= Depth(h, b) /\ Depth(g, b) \in Nat
BY DEF Depth

LEMMA FreshKept ==
  ASSUME WatchTypes, WatchTypes', Grows, NEW s \in Sweep, Fresh(s),
         \A w \in s.todo : row'[w] = row[w]
  PROVE  Fresh(s)'
<1> SUFFICES ASSUME s.pc # "idle", NEW w \in s.todo
    PROVE  /\ row'[w].status = "broadcast"
           /\ ChainOf(w) = s.chain => row'[w].conf <= CountAt(s.head, w)'
  BY DEF Fresh
<1>1. w \in Withdrawals /\ s.head \in Nat BY DEF Sweep
<1>2. row'[w] = row[w] /\ row[w].status = "broadcast"
      /\ (ChainOf(w) = s.chain => row[w].conf <= CountAt(s.head, w))
  BY DEF Fresh
<1>3. CASE mined[w] # 0
  BY <1>1, <1>2, <1>3 DEF Grows, CountAt, Depth
<1>4. CASE mined[w] = 0
  <2>1. row[w].conf \in Nat BY <1>1 DEF WatchTypes
  <2>2. CountAt(s.head, w) = 0 BY <1>4 DEF CountAt
  <2>3. CountAt(s.head, w)' \in Nat
    BY <1>1 DEF CountAt, Depth, WatchTypes
  <2>4. QED BY <1>2, <2>1, <2>2, <2>3
<1>5. QED BY <1>3, <1>4

(* The depth shown and the depth at which a withdrawal was called sent,     *)
(* for a row that stays.                                                    *)
LEMMA DepthKept ==
  ASSUME WatchInv, WatchTypes', Grows, ShownDepth, SentAtFinality,
         NEW w \in Withdrawals, row'[w] = row[w]
  PROVE  /\ row'[w].conf <= CountAt(height[ChainOf(w)], w)'
         /\ (row'[w].status = "sent" /\ IsOnchain(w)) =>
              /\ row'[w].conf >= Finality[Method[w]]
              /\ mined'[w] # 0 /\ ~ reverted'[w]
              /\ height'[ChainOf(w)] - mined'[w] + 1 >= Finality[Method[w]]
<1>0. /\ WatchTypes /\ ChainOf(w) \in Chains
      /\ height[ChainOf(w)] \in Nat /\ height'[ChainOf(w)] \in Nat
      /\ height[ChainOf(w)] <= height'[ChainOf(w)]
      /\ mined[w] \in Nat /\ mined'[w] \in Nat /\ row[w].conf \in Nat
      /\ IsOnchain(w) => Finality[Method[w]] \in Nat
  BY WatchTyped, ChainType, FinalityAssumption
  DEF WatchTypes, Grows, IsOnchain
<1>1. row[w].conf <= CountAt(height[ChainOf(w)], w) BY DEF ShownDepth
<1>2. row'[w].conf <= CountAt(height[ChainOf(w)], w)'
  <2>1. CASE mined[w] # 0
    <3>1. mined'[w] = mined[w] BY <2>1 DEF Grows
    <3>2. QED BY <1>0, <1>1, <2>1, <3>1 DEF CountAt, Depth
  <2>2. CASE mined[w] = 0
    BY <1>0, <1>1, <2>2 DEF CountAt, Depth
  <2>3. QED BY <2>1, <2>2
<1>3. ASSUME row'[w].status = "sent", IsOnchain(w)
      PROVE  /\ row'[w].conf >= Finality[Method[w]]
             /\ mined'[w] # 0 /\ ~ reverted'[w]
             /\ height'[ChainOf(w)] - mined'[w] + 1 >= Finality[Method[w]]
  <2>1. /\ row[w].conf >= Finality[Method[w]]
        /\ mined[w] # 0 /\ ~ reverted[w]
        /\ height[ChainOf(w)] - mined[w] + 1 >= Finality[Method[w]]
    BY <1>3 DEF SentAtFinality
  <2>2. mined'[w] = mined[w] /\ reverted'[w] = reverted[w]
    BY <2>1 DEF Grows
  <2>3. QED BY <1>0, <1>3, <2>1, <2>2
<1>4. QED BY <1>2, <1>3

LEMMA LockOthers ==
  ASSUME WatchInv, WatchInv', LockInv, OthersTables, UNCHANGED watcherVars
  PROVE  /\ LockInv'
         /\ \A w \in Withdrawals : row'[w].conf >= row[w].conf
<1>0. /\ WatchTypes /\ WatchTypes' /\ Grows
      /\ UNCHANGED <<height, mined, reverted, sweep, watchLock>>
  BY WatchTyped, OthersGrow DEF watcherVars, chainVars, WatchTypes, WatchInv,
     WatchTypeOK, TableTypeOK
<1>1. ASSUME NEW w \in Withdrawals
      PROVE  /\ row'[w] = row[w]
                  \/ (IsOnchain(w) => row'[w].status # "sent")
             /\ row[w].status = "broadcast" => row'[w] = row[w]
             /\ row'[w].conf = row[w].conf
  BY OthersRow DEF WatchInv, Unpaid
<1>2. OneSweep' BY <1>0 DEF LockInv, OneSweep
<1>3. ShownDepth'
  BY <1>0, <1>1 DEF LockInv, ShownDepth, CountAt, Depth
<1>4. SentAtFinality' BY <1>0, <1>1 DEF LockInv, SentAtFinality
<1>5. ASSUME NEW k \in Sweepers PROVE Fresh(sweep[k])'
  <2>1. PICK s \in Sweep : s = sweep[k] BY <1>0 DEF WatchTypes
  <2>2. Fresh(s) BY <2>1 DEF LockInv
  <2>3. Fresh(s)'
    <3>1. CASE s.pc = "idle" BY <3>1 DEF Fresh
    <3>2. CASE s.pc # "idle"
      <4>1. s.todo \subseteq Withdrawals BY DEF Sweep
      <4>2. \A w \in s.todo : row'[w] = row[w]
        BY <1>1, <2>2, <3>2, <4>1 DEF Fresh
      <4>3. QED BY <1>0, <2>2, <4>2, FreshKept
    <3>3. QED BY <3>1, <3>2
  <2>4. QED BY <1>0, <2>1, <2>3
<1>6. \A w \in Withdrawals : row'[w].conf >= row[w].conf
  BY <1>0, <1>1 DEF WatchTypes
<1>7. QED BY <1>2, <1>3, <1>4, <1>5, <1>6 DEF LockInv

(* One sweep at a time: the next begins when the lock is free, and the lock *)
(* is not free before the last one ended.                                   *)
LEMMA SweepAlone ==
  ASSUME ~ LockExpires, WatchInv, LockInv, WatchStep
  PROVE  OneSweep'
<1>0. WatchTypes /\ OneSweep BY WatchTyped DEF LockInv
<1>1. sweep \in [Sweepers -> Sweep] BY <1>0 DEF WatchTypes
<1>2. ASSUME NEW k \in Sweepers, SweepStart(k) PROVE OneSweep'
  <2>1. ~ watchLock /\ watchLock' BY <1>2 DEF SweepStart, MayStart
  <2>2. \A j \in Sweepers : sweep[j].pc = "idle" BY <1>0, <2>1 DEF OneSweep
  <2>3. \A j \in Sweepers : j # k => sweep'[j] = sweep[j]
    BY <1>1, <1>2 DEF SweepStart
  <2>4. QED BY <2>1, <2>2, <2>3 DEF OneSweep
<1>3. ASSUME NEW k \in Sweepers, sweep[k].pc # "idle",
             \A j \in Sweepers : j # k => sweep'[j] = sweep[j],
             watchLock' = watchLock
      PROVE  OneSweep'
  BY <1>0, <1>3 DEF OneSweep
<1>4. ASSUME NEW k \in Sweepers, NEW c \in Chains, FetchHead(k, c)
      PROVE  OneSweep'
  BY <1>1, <1>3, <1>4 DEF FetchHead
<1>5. ASSUME NEW k \in Sweepers, NEW w \in Withdrawals,
             SkipRow(k, w) \/ LookUp(k, w)
      PROVE  OneSweep'
  BY <1>1, <1>3, <1>5 DEF SkipRow, LookUp
<1>6. ASSUME NEW k \in Sweepers, WriteRow(k) \/ SweepDies(k)
      PROVE  OneSweep'
  BY <1>1, <1>3, <1>6 DEF WriteRow, NextRow, SweepDies
<1>7. ASSUME NEW k \in Sweepers, SweepEnd(k) PROVE OneSweep'
  <2>1. sweep[k].pc # "idle" BY <1>7 DEF SweepEnd
  <2>2. \A j \in Sweepers :
          sweep'[j] = IF j = k THEN Idle ELSE sweep[j]
    BY <1>1, <1>7 DEF SweepEnd
  <2>3. \A j \in Sweepers : sweep'[j].pc = "idle"
    BY <1>0, <2>1, <2>2 DEF OneSweep, Idle
  <2>4. QED BY <2>3 DEF OneSweep
<1>8. CASE WatchLockExpires
  BY <1>0, <1>8 DEF WatchLockExpires, OneSweep
<1>9. ASSUME NEW c \in Chains, NewBlock(c) PROVE OneSweep'
  BY <1>0, <1>9 DEF NewBlock, OneSweep
<1>10. UsedChains \subseteq Chains BY ChainType DEF UsedChains
<1>11. QED
  BY <1>2, <1>4, <1>5, <1>6, <1>7, <1>8, <1>9, <1>10
  DEF WatchStep, SweepStep

(* The row that a sweep writes.                                             *)
LEMMA WrittenRow ==
  ASSUME WatchInv, LockInv, NEW k \in Sweepers, NEW w \in Withdrawals,
         Writes(k, w)
  PROVE  /\ row[w].status = "broadcast" /\ IsOnchain(w)
         /\ row'[w].conf >= row[w].conf
         /\ mined[w] # 0 /\ sweep[k].bad = reverted[w]
         /\ row'[w].conf = CountAt(sweep[k].head, w)
         /\ sweep[k].head \in Nat /\ sweep[k].head <= height[ChainOf(w)]
<1>0. /\ WatchTypes /\ Memory(sweep[k]) /\ Fresh(sweep[k])
      /\ sweep[k] \in Sweep /\ sweep[k].pc = "write" /\ sweep[k].row = w
  BY WatchTyped DEF WatchInv, LockInv, Writes, WatchTypes
<1>1. /\ w \in sweep[k].todo /\ sweep[k].chain = ChainOf(w)
      /\ mined[w] # 0 /\ sweep[k].conf = Depth(sweep[k].head, mined[w])
      /\ sweep[k].bad = reverted[w] /\ IsOnchain(w)
  BY <1>0 DEF Memory
<1>2. /\ row[w].status = "broadcast"
      /\ row[w].conf <= CountAt(sweep[k].head, w)
  BY <1>0, <1>1 DEF Fresh
<1>3. row'[w].conf = CountAt(sweep[k].head, w)
  BY <1>1 DEF Writes, CountAt
<1>4. sweep[k].head \in Nat /\ ChainOf(w) # "none"
  BY <1>0, ChainType DEF Sweep, Chains
<1>5. sweep[k].head <= height[ChainOf(w)] BY <1>0, <1>1, <1>4 DEF Memory
<1>6. mined[w] \in Nat /\ row[w].conf \in Nat BY <1>0 DEF WatchTypes
<1>7. CountAt(sweep[k].head, w) \in Nat
  BY <1>4, <1>6 DEF CountAt, Depth
<1>8. QED BY <1>1, <1>2, <1>3, <1>4, <1>5, <1>6, <1>7

LEMMA SweepFresh ==
  ASSUME WatchInv, WatchInv', LockInv, WatchStep, NEW k \in Sweepers
  PROVE  Fresh(sweep[k])'
<1>0. /\ WatchTypes /\ WatchTypes' /\ Grows
      /\ sweep[k] \in Sweep /\ sweep'[k] \in Sweep
      /\ Memory(sweep[k]) /\ Fresh(sweep[k]) /\ ShownDepth /\ OneSweep
      /\ sweep \in [Sweepers -> Sweep]
  BY WatchTyped, WatchGrows
  DEF WatchTypes, WatchInv, WatchTypeOK, TableTypeOK, LockInv
<1> DEFINE Kept == \A w \in sweep'[k].todo :
                     /\ row'[w].status = "broadcast"
                     /\ ChainOf(w) = sweep'[k].chain
                          => row'[w].conf <= IF mined'[w] = 0 THEN 0
                                 ELSE Depth(sweep'[k].head, mined'[w])
<1>1. Kept => Fresh(sweep[k])' BY DEF Fresh, CountAt, Depth
<1> HIDE DEF Kept
<1>2. ASSUME sweep'[k] = sweep[k], \A w \in sweep[k].todo : row'[w] = row[w]
      PROVE  Fresh(sweep[k])'
  <2>1. PICK s \in Sweep : s = sweep[k] BY <1>0
  <2>2. Fresh(s) /\ \A w \in s.todo : row'[w] = row[w] BY <1>0, <1>2, <2>1
  <2>3. Fresh(s)' BY <1>0, <2>2, FreshKept
  <2>4. QED BY <1>2, <2>1, <2>3
<1>3. CASE sweep'[k].pc = "idle" BY <1>3 DEF Fresh
<1>4. CASE SweepStart(k)
  <2>1. /\ sweep'[k].chain = "none" /\ row' = row
        /\ \A w \in sweep'[k].todo :
             row[w].status = "broadcast" /\ w \in Withdrawals
    BY <1>0, <1>4 DEF SweepStart, Idle, tableVars
  <2>2. \A w \in Withdrawals : ChainOf(w) # "none"
    BY ChainType DEF Chains
  <2>3. Kept BY <2>1, <2>2 DEF Kept
  <2>4. QED BY <1>1, <2>3
<1>5. ASSUME NEW c \in Chains, FetchHead(k, c) PROVE Fresh(sweep[k])'
  <2> DEFINE found == [sweep[k] EXCEPT !.chain = c, !.head = height[c]]
             left == [sweep[k] EXCEPT !.todo = @ \ RowsOn(k, c)]
  <2>1. sweep'[k] = found \/ sweep'[k] = left
    <3>1. \/ sweep' = [sweep EXCEPT ![k] = found]
          \/ sweep' = [sweep EXCEPT ![k] = left]
      BY <1>0, <1>5 DEF FetchHead
    <3>2. QED BY <1>0, <3>1
  <2>2. /\ sweep[k].pc = "rows"
        /\ UNCHANGED <<row, mined>>
        /\ sweep'[k].todo \subseteq sweep[k].todo
        /\ sweep[k].todo \subseteq Withdrawals
        /\ \/ sweep'[k].chain = c /\ sweep'[k].head = height[c]
           \/ /\ sweep'[k].chain = sweep[k].chain
              /\ sweep'[k].head = sweep[k].head
    BY <1>0, <1>5, <2>1 DEF FetchHead, tableVars, chainVars, Sweep
  <2>3. \A w \in Withdrawals :
          row[w].conf <= CountAt(height[ChainOf(w)], w)
    BY <1>0 DEF ShownDepth
  <2>4. \A w \in sweep[k].todo :
          /\ row[w].status = "broadcast"
          /\ ChainOf(w) = sweep[k].chain
               => row[w].conf <= CountAt(sweep[k].head, w)
    BY <1>0, <2>2 DEF Fresh
  <2>5. Kept
    <3>1. CASE sweep'[k].chain = c /\ sweep'[k].head = height[c]
      BY <2>2, <2>3, <2>4, <3>1 DEF Kept, CountAt, Depth
    <3>2. CASE /\ sweep'[k].chain = sweep[k].chain
               /\ sweep'[k].head = sweep[k].head
      BY <2>2, <2>4, <3>2 DEF Kept, CountAt, Depth
    <3>3. QED BY <2>2, <3>1, <3>2
  <2>6. QED BY <1>1, <2>5
<1>6. ASSUME NEW w \in Withdrawals, SkipRow(k, w) \/ LookUp(k, w)
      PROVE  Fresh(sweep[k])'
  <2>1. /\ sweep[k].pc = "rows"
        /\ UNCHANGED <<row, mined>>
    BY <1>6 DEF SkipRow, LookUp, tableVars, chainVars
  <2>2. /\ sweep'[k].todo \subseteq sweep[k].todo
        /\ sweep'[k].chain = sweep[k].chain
        /\ sweep'[k].head = sweep[k].head
    <3>1. CASE SkipRow(k, w)
      <4>1. sweep'[k] = [sweep[k] EXCEPT !.todo = @ \ {w}]
        BY <1>0, <3>1 DEF SkipRow
      <4>2. QED BY <1>0, <4>1
    <3>2. CASE LookUp(k, w)
      <4>1. sweep'[k] = [sweep[k] EXCEPT !.pc = "write", !.row = w,
                           !.conf = Depth(sweep[k].head, mined[w]),
                           !.bad = reverted[w]]
        BY <1>0, <3>2 DEF LookUp
      <4>2. QED BY <1>0, <4>1
    <3>3. QED BY <1>6, <3>1, <3>2
  <2>4. Kept BY <1>0, <2>1, <2>2 DEF Kept, Fresh, CountAt, Depth
  <2>3. QED BY <1>1, <2>4
<1>7. CASE WriteRow(k)
  <2>1. /\ sweep[k].pc = "write"
        /\ sweep'[k].todo = sweep[k].todo \ {sweep[k].row}
        /\ sweep[k].todo \subseteq Withdrawals
        /\ UNCHANGED mined
        /\ sweep'[k].chain = sweep[k].chain
        /\ sweep'[k].head = sweep[k].head
    BY <1>0, <1>7 DEF WriteRow, NextRow, chainVars, Sweep
  <2>2. ASSUME NEW v \in Withdrawals, v # sweep[k].row PROVE row'[v] = row[v]
    <3>1. ASSUME NEW j \in Sweepers, Writes(j, v) PROVE FALSE
      <4>1. j = k BY <1>0, <2>1, <3>1 DEF Writes, OneSweep
      <4>2. QED BY <2>2, <3>1, <4>1 DEF Writes
    <3>2. QED BY <3>1, WatchRow
  <2>3. Kept BY <1>0, <2>1, <2>2 DEF Kept, Fresh, CountAt, Depth
  <2>4. QED BY <1>1, <2>3
<1>8. CASE SweepEnd(k) \/ SweepDies(k)
  BY <1>0, <1>3, <1>8 DEF SweepEnd, SweepDies, Idle
<1>9. ASSUME NEW j \in Sweepers, j # k, SweepStep(j) \/ SweepDies(j)
      PROVE  Fresh(sweep[k])'
  <2>1. sweep'[k] = sweep[k]
    BY <1>0, <1>9
    DEF SweepStep, SweepStart, FetchHead, SkipRow, LookUp, SweepEnd,
        SweepDies, WriteRow, NextRow
  <2>2. CASE sweep[k].pc = "idle" BY <1>3, <2>1, <2>2
  <2>3. CASE sweep[k].pc # "idle"
    <3>1. ASSUME NEW v \in Withdrawals PROVE row'[v] = row[v]
      <4>1. ~ WriteRow(j) BY <1>0, <1>9, <2>3 DEF OneSweep, WriteRow
      <4>2. row' = row
        BY <1>9, <4>1
        DEF SweepStep, SweepStart, FetchHead, SkipRow, LookUp, SweepEnd,
            SweepDies, tableVars
      <4>3. QED BY <4>2
    <3>2. sweep[k].todo \subseteq Withdrawals BY <1>0 DEF Sweep
    <3>3. QED BY <1>2, <2>1, <3>1, <3>2
  <2>4. QED BY <2>2, <2>3
<1>10. ASSUME UNCHANGED <<tableVars, sweep>> PROVE Fresh(sweep[k])'
  BY <1>2, <1>10 DEF tableVars
<1>11. QED
  BY <1>4, <1>5, <1>6, <1>7, <1>8, <1>9, <1>10
  DEF WatchStep, SweepStep, WatchLockExpires, NewBlock

LEMMA LockWatch ==
  ASSUME ~ LockExpires, WatchInv, WatchInv', LockInv, WatchStep
  PROVE  /\ LockInv'
         /\ \A w \in Withdrawals : row'[w].conf >= row[w].conf
<1>0. /\ WatchTypes /\ WatchTypes' /\ Grows /\ ShownDepth /\ SentAtFinality
  BY WatchTyped, WatchGrows
  DEF WatchTypes, WatchInv, WatchTypeOK, TableTypeOK, LockInv
<1>1. ASSUME NEW w \in Withdrawals
      PROVE  /\ row'[w].conf >= row[w].conf
             /\ row'[w].conf <= CountAt(height[ChainOf(w)], w)'
             /\ (row'[w].status = "sent" /\ IsOnchain(w)) =>
                  /\ row'[w].conf >= Finality[Method[w]]
                  /\ mined'[w] # 0 /\ ~ reverted'[w]
                  /\ height'[ChainOf(w)] - mined'[w] + 1
                       >= Finality[Method[w]]
  <2>0. /\ ChainOf(w) \in Chains /\ row[w].conf \in Nat
        /\ height[ChainOf(w)] \in Nat /\ height'[ChainOf(w)] \in Nat
        /\ mined[w] \in Nat
        /\ IsOnchain(w) => Finality[Method[w]] \in Nat \ {0}
    BY <1>0, ChainType, FinalityAssumption DEF WatchTypes, IsOnchain
  <2>1. CASE row'[w] = row[w] BY <1>0, <2>0, <2>1, DepthKept
  <2>2. ASSUME NEW k \in Sweepers, Writes(k, w)
        PROVE  /\ row'[w].conf >= row[w].conf
               /\ row'[w].conf <= CountAt(height[ChainOf(w)], w)'
               /\ (row'[w].status = "sent" /\ IsOnchain(w)) =>
                    /\ row'[w].conf >= Finality[Method[w]]
                    /\ mined'[w] # 0 /\ ~ reverted'[w]
                    /\ height'[ChainOf(w)] - mined'[w] + 1
                         >= Finality[Method[w]]
    <3>1. /\ row[w].status = "broadcast" /\ IsOnchain(w)
          /\ row'[w].conf >= row[w].conf
          /\ mined[w] # 0 /\ sweep[k].bad = reverted[w]
          /\ row'[w].conf = Depth(sweep[k].head, mined[w])
          /\ sweep[k].head \in Nat /\ sweep[k].head <= height[ChainOf(w)]
      BY <2>2, WrittenRow DEF CountAt
    <3>2. /\ mined'[w] = mined[w] /\ reverted'[w] = reverted[w]
          /\ height[ChainOf(w)] <= height'[ChainOf(w)]
      BY <1>0, <2>0, <3>1 DEF Grows
    <3>3. row'[w].conf <= CountAt(height[ChainOf(w)], w)'
      BY <2>0, <3>1, <3>2 DEF CountAt, Depth
    <3>4. ASSUME row'[w].status = "sent"
          PROVE  /\ row'[w].conf >= Finality[Method[w]] /\ ~ sweep[k].bad
      BY <2>2, <3>1, <3>4 DEF Writes
    <3>5. ASSUME row'[w].conf >= Finality[Method[w]]
          PROVE  height'[ChainOf(w)] - mined'[w] + 1 >= Finality[Method[w]]
      <4>1. Depth(sweep[k].head, mined[w]) >= Finality[Method[w]]
        BY <3>1, <3>5
      <4>2. sweep[k].head + 1 - mined[w] >= Finality[Method[w]]
        BY <2>0, <3>1, <4>1 DEF Depth
      <4>3. QED BY <2>0, <3>1, <3>2, <4>2
    <3>6. QED BY <3>1, <3>2, <3>3, <3>4, <3>5
  <2>3. QED BY <2>1, <2>2, WatchRow
<1>2. ShownDepth' BY <1>1 DEF ShownDepth
<1>3. SentAtFinality' BY <1>1 DEF SentAtFinality
<1>4. OneSweep' BY SweepAlone
<1>5. \A k \in Sweepers : Fresh(sweep[k])' BY SweepFresh
<1>6. QED BY <1>1, <1>2, <1>3, <1>4, <1>5 DEF LockInv

LEMMA LockStep ==
  ~ LockExpires /\ WatchInv /\ WatchInv' /\ LockInv /\ [WatchNext]_watchVars
    => LockInv' /\ \A w \in Withdrawals : row'[w].conf >= row[w].conf
<1> SUFFICES ASSUME ~ LockExpires, WatchInv, WatchInv', LockInv,
                    [WatchNext]_watchVars
    PROVE  LockInv' /\ \A w \in Withdrawals : row'[w].conf >= row[w].conf
  OBVIOUS
<1>1. CASE WatchStep BY <1>1, LockWatch
<1>2. CASE OthersStep
  BY <1>2, LockOthers DEF OthersStep, OthersTables, JobTables
<1>3. CASE UNCHANGED watchVars
  BY <1>3, LockOthers DEF watchVars, OthersTables, JobTables
<1>4. QED BY <1>1, <1>2, <1>3 DEF WatchNext

LEMMA LockInvariant == ~ LockExpires => (WatchSpec => []LockInv)
<1> SUFFICES ASSUME ~ LockExpires PROVE WatchSpec => []LockInv
  OBVIOUS
<1>1. WatchInit => LockInv
  <2> SUFFICES ASSUME WatchInit PROVE LockInv
    OBVIOUS
  <2>1. \A k \in Sweepers : sweep[k].pc = "idle"
    BY DEF WatchInit, WatcherInit, Idle
  <2>2. \A w \in Withdrawals : row[w].conf = 0 /\ row[w].status = "none"
                               /\ mined[w] = 0
    BY DEF WatchInit, TableInit, WatcherInit
  <2>3. QED
    BY <2>1, <2>2
    DEF LockInv, OneSweep, ShownDepth, SentAtFinality, Fresh, CountAt
<1>2. WatchInv /\ WatchInv' /\ LockInv /\ [WatchNext]_watchVars => LockInv'
  BY LockStep
<1>3. QED BY <1>1, <1>2, WatchInvariant, PTL DEF WatchSpec

(* A withdrawal on chain is called sent only when its transaction is that   *)
(* deep in the chain and did not revert, for every threshold and however    *)
(* sweeps die, as long as one ends before the next may begin.               *)
THEOREM SentIsFinal == ~ LockExpires => (WatchSpec => []SentAtFinality)
<1> SUFFICES ASSUME ~ LockExpires PROVE WatchSpec => []SentAtFinality
  OBVIOUS
<1>1. LockInv => SentAtFinality BY DEF LockInv
<1>2. QED BY <1>1, LockInvariant, PTL

(* Under the same assumption the depth that is shown never shrinks.         *)
THEOREM CountsGrow == ~ LockExpires => (WatchSpec => ConfirmationsGrow)
<1> SUFFICES ASSUME ~ LockExpires PROVE WatchSpec => ConfirmationsGrow
  OBVIOUS
<1>1. WatchInv /\ WatchInv' /\ LockInv /\ [WatchNext]_watchVars
        => [\A w \in Withdrawals : row'[w].conf >= row[w].conf]_watchVars
  BY LockStep
<1>2. QED
  BY <1>1, LockInvariant, WatchInvariant, PTL DEF WatchSpec, ConfirmationsGrow

----------------------------------------------------------------------------
(* Overlapping sweeps.  A stale sweep may take back the count that is shown *)
(* but never calls a transfer final that is not.                            *)

SentIsDeep ==
    \A w \in Withdrawals :
        (row[w].status = "sent" /\ IsOnchain(w)) =>
            /\ mined[w] # 0 /\ ~ reverted[w]
            /\ height[ChainOf(w)] - mined[w] + 1 >= Finality[Method[w]]

(* What is deep in a chain stays there.                                     *)
LEMMA DeepStays ==
  ASSUME WatchTypes, WatchTypes', Grows, SentIsDeep, NEW w \in Withdrawals,
         row[w].status = "sent", IsOnchain(w)
  PROVE  /\ mined'[w] # 0 /\ ~ reverted'[w]
         /\ height'[ChainOf(w)] - mined'[w] + 1 >= Finality[Method[w]]
<1>1. /\ mined[w] # 0 /\ ~ reverted[w]
      /\ height[ChainOf(w)] - mined[w] + 1 >= Finality[Method[w]]
  BY DEF SentIsDeep
<1>2. mined'[w] = mined[w] /\ reverted'[w] = reverted[w] BY <1>1 DEF Grows
<1>3. /\ height[ChainOf(w)] \in Nat /\ height'[ChainOf(w)] \in Nat
      /\ height[ChainOf(w)] <= height'[ChainOf(w)] /\ mined[w] \in Nat
      /\ Finality[Method[w]] \in Nat
  BY ChainType, FinalityAssumption DEF WatchTypes, Grows, IsOnchain
<1>4. QED BY <1>1, <1>2, <1>3

LEMMA DeepStep ==
  ASSUME WatchInv, WatchInv', SentIsDeep, [WatchNext]_watchVars
  PROVE  SentIsDeep'
<1>0. WatchTypes /\ WatchTypes' BY WatchTyped DEF WatchTypes, WatchInv,
        WatchTypeOK, TableTypeOK
<1>1. CASE WatchStep
  <2>1. Grows BY <1>1, WatchGrows
  <2> SUFFICES ASSUME NEW w \in Withdrawals, row'[w].status = "sent",
                      IsOnchain(w)
      PROVE  /\ mined'[w] # 0 /\ ~ reverted'[w]
             /\ height'[ChainOf(w)] - mined'[w] + 1 >= Finality[Method[w]]
    BY DEF SentIsDeep
  <2>2. CASE row[w].status = "sent" BY <1>0, <2>1, <2>2, DeepStays
  <2>3. CASE row[w].status # "sent"
    <3>1. PICK k \in Sweepers : Writes(k, w) BY <1>1, <2>3, WatchRow
    <3>2. /\ sweep[k] \in Sweep /\ sweep[k].pc = "write" /\ sweep[k].row = w
          /\ ~ sweep[k].bad /\ sweep[k].conf >= Finality[Method[w]]
      BY <1>0, <2>3, <3>1 DEF Writes, WatchTypes
    <3>3. /\ mined[w] # 0 /\ ~ reverted[w]
          /\ sweep[k].conf = Depth(sweep[k].head, mined[w])
          /\ sweep[k].chain = ChainOf(w)
          /\ sweep[k].chain # "none" => sweep[k].head <= height[ChainOf(w)]
      BY <3>2 DEF WatchInv, Memory
    <3>4. mined'[w] = mined[w] /\ reverted'[w] = reverted[w]
      BY <2>1, <3>3 DEF Grows
    <3>5. /\ sweep[k].head \in Nat /\ mined[w] \in Nat
          /\ height[ChainOf(w)] \in Nat /\ height'[ChainOf(w)] \in Nat
          /\ height[ChainOf(w)] <= height'[ChainOf(w)]
          /\ sweep[k].head <= height[ChainOf(w)]
          /\ Finality[Method[w]] \in Nat \ {0}
      BY <1>0, <2>1, <3>2, <3>3, ChainType, FinalityAssumption
      DEF WatchTypes, Sweep, Grows, IsOnchain, Chains
    <3>6. sweep[k].head + 1 - mined[w] >= Finality[Method[w]]
      BY <3>2, <3>3, <3>5 DEF Depth
    <3>7. QED BY <3>3, <3>4, <3>5, <3>6
  <2>4. QED BY <2>2, <2>3
<1>2. ASSUME OthersTables, UNCHANGED watcherVars PROVE SentIsDeep'
  <2>1. UNCHANGED <<height, mined, reverted>>
    BY <1>2 DEF watcherVars, chainVars
  <2>2. \A w \in Withdrawals :
          row'[w].status = "sent" /\ IsOnchain(w) => row[w].status = "sent"
    BY <1>2, OthersRow DEF WatchInv, Unpaid
  <2>3. QED BY <2>1, <2>2 DEF SentIsDeep
<1>3. CASE OthersStep BY <1>2, <1>3 DEF OthersStep, OthersTables, JobTables
<1>4. CASE UNCHANGED watchVars
  BY <1>2, <1>4 DEF watchVars, OthersTables, JobTables
<1>5. QED BY <1>1, <1>3, <1>4 DEF WatchNext

(* `Sent` is final even when the watch lock expires under a running sweep:  *)
(* the transaction is in the chain at the threshold's depth and did not     *)
(* revert.                                                                  *)
THEOREM SentStaysDeep == WatchSpec => []SentIsDeep
<1>1. WatchInit => SentIsDeep
  BY DEF WatchInit, TableInit, SentIsDeep
<1>2. WatchInv /\ WatchInv' /\ SentIsDeep /\ [WatchNext]_watchVars
        => SentIsDeep'
  BY DeepStep
<1>3. QED BY <1>1, <1>2, WatchInvariant, PTL DEF WatchSpec

(* Every step beside the watcher, and every step of it, is a transaction of *)
(* the tables or leaves them alone: the books are as the tables' theorems   *)
(* say, however sweeps overlap and die.                                     *)
THEOREM WatchStaysOnTables == WatchSpec => TableSpec
<1>1. WatchInit => TableInit BY DEF WatchInit
<1>2. WatchInv /\ [WatchNext]_watchVars => [TableNext]_tableVars
  <2> SUFFICES ASSUME WatchInv, [WatchNext]_watchVars
      PROVE  [TableNext]_tableVars
    OBVIOUS
  <2>1. CASE WatchStep BY <2>1, WatchTables
  <2>2. CASE OthersStep BY <2>2 DEF OthersStep, TableNext
  <2>3. CASE UNCHANGED watchVars BY <2>3 DEF watchVars
  <2>4. QED BY <2>1, <2>2, <2>3 DEF WatchNext
<1>3. QED BY <1>1, <1>2, WatchInvariant, PTL DEF WatchSpec, TableSpec

(* The total withdrawn counts each payout once and the tables keep their    *)
(* promise beside any number of sweeps.                                     *)
THEOREM WatchKeepsBooks ==
  WatchSpec => []Books /\ TerminalIsFinal /\ KeepsPromise
BY WatchStaysOnTables, TableBooks, TerminalStays, PromiseKept

----------------------------------------------------------------------------
(* The payout job and the watcher together.                                 *)

LEMMA SystemStepInv ==
  ASSUME JobInv, WatchInv, [SystemNext]_systemVars
  PROVE  /\ JobInv' /\ WatchInv'
         /\ [WatchNext]_watchVars /\ [TableNext]_tableVars
<1>1. ASSUME OthersTables, UNCHANGED watcherVars
      PROVE  /\ WatchInv' /\ [WatchNext]_watchVars
             /\ [TableNext]_tableVars
  <2>1. WatchInv' BY <1>1, OthersInv
  <2>2. [WatchNext]_watchVars
    BY <1>1
    DEF OthersTables, JobTables, WatchNext, OthersStep, watchVars
  <2>3. [TableNext]_tableVars
    BY <1>1 DEF OthersTables, JobTables, TableNext
  <2>4. QED BY <2>1, <2>2, <2>3
<1>2. CASE (UserStep \/ AdminStep) /\ UNCHANGED <<jobVars, watcherVars>>
  <2>1. JobInv'
    <3>1. [Next]_vars BY <1>2 DEF Next, TableStep
    <3>2. QED BY <3>1, JobStepInv
  <2>2. QED BY <1>1, <1>2, <2>1 DEF OthersTables
<1>3. CASE PayoutStep /\ UNCHANGED watcherVars
  <2>1. JobInv'
    <3>1. [Next]_vars BY <1>3 DEF Next
    <3>2. QED BY <3>1, JobStepInv
  <2>2. JobTables BY <1>3, HoldIsIdle
  <2>3. QED BY <1>1, <1>3, <2>1, <2>2 DEF OthersTables
<1>4. ASSUME UNCHANGED jobVars, WatchInv' PROVE JobInv'
  BY <1>4 DEF JobInv, JobTypeOK, NoneHeld, WatchInv, jobVars
<1>5. CASE WatchStep /\ UNCHANGED jobVars
  BY <1>4, <1>5, WatchStepInv, WatchTables DEF WatchNext
<1>6. CASE UNCHANGED systemVars
  <2>1. OthersTables /\ UNCHANGED watcherVars /\ UNCHANGED jobVars
    BY <1>6 DEF systemVars, OthersTables, JobTables
  <2>2. QED BY <1>1, <1>4, <2>1
<1>7. QED BY <1>2, <1>3, <1>5, <1>6 DEF SystemNext

LEMMA SystemInitInv == SystemInit => JobInv /\ WatchInv
  BY InitInv, WatchInitInv
  DEF SystemInit, JobInit, JobInv, JobTypeOK, NoneHeld, PCs, JobStates, NoJob

LEMMA SystemInvariant == SystemSpec => [](JobInv /\ WatchInv)
<1>1. JobInv /\ WatchInv /\ [SystemNext]_systemVars => (JobInv /\ WatchInv)'
  BY SystemStepInv
<1>2. QED BY <1>1, SystemInitInv, PTL DEF SystemSpec

(* With the payout job beside it the watcher behaves as it does beside the  *)
(* job's transactions in any order: what is proved of WatchSpec holds of    *)
(* the whole system.                                                        *)
THEOREM SystemWatches == SystemSpec => WatchSpec
<1>1. SystemInit => WatchInit BY DEF SystemInit, WatchInit
<1>2. JobInv /\ WatchInv /\ [SystemNext]_systemVars => [WatchNext]_watchVars
  BY SystemStepInv
<1>3. QED BY <1>1, <1>2, SystemInvariant, PTL DEF SystemSpec, WatchSpec

(* Every step of the system is one of the transactions of the tables or     *)
(* leaves them alone: whatever the job does and however sweeps overlap, the *)
(* books stay as WithdrawalTable_proofs says.                               *)
THEOREM SystemStaysOnTables == SystemSpec => TablesOnly
<1>1. SystemInit => TableInit BY DEF SystemInit
<1>2. JobInv /\ WatchInv /\ [SystemNext]_systemVars => [TableNext]_tableVars
  BY SystemStepInv
<1>3. QED
  BY <1>1, <1>2, SystemInvariant, PTL DEF SystemSpec, TablesOnly, TableSpec

(* The books and the promise of the whole system, with any faults of the    *)
(* job and any sweeps that overlap or die.                                  *)
THEOREM SystemKeepsBooks ==
  SystemSpec => /\ []Books /\ TerminalIsFinal /\ KeepsPromise
                /\ ~ ConcurrentRequests => []BalanceNonNegative
BY SystemStaysOnTables, TableBooks, TerminalStays, PromiseKept, BalanceCovers
DEF TablesOnly

(* What the whole system shows as sent on chain is there, at the depth its  *)
(* method asks for, and did not revert.                                     *)
THEOREM SystemSendsFinal == SystemSpec => []SentIsDeep
BY SystemWatches, SentStaysDeep, PTL

----------------------------------------------------------------------------
(* From request to finality, with a job that is Reliable.                   *)

RefIsPaid == \A w \in Withdrawals : row[w].ref => paid[w] > 0

(* An on-chain row is sent once its transfer is in a block, so that no      *)
(* later block can revert it.                                               *)
SentIsMined ==
    \A w \in Withdrawals :
        row[w].status = "sent" /\ IsOnchain(w) => mined[w] # 0

EndInv == /\ SentInv /\ WatchInv /\ Orderly /\ RefIsPaid /\ SentIsMined

(* What a step is to the outside.                                           *)
EndMoves ==
    \/ /\ UNCHANGED <<paid, reverted>>
       /\ \/ phases' = phases /\ balance' = balance
          \/ \E w \in Withdrawals :
                \/ Promise!Request(w)
                \/ paid[w] > 0 /\ ~ reverted[w] /\ Promise!Pay(w)
                \/ (paid[w] = 0 \/ reverted[w]) /\ Promise!Return(w)
    \/ /\ UNCHANGED <<row, balance, reverted>>
       /\ \E w \in Withdrawals :
            /\ phases[w] = "open" /\ paid[w] = 0 /\ ~ reverted[w]
            /\ paid' = [paid EXCEPT ![w] = 1]
    \/ /\ UNCHANGED <<row, balance, paid>>
       /\ \A w \in Withdrawals :
            /\ reverted[w] => reverted'[w]
            /\ reverted'[w] /\ ~ reverted[w]
                 => phases[w] = "open" /\ paid[w] > 0

(* A reference means paid, and a block means a reference.                   *)
LEMMA RevertedIsPaid ==
  ASSUME EndInv, NEW w \in Withdrawals
  PROVE  /\ reverted[w] => mined[w] # 0
         /\ mined[w] # 0 => row[w].ref /\ IsOnchain(w) /\ paid[w] > 0
         /\ row[w].ref => row[w].status \notin Unpaid
  BY DEF EndInv, WatchInv, MinedBelow, RefMeansPaidOut, RefIsPaid, Unpaid

LEMMA EndJobMoves ==
  ASSUME EndInv, SentInv', Next, \A k \in Workers : ~ GatewayAmbiguous(k),
         OthersTables, UNCHANGED watcherVars
  PROVE  EndMoves
<1>0. /\ reverted' = reverted /\ TableInv /\ row \in [Withdrawals -> Row]
      /\ row' \in [Withdrawals -> Row] /\ JobTypeOK
  BY DEF watcherVars, chainVars, EndInv, WatchInv, SentInv, JobInv, TableInv,
     TableTypeOK
<1>1. JobMoves BY JobStepMoves, OrderlyAccounts DEF EndInv
<1>2. ASSUME NEW w \in Withdrawals, Promise!Pay(w) PROVE ~ reverted[w]
  <2>1. PhaseOf(w) = "open" /\ PhaseOf(w)' = "paid"
    BY <1>2 DEF Promise!Pay
  <2>2. row'[w] # row[w] BY <2>1 DEF PhaseOf
  <2>3. row[w].status \in Unpaid BY <1>0, <2>2, OthersRow
  <2>4. QED BY <2>3, RevertedIsPaid
<1>3. ASSUME NEW w \in Withdrawals, paid[w] = 0 PROVE ~ reverted[w]
  BY <1>3, RevertedIsPaid
<1>4. QED BY <1>0, <1>1, <1>2, <1>3 DEF JobMoves, EndMoves

LEMMA EndWatchMoves ==
  ASSUME EndInv, WatchInv', WatchStep, UNCHANGED jobVars
  PROVE  EndMoves
<1>0. /\ TableInv /\ WatchTypes /\ WatchTypes' /\ JobTypeOK
      /\ paid' = paid /\ Grows
  BY WatchTyped, WatchGrows
  DEF EndInv, WatchInv, WatchTypes, WatchTypeOK, TableTypeOK, SentInv,
      JobInv, jobVars
<1>1. CASE \E k \in Sweepers : WriteRow(k)
  <2>0. reverted' = reverted BY <1>1 DEF WriteRow, chainVars
  <2>1. \/ \E w \in Withdrawals :
              Promise!Request(w) \/ Promise!Pay(w) \/ Promise!Return(w)
        \/ phases' = phases /\ balance' = balance
    BY <1>0, WatchTables, PromiseStep
    DEF EndInv, Promise!PromiseNext, Promise!promiseVars, phases
  <2>2. ASSUME NEW k \in Sweepers, NEW w \in Withdrawals, Writes(k, w)
        PROVE  paid[w] > 0 /\ sweep[k].bad = reverted[w]
    BY <2>2, CountKnown
    DEF Writes, EndInv, WatchInv, Memory, RefIsPaid
  <2>3. ASSUME NEW w \in Withdrawals, Promise!Pay(w)
        PROVE  paid[w] > 0 /\ ~ reverted[w]
    <3>1. PhaseOf(w) = "open" /\ PhaseOf(w)' = "paid"
      BY <2>3 DEF Promise!Pay
    <3>2. /\ row'[w] # row[w] /\ row[w].status # "sent"
          /\ row'[w].status = "sent"
      BY <3>1 DEF PhaseOf
    <3>3. PICK k \in Sweepers : Writes(k, w)
      BY <3>2, WatchRow DEF EndInv
    <3>4. ~ sweep[k].bad BY <3>2, <3>3 DEF Writes
    <3>5. QED BY <2>2, <3>3, <3>4
  <2>4. ASSUME NEW w \in Withdrawals, Promise!Return(w)
        PROVE  reverted[w]
    <3>1. PhaseOf(w) = "open" /\ PhaseOf(w)' = "returned"
      BY <2>4 DEF Promise!Return
    <3>2. /\ row'[w] # row[w]
          /\ row[w].status \notin {"failed", "rejected"}
          /\ row'[w].status \in {"failed", "rejected"}
      BY <3>1 DEF PhaseOf
    <3>3. PICK k \in Sweepers : Writes(k, w)
      BY <3>2, WatchRow DEF EndInv
    <3>4. sweep[k].bad BY <3>2, <3>3 DEF Writes
    <3>5. QED BY <2>2, <3>3, <3>4
  <2>5. QED BY <1>0, <2>0, <2>1, <2>3, <2>4 DEF EndMoves
<1>2. CASE UNCHANGED tableVars
  <2>1. ASSUME NEW w \in Withdrawals
        PROVE  /\ reverted[w] => reverted'[w]
               /\ reverted'[w] /\ ~ reverted[w]
                    => phases[w] = "open" /\ paid[w] > 0
    <3>1. reverted[w] => reverted'[w]
      BY <1>0, RevertedIsPaid DEF Grows
    <3>2. ASSUME reverted'[w], ~ reverted[w]
          PROVE  phases[w] = "open" /\ paid[w] > 0
      <4>1. mined[w] = 0 BY <1>0, <3>2 DEF Grows
      <4>2. mined'[w] # 0 /\ row'[w].ref /\ IsOnchain(w) /\ row' = row
        BY <1>2, <3>2 DEF WatchInv, MinedBelow, tableVars
      <4>3. row[w].status \in {"broadcast", "sent", "failed"}
        BY <4>2 DEF EndInv, WatchInv, RefMeansPaidOut
      <4>4. row[w].status # "sent"
        BY <4>1, <4>2 DEF EndInv, SentIsMined
      <4>5. row[w].status # "failed"
        BY <3>2, <4>2 DEF EndInv, WatchInv, RefundedOnlyIfReverted
      <4>6. phases[w] = "open" BY <1>0, <4>3, <4>4, <4>5, OpenPhase
      <4>7. QED BY <4>2, <4>6 DEF EndInv, RefIsPaid
    <3>3. QED BY <3>1, <3>2
  <2>2. QED BY <1>0, <1>2, <2>1 DEF EndMoves, tableVars
<1>3. QED BY <1>1, <1>2, WatchTables DEF EndInv

(* What the watcher leaves to the job.                                      *)
LEMMA EndWatchInv ==
  ASSUME EndInv, JobInv', WatchInv', WatchStep, UNCHANGED jobVars
  PROVE  EndInv'
<1>0. /\ WatchTypes /\ WatchTypes' /\ Grows /\ UNCHANGED <<pc, task, paid>>
      /\ \A k \in Workers : W(k)' = W(k)
  BY WatchTyped, WatchGrows
  DEF EndInv, WatchInv, WatchTypes, WatchTypeOK, TableTypeOK, jobVars, W
<1>1. ASSUME NEW w \in Withdrawals
      PROVE  \/ row'[w] = row[w]
             \/ /\ row'[w].ref = row[w].ref /\ mined[w] # 0
                /\ \/ row'[w].status = row[w].status
                   \/ /\ row[w].status = "broadcast"
                      /\ row'[w].status \in {"sent", "failed"}
  <2>1. ASSUME NEW k \in Sweepers, Writes(k, w) PROVE mined[w] # 0
    BY <2>1 DEF Writes, EndInv, WatchInv, Memory
  <2>2. QED BY <2>1, WatchRow DEF EndInv, Writes
<1>2. SentInv'
  <2>1. AcceptedIsPaid' BY <1>0 DEF EndInv, SentInv, AcceptedIsPaid
  <2>2. SentMeansPaid' BY <1>0, <1>1 DEF EndInv, SentInv, SentMeansPaid
  <2>3. QED BY <2>1, <2>2 DEF SentInv
<1>3. Orderly'
  <2>1. QuietType
    BY <1>0 DEF QuietType, EndInv, SentInv, JobInv, WatchTypes
  <2>2. QED BY <1>1, <2>1, TableOrderly DEF EndInv
<1>4. RefIsPaid' BY <1>0, <1>1 DEF EndInv, RefIsPaid
<1>5. SentIsMined' BY <1>0, <1>1 DEF EndInv, SentIsMined, Grows
<1>6. QED BY <1>2, <1>3, <1>4, <1>5 DEF EndInv

(* What the job leaves to the watcher.                                      *)
LEMMA EndJobInv ==
  ASSUME Reliable, EndInv, JobInv', WatchInv', Next, OthersTables,
         UNCHANGED watcherVars
  PROVE  EndInv' /\ \A k \in Workers : ~ GatewayAmbiguous(k)
<1>1. SentInv' BY SentStepInv DEF EndInv
<1>2. Orderly' /\ \A k \in Workers : ~ GatewayAmbiguous(k)
  BY OrderlyStep DEF EndInv, SentInv
<1>3. JobMoves BY <1>1, <1>2, JobStepMoves, OrderlyAccounts DEF EndInv
<1>4. TableInv /\ JobTypeOK BY DEF EndInv, SentInv, JobInv
<1>5. \A w \in Withdrawals : paid[w] > 0 => paid'[w] > 0
  BY <1>3, <1>4 DEF JobMoves, JobTypeOK
<1>6. ASSUME NEW w \in Withdrawals, row'[w].ref PROVE paid'[w] > 0
  <2>1. CASE row[w].ref BY <1>5, <2>1 DEF EndInv, RefIsPaid
  <2>2. CASE ~ row[w].ref
    <3>1. row'[w].status \in {"broadcast", "sent"}
      BY <1>4, <1>6, <2>2, OthersRow
    <3>2. QED BY <1>1, <3>1 DEF SentInv, SentMeansPaid
  <2>3. QED BY <2>1, <2>2
<1>7. SentIsMined'
  BY <1>4, OthersRow DEF EndInv, SentIsMined, watcherVars, chainVars
<1>8. QED BY <1>1, <1>2, <1>6, <1>7 DEF EndInv, RefIsPaid

LEMMA EndStep ==
  ASSUME Reliable, EndInv, [SystemNext]_systemVars
  PROVE  EndInv' /\ (EndMoves \/ UNCHANGED systemVars)
<1>0. /\ JobInv /\ WatchInv /\ JobInv' /\ WatchInv' /\ JobTypeOK
  BY SystemStepInv DEF EndInv, SentInv, JobInv
<1>1. ASSUME Next, OthersTables, UNCHANGED watcherVars
      PROVE  EndInv' /\ EndMoves
  <2>1. EndInv' /\ \A k \in Workers : ~ GatewayAmbiguous(k)
    BY <1>0, <1>1, EndJobInv
  <2>2. SentInv' BY <2>1 DEF EndInv
  <2>3. QED BY <1>1, <2>1, <2>2, EndJobMoves
<1>2. CASE (UserStep \/ AdminStep) /\ UNCHANGED <<jobVars, watcherVars>>
  BY <1>1, <1>2 DEF Next, TableStep, OthersTables
<1>3. CASE PayoutStep /\ UNCHANGED watcherVars
  BY <1>0, <1>1, <1>3, HoldIsIdle DEF Next, OthersTables
<1>4. CASE WatchStep /\ UNCHANGED jobVars
  BY <1>0, <1>4, EndWatchInv, EndWatchMoves
<1>5. CASE UNCHANGED systemVars
  <2>1. /\ UNCHANGED <<row, jobVars, pc, task, paid, mined>>
        /\ \A k \in Workers : W(k)' = W(k)
    BY <1>5
    DEF systemVars, tableVars, jobVars, watcherVars, chainVars, W
  <2>2. QuietType
    BY <1>0, <2>1 DEF QuietType, JobInv, TableInv, TableTypeOK
  <2>3. Orderly' BY <2>1, <2>2, TableOrderly DEF EndInv
  <2>4. QED
    BY <1>0, <1>5, <2>1, <2>3
    DEF EndInv, SentInv, AcceptedIsPaid, SentMeansPaid, RefIsPaid,
        SentIsMined
<1>6. QED BY <1>2, <1>3, <1>4, <1>5 DEF SystemNext

(* The contract, with the transfers that the chain reverted.                *)
fates ==
    [w \in Withdrawals |-> IF paid[w] = 0 THEN "none"
                           ELSE IF reverted[w] THEN "reverted"
                           ELSE "made"]

LEMMA EndToEndStep ==
  ASSUME JobTypeOK, EndMoves
  PROVE  EndToEnd!ContractNext \/ UNCHANGED EndToEnd!contractVars
<1>1. CASE UNCHANGED <<paid, reverted>>
  <2>1. fates' = fates BY <1>1 DEF fates
  <2>2. CASE phases' = phases /\ balance' = balance
    BY <2>1, <2>2 DEF EndToEnd!contractVars, phases, fates
  <2>3. ASSUME NEW w \in Withdrawals, Promise!Request(w)
        PROVE  EndToEnd!ContractNext
    <3>1. EndToEnd!Request(w)
      BY <2>3 DEF Promise!Request, EndToEnd!Request
    <3>2. QED BY <2>1, <3>1 DEF EndToEnd!ContractNext, fates
  <2>4. ASSUME NEW w \in Withdrawals, paid[w] > 0, ~ reverted[w],
               Promise!Pay(w)
        PROVE  EndToEnd!ContractNext
    <3>1. EndToEnd!Pay(w) BY <2>4 DEF Promise!Pay, EndToEnd!Pay
    <3>2. fates[w] = "made" BY <2>4 DEF fates, JobTypeOK
    <3>3. QED BY <2>1, <3>1, <3>2 DEF EndToEnd!ContractNext, fates
  <2>5. ASSUME NEW w \in Withdrawals, paid[w] = 0 \/ reverted[w],
               Promise!Return(w)
        PROVE  EndToEnd!ContractNext
    <3>1. EndToEnd!Return(w) BY <2>5 DEF Promise!Return, EndToEnd!Return
    <3>2. fates[w] \in {"none", "reverted"} BY <2>5 DEF fates
    <3>3. QED BY <2>1, <3>1, <3>2 DEF EndToEnd!ContractNext, fates
  <2>6. ASSUME UNCHANGED <<row, balance>> PROVE phases' = phases
    BY <2>6 DEF phases, PhaseOf
  <2>7. CASE UNCHANGED <<row, balance>> BY <2>2, <2>6, <2>7
  <2>8. QED BY <1>1, <2>2, <2>3, <2>4, <2>5, <2>7 DEF EndMoves
<1>2. ASSUME NEW v \in Withdrawals, UNCHANGED <<row, balance, reverted>>,
             phases[v] = "open", paid[v] = 0, ~ reverted[v],
             paid' = [paid EXCEPT ![v] = 1]
      PROVE  EndToEnd!ContractNext
  <2>1. phases' = phases BY <1>2 DEF phases, PhaseOf
  <2>2. fates[v] = "none" BY <1>2 DEF fates
  <2>3. \A w \in Withdrawals : paid'[w] = IF w = v THEN 1 ELSE paid[w]
    BY <1>2 DEF JobTypeOK
  <2>4. \A w \in Withdrawals :
          fates'[w] = IF w = v THEN "made" ELSE fates[w]
    BY <1>2, <2>3 DEF fates
  <2>5. fates' = [fates EXCEPT ![v] = "made"]
    <3>1. /\ fates = [w \in Withdrawals |-> fates[w]]
          /\ fates' = [w \in Withdrawals |-> fates'[w]]
      BY DEF fates
    <3>2. QED BY <2>4, <3>1
  <2>6. EndToEnd!HandOver(v)
    BY <1>2, <2>1, <2>2, <2>5
    DEF EndToEnd!HandOver, EndToEnd!promiseVars, phases, fates
  <2>7. QED BY <2>6 DEF EndToEnd!ContractNext
<1>3. ASSUME UNCHANGED <<row, balance, paid>>,
             \A w \in Withdrawals :
               /\ reverted[w] => reverted'[w]
               /\ reverted'[w] /\ ~ reverted[w]
                    => phases[w] = "open" /\ paid[w] > 0
      PROVE  EndToEnd!ContractNext
  <2>1. phases' = phases BY <1>3 DEF phases, PhaseOf
  <2>2. PICK S \in SUBSET Withdrawals :
          S = {w \in Withdrawals : reverted'[w] /\ ~ reverted[w]}
    OBVIOUS
  <2>3. \A w \in S : phases[w] = "open" /\ fates[w] = "made"
    BY <1>3, <2>2 DEF fates, JobTypeOK
  <2>4. fates' = [w \in Withdrawals |->
                    IF w \in S THEN "reverted" ELSE fates[w]]
    <3>1. \A w \in Withdrawals :
            fates'[w] = IF w \in S THEN "reverted" ELSE fates[w]
      BY <1>3, <2>2 DEF fates, JobTypeOK
    <3>2. fates' = [w \in Withdrawals |-> fates'[w]] BY DEF fates
    <3>3. QED BY <3>1, <3>2
  <2>5. EndToEnd!Revert(S)
    BY <1>3, <2>1, <2>3, <2>4
    DEF EndToEnd!Revert, EndToEnd!promiseVars, phases, fates
  <2>6. QED BY <2>5 DEF EndToEnd!ContractNext
<1>4. QED BY <1>1, <1>2, <1>3 DEF EndMoves

(* From the request to finality: at most one transfer per withdrawal, paid  *)
(* only when the chain holds it, and the money back only when no transfer   *)
(* was made or the chain reverted it, with any number of overlapping and    *)
(* dying sweeps; when nothing fails in the job, with any number of workers, *)
(* and with one worker however often the unique lock is lost.               *)
THEOREM EndToEndKept == Reliable /\ SystemSpec => KeepsEndToEnd
<1> SUFFICES ASSUME Reliable PROVE SystemSpec => KeepsEndToEnd
  OBVIOUS
<1>1. SystemInit => EndInv /\ EndToEnd!ContractInit
  <2> SUFFICES ASSUME SystemInit PROVE EndInv /\ EndToEnd!ContractInit
    OBVIOUS
  <2>1. JobInv /\ WatchInv BY SystemInitInv
  <2>2. SentInv /\ RefIsPaid /\ SentIsMined
    BY <2>1
    DEF SystemInit, TableInit, JobInit, SentInv, AcceptedIsPaid,
        SentMeansPaid, RefIsPaid, SentIsMined
  <2>3. Orderly BY JobOpens DEF SystemInit
  <2>4. Promise!PromiseInit BY PromiseInitStep DEF SystemInit
  <2>5. EndToEnd!ContractInit
    BY <2>4
    DEF SystemInit, JobInit, Promise!PromiseInit, EndToEnd!ContractInit,
        EndToEnd!PromiseInit
  <2>6. QED BY <2>1, <2>2, <2>3, <2>5 DEF EndInv
<1>2. EndInv /\ [SystemNext]_systemVars
        => EndInv' /\ [EndToEnd!ContractNext]_(EndToEnd!contractVars)
  <2> SUFFICES ASSUME EndInv, [SystemNext]_systemVars
      PROVE  /\ EndInv'
             /\ EndToEnd!ContractNext \/ UNCHANGED EndToEnd!contractVars
    OBVIOUS
  <2>1. EndInv' /\ (EndMoves \/ UNCHANGED systemVars) BY EndStep
  <2>2. CASE UNCHANGED systemVars
    BY <2>1, <2>2
    DEF systemVars, tableVars, jobVars, watcherVars, chainVars,
        EndToEnd!contractVars, PhaseOf
  <2>3. JobTypeOK BY DEF EndInv, SentInv, JobInv
  <2>4. QED BY <2>1, <2>2, <2>3, EndToEndStep
<1>3. QED
  BY <1>1, <1>2, PTL DEF SystemSpec, KeepsEndToEnd, EndToEnd!ContractSpec
=============================================================================
