----------------------------- MODULE Finalizer -----------------------------
(***************************************************************************)
(* The block-finalization pipeline of the Range consensus engine           *)
(* (src/range/consensus), on one chain of blocks.                          *)
(*                                                                         *)
(* A block is built in two phases.  First ordinary transactions are        *)
(* applied to a working state database `st` (transfers, masternode        *)
(* announce/denounce, and on the designated block the Gen2 migration       *)
(* setup transaction).  Then the engine finalizes it, strictly in order:   *)
(* processMasternodes, processBlockRewards, finalizeMigration.  Any        *)
(* error rejects the candidate block: the working state is thrown away     *)
(* and the next attempt starts again from the last sealed state            *)
(* `committed`.                                                            *)
(*                                                                         *)
(* Contract calls are abstracted to their effect on the few pieces of      *)
(* state the properties tell apart: balances, account nonces, the          *)
(* masternode registry's active set, the MasternodeList storage and the    *)
(* migration contract's recorded total.                                    *)
(***************************************************************************)
EXTENDS Naturals, Sequences

CONSTANTS
    Users,          \* externally owned accounts (model values)
    Masternodes,    \* masternode addresses that may be announced
    Rewards,        \* amounts getReward(blockNumber) may return
    GasCosts,       \* gas an executed transaction may use
    BigBalance,     \* BigBalance = MaxBig256 / 2, credited to the faucet
    InitBalance,    \* genesis balance of every user
    SnapshotTotal,  \* sum of the amounts setSnapshot records
    MigrationHeight,\* number of the block whose header IsGen2Migration
    MaxBlocks,      \* bound: number of blocks sealed
    MaxTxs          \* bound: ordinary transactions per block

ASSUME ConstantsAssumption ==
    /\ Rewards \subseteq Nat
    /\ GasCosts \subseteq Nat \ {0}
    /\ BigBalance \in Nat
    /\ InitBalance \in Nat
    /\ SnapshotTotal \in Nat
    /\ MigrationHeight \in Nat \ {0}
    /\ MaxBlocks \in Nat
    /\ MaxTxs \in Nat

(***************************************************************************)
(* System contract addresses (params/accounts.go).                         *)
(***************************************************************************)
SystemFaucet       == "SystemFaucet"
BlockReward        == "BlockReward"
MasternodeRegistry == "MasternodeRegistry"
MigrationContract  == "MigrationContract"
MigrationSigner    == "MigrationSigner"

SystemAccounts == {SystemFaucet, BlockReward, MasternodeRegistry,
                   MigrationContract, MigrationSigner}

(***************************************************************************)
(* No user holds the key of a system account.                              *)
(***************************************************************************)
ASSUME UsersAssumption == Users \cap SystemAccounts = {}

Addr == Users \cup SystemAccounts

(***************************************************************************)
(* The part of a state database the model keeps.  migTotal is the total   *)
(* the migration contract records in setSnapshot and returns from          *)
(* totalAmount().                                                          *)
(***************************************************************************)
StateDB == [bal: [Addr -> Nat], nonce: [Addr -> Nat],
            registry: SUBSET Masternodes, mnList: SUBSET Masternodes,
            migTotal: Nat]

TxKinds == {"transfer", "announce", "denounce", "migration", "reward"}
Tx == [kind: TxKinds, from: Addr, nonce: Nat, value: Nat, consensus: BOOLEAN]
Receipt == [ok: BOOLEAN, cumGas: Nat, gas: Nat]

Phases == {"txs", "masternodes", "rewards", "migration", "seal"}

VARIABLES
    committed,  \* state of the last sealed block
    st,         \* working state database of the block under construction
    txs,        \* its transactions
    receipts,   \* their receipts
    gasUsed,    \* header.GasUsed
    pc,         \* finalization step the block has reached
    height      \* number of the last sealed block

vars == <<committed, st, txs, receipts, gasUsed, pc, height>>

(***************************************************************************)
(* The state database operations the handlers call: StateDB.SetBalance   *)
(* and the nonce increment ApplyMessage performs on the sender.          *)
(***************************************************************************)
SetBalance(s, a, v) == [s EXCEPT !.bal[a] = v]
IncNonce(s, a) == [s EXCEPT !.nonce[a] = @ + 1]

(***************************************************************************)
(* The header of the block under construction carries the Gen2 migration  *)
(* marker.                                                                 *)
(***************************************************************************)
IsGen2MigrationOffByOne == height = MigrationHeight

IsGen2Migration == height + 1 = MigrationHeight

(***************************************************************************)
(* A read-only governance call: Snapshot(), ApplyMessage(), then          *)
(* RevertToSnapshot() before the error is even looked at.  ApplyMessage   *)
(* increments the sender's nonce; the revert undoes it with everything    *)
(* else the call wrote, so the state is returned as it was.               *)
(***************************************************************************)
ReadOnlyCallNoRevert(s, from) == IncNonce(s, from)
ReadOnlyCall(s, from) == s

(***************************************************************************)
(* ConsensusSigner.Sender: the attached consensus sender of a consensus   *)
(* transaction, an error for any other transaction.                       *)
(***************************************************************************)
NotConsensusTx == "NotConsensusTx"
Sender(tx) == IF tx.consensus THEN tx.from ELSE NotConsensusTx

(***************************************************************************)
(* The candidate block is rejected: its working state, transactions and   *)
(* receipts are discarded and the next attempt starts from the parent.    *)
(***************************************************************************)
RejectBlockRetry ==
    /\ st' = committed
    /\ txs' = << >>
    /\ receipts' = << >>
    /\ gasUsed' = 0
    /\ pc' = "masternodes"
    /\ UNCHANGED <<committed, height>>

RejectBlock ==
    /\ st' = committed
    /\ txs' = << >>
    /\ receipts' = << >>
    /\ gasUsed' = 0
    /\ pc' = "txs"
    /\ UNCHANGED <<committed, height>>

(***************************************************************************)
(* An ordinary transaction is applied by the state processor: its sender's *)
(* nonce is incremented, its gas is added to header.GasUsed and its        *)
(* receipt carries the new cumulative gas.                                 *)
(***************************************************************************)
ApplyUserTx(tx, s, g) ==
    /\ st' = IncNonce(s, tx.from)
    /\ txs' = Append(txs, tx)
    /\ receipts' = Append(receipts, [ok |-> TRUE, cumGas |-> gasUsed + g, gas |-> g])
    /\ gasUsed' = gasUsed + g

UserTxAllowed ==
    /\ pc = "txs"
    /\ height < MaxBlocks
    /\ Len(txs) < MaxTxs

UserTx(u, kind, value) ==
    [kind |-> kind, from |-> u, nonce |-> st.nonce[u], value |-> value,
     consensus |-> FALSE]

TransferUnchecked(u, to, amt) ==
    /\ UserTxAllowed
    /\ \E g \in GasCosts :
         ApplyUserTx(UserTx(u, "transfer", amt),
                     SetBalance(SetBalance(st, u, st.bal[u] - amt), to, st.bal[to] + amt), g)
    /\ UNCHANGED <<committed, pc, height>>

Transfer(u, to, amt) ==
    /\ UserTxAllowed
    /\ amt <= st.bal[u]
    /\ \E g \in GasCosts :
         ApplyUserTx(UserTx(u, "transfer", amt),
                     SetBalance(SetBalance(st, u, st.bal[u] - amt), to, st.bal[to] + amt), g)
    /\ UNCHANGED <<committed, pc, height>>

Announce(u, m) ==
    /\ UserTxAllowed
    /\ m \notin st.registry
    /\ \E g \in GasCosts :
         ApplyUserTx(UserTx(u, "announce", 0),
                     [st EXCEPT !.registry = @ \cup {m}], g)
    /\ UNCHANGED <<committed, pc, height>>

Denounce(u, m) ==
    /\ UserTxAllowed
    /\ m \in st.registry
    /\ \E g \in GasCosts :
         ApplyUserTx(UserTx(u, "denounce", 0),
                     [st EXCEPT !.registry = @ \ {m}], g)
    /\ UNCHANGED <<committed, pc, height>>

(***************************************************************************)
(* The producer's migration transaction (MigrationTx): nonce 0 from the   *)
(* migration signer, first in the migration block, calling setSnapshot.   *)
(***************************************************************************)
SubmitMigrationTx ==
    /\ UserTxAllowed
    /\ IsGen2Migration
    /\ txs = << >>
    /\ st.nonce[MigrationSigner] = 0
    /\ \E g \in GasCosts :
         ApplyUserTx([kind |-> "migration", from |-> MigrationSigner,
                      nonce |-> 0, value |-> 0, consensus |-> FALSE],
                     [st EXCEPT !.migTotal = SnapshotTotal], g)
    /\ UNCHANGED <<committed, pc, height>>

(***************************************************************************)
(* The engine's Finalize is called on the block.                           *)
(***************************************************************************)
BeginFinalize ==
    /\ pc = "txs"
    /\ height < MaxBlocks
    /\ pc' = "masternodes"
    /\ UNCHANGED <<committed, st, txs, receipts, gasUsed, height>>

(***************************************************************************)
(* processMasternodes: enumerateActive() on the registry inside a         *)
(* reverted snapshot; on success every returned address is set in the     *)
(* MasternodeList storage and CleanupStorage(keep) removes the rest.      *)
(***************************************************************************)
SyncMasternodeListNoCleanup(list, active) == list \cup active
SyncMasternodeList(list, active) == active

ProcessMasternodes ==
    /\ pc = "masternodes"
    /\ LET s == ReadOnlyCall(st, MasternodeRegistry)
       IN \/ /\ st' = [s EXCEPT !.mnList = SyncMasternodeList(@, s.registry)]
             /\ pc' = "rewards"
             /\ UNCHANGED <<committed, txs, receipts, gasUsed, height>>
          \/ RejectBlock   \* enumerateActive() failed or did not unpack

(***************************************************************************)
(* processBlockRewards.  The faucet is set to BigBalance and, by the      *)
(* deferred call, to zero on every exit.  getReward() runs in a reverted  *)
(* snapshot; reward() runs for real as a consensus transaction with the   *)
(* faucet's current nonce.  ApplyMessage fails (err) when the faucet      *)
(* cannot pay the value; a reverted call (failed) keeps the value with    *)
(* the faucet but still consumes the nonce.  The receipt's cumulative gas *)
(* is header.GasUsed as passed in.                                        *)
(***************************************************************************)
ResetFaucetSkipped(s) == s
ResetFaucet(s) == SetBalance(s, SystemFaucet, 0)

RewardTx(s, r) ==
    [kind |-> "reward", from |-> SystemFaucet, nonce |-> s.nonce[SystemFaucet],
     value |-> r, consensus |-> TRUE]

(***************************************************************************)
(* ApplyMessage returns err, a hard error, when the sender cannot pay the *)
(* transferred value (ErrInsufficientBalance).                            *)
(***************************************************************************)
CanPay(s, tx) == tx.value <= s.bal[tx.from]

ApplyReward(s, tx, failed) ==
    IF failed
    THEN IncNonce(s, SystemFaucet)
    ELSE SetBalance(SetBalance(IncNonce(s, SystemFaucet), SystemFaucet,
                               s.bal[SystemFaucet] - tx.value),
                    BlockReward, s.bal[BlockReward] + tx.value)

ProcessBlockRewards ==
    /\ pc = "rewards"
    /\ LET s1 == ReadOnlyCall(SetBalance(st, SystemFaucet, BigBalance),
                              SystemFaucet)
       IN \/ \E r \in Rewards, failed \in BOOLEAN, g \in GasCosts :
               LET tx == RewardTx(s1, r)
               IN /\ Sender(tx) = SystemFaucet
                  /\ CanPay(s1, tx)
                  /\ st' = ResetFaucet(ApplyReward(s1, tx, failed))
                  /\ txs' = Append(txs, tx)
                  /\ receipts' = Append(receipts,
                                   [ok |-> ~failed, cumGas |-> gasUsed, gas |-> g])
                  /\ pc' = "migration"
                  /\ UNCHANGED <<committed, gasUsed, height>>
          \/ /\ \E r \in Rewards : ~CanPay(s1, RewardTx(s1, r))
             /\ RejectBlock  \* reward() cannot pay the value
          \/ RejectBlock     \* getReward() failed or did not unpack

(***************************************************************************)
(* finalizeMigration: a no-op unless the header is the migration block;   *)
(* there it requires exactly two transactions, reads totalAmount() in a    *)
(* reverted snapshot and sets the migration contract's balance to it.     *)
(***************************************************************************)
FinalizeMigration ==
    /\ pc = "migration"
    /\ \/ /\ ~IsGen2Migration
          /\ pc' = "seal"
          /\ UNCHANGED <<committed, st, txs, receipts, gasUsed, height>>
       \/ /\ IsGen2Migration
          /\ Len(txs) # 2
          /\ RejectBlock
       \/ /\ IsGen2Migration
          /\ Len(txs) = 2
          /\ LET s == ReadOnlyCall(st, SystemFaucet)
             IN \/ /\ st' = SetBalance(s, MigrationContract, s.migTotal)
                   /\ pc' = "seal"
                   /\ UNCHANGED <<committed, txs, receipts, gasUsed, height>>
                \/ RejectBlock  \* totalAmount() failed or did not unpack

(***************************************************************************)
(* The finalized block is sealed and its state becomes the parent of the  *)
(* next block.                                                             *)
(***************************************************************************)
SealEarly ==
    /\ pc \in {"migration", "seal"}
    /\ committed' = st
    /\ height' = height + 1
    /\ txs' = << >>
    /\ receipts' = << >>
    /\ gasUsed' = 0
    /\ pc' = "txs"
    /\ UNCHANGED st

Seal ==
    /\ pc = "seal"
    /\ committed' = st
    /\ height' = height + 1
    /\ txs' = << >>
    /\ receipts' = << >>
    /\ gasUsed' = 0
    /\ pc' = "txs"
    /\ UNCHANGED st

(***************************************************************************)
(* The bound on sealed blocks is reached.                                  *)
(***************************************************************************)
Terminated ==
    /\ pc = "txs"
    /\ height = MaxBlocks
    /\ UNCHANGED vars

GenesisState ==
    [bal |-> [a \in Addr |-> IF a \in Users THEN InitBalance ELSE 0],
     nonce |-> [a \in Addr |-> 0],
     registry |-> {}, mnList |-> {}, migTotal |-> 0]

Init ==
    /\ committed = GenesisState
    /\ st = GenesisState
    /\ txs = << >>
    /\ receipts = << >>
    /\ gasUsed = 0
    /\ pc = "txs"
    /\ height = 0

Next ==
    \/ \E u \in Users : \E to \in Addr \ {u}, amt \in 1..InitBalance :
         Transfer(u, to, amt)
    \/ \E u \in Users, m \in Masternodes : Announce(u, m) \/ Denounce(u, m)
    \/ SubmitMigrationTx
    \/ BeginFinalize
    \/ ProcessMasternodes
    \/ ProcessBlockRewards
    \/ FinalizeMigration
    \/ Seal
    \/ Terminated

Spec == Init /\ [][Next]_vars

(***************************************************************************)
(* Once the engine's Finalize is called it runs its steps one after the   *)
(* other in a single synchronous call, with no waiting: each step that    *)
(* can run is eventually taken.  Whether a producer starts a block        *)
(* (BeginFinalize) or adds a transaction is not constrained.              *)
(***************************************************************************)
FairSpec ==
    /\ Spec
    /\ WF_vars(ProcessMasternodes)
    /\ WF_vars(ProcessBlockRewards)
    /\ WF_vars(FinalizeMigration)
    /\ WF_vars(Seal)

-----------------------------------------------------------------------------
(***************************************************************************)
(* Type invariant.                                                         *)
(***************************************************************************)
TypeOK ==
    /\ committed \in StateDB
    /\ st \in StateDB
    /\ txs \in Seq(Tx)
    /\ receipts \in Seq(Receipt)
    /\ gasUsed \in Nat
    /\ pc \in Phases
    /\ height \in 0..MaxBlocks

(***************************************************************************)
(* Masternode sync is a full reconciliation (processMasternodes with      *)
(* CleanupStorage): in every sealed state the MasternodeList storage       *)
(* holds exactly the registry's active set, however the set changed over  *)
(* the earlier blocks (announce, sync, denounce, sync).                   *)
(***************************************************************************)
MNListMirrorsRegistry == committed.mnList = committed.registry

(***************************************************************************)
(* The BigBalance credited to the system faucet in processBlockRewards    *)
(* never survives into a sealed state: the deferred reset leaves it zero. *)
(***************************************************************************)
FaucetDrained == committed.bal[SystemFaucet] = 0

(***************************************************************************)
(* The read-only calls (enumerateActive, getReward, totalAmount) leave no *)
(* trace: in every sealed state the faucet's nonce counts exactly the     *)
(* reward transactions of the sealed blocks, one per block, and the       *)
(* registry, which only ever sends read-only calls, still has nonce 0.    *)
(***************************************************************************)
SystemNoncesMatchHistory ==
    /\ committed.nonce[SystemFaucet] = height
    /\ committed.nonce[MasternodeRegistry] = 0

-----------------------------------------------------------------------------
(***************************************************************************)
(* Refinement mapping: the abstract chain is read off the last sealed     *)
(* state `committed`.                                                      *)
(***************************************************************************)
Chain == INSTANCE SealedChain WITH
    sealed        <- height,
    registry      <- committed.registry,
    mnList        <- committed.mnList,
    faucetNonce   <- committed.nonce[SystemFaucet],
    faucetBalance <- committed.bal[SystemFaucet],
    registryNonce <- committed.nonce[MasternodeRegistry],
    migrated      <- committed.migTotal

(***************************************************************************)
(* The pipeline implements the sealed-chain specification: every step of  *)
(* a block (user transactions, processMasternodes, processBlockRewards,   *)
(* finalizeMigration, any reject) leaves the sealed state alone, and      *)
(* sealing a block advances it by one block in which the MasternodeList   *)
(* equals the registry, the faucet has sent one transaction and is empty, *)
(* the registry has sent none, and setSnapshot's total changed only if    *)
(* the block is the migration block.                                       *)
(***************************************************************************)
ChainRefinement == Chain!Spec

(***************************************************************************)
(* Every call of Finalize returns (spec section 5: the layer propagates   *)
(* the first failure and retries nothing internally): a candidate block   *)
(* that entered finalization is eventually sealed or rejected, and the    *)
(* producer is back to building a block.                                   *)
(***************************************************************************)
FinalizeReturns == pc # "txs" ~> pc = "txs"

(***************************************************************************)
(* No partial application (spec section 5): the sealed state changes only *)
(* when a block that went through processMasternodes,                     *)
(* processBlockRewards and finalizeMigration is sealed, and then by       *)
(* exactly one block; a block rejected at any step, or one that skipped a *)
(* step, never reaches the chain.                                          *)
(***************************************************************************)
NoPartialCommit ==
    [][committed' # committed => pc = "seal" /\ height' = height + 1]_vars

=============================================================================
