---------------------------- MODULE MCFinalizer ----------------------------
(***************************************************************************)
(* Model-checking instance of Finalizer: one user, two masternodes, three *)
(* sealed blocks of which the second is the Gen2 migration block.  The    *)
(* reward values include one above BigBalance, so that the reward() call  *)
(* can fail for lack of funds.                                            *)
(***************************************************************************)
EXTENDS Finalizer, Functions

MCRewards == {0, 1, 3}
MCGasCosts == {1, 2}

Supply(s) == SumFunction(s.bal)

(***************************************************************************)
(* Value created by a block: the value of its reward transaction when the *)
(* reward() call succeeded, and on the migration block the snapshot total *)
(* that finalizeMigration materialises behind the migration contract.     *)
(***************************************************************************)
MintedBy(blockTxs, blockReceipts) ==
    LET rewarded == {i \in DOMAIN blockTxs :
                        blockTxs[i].kind = "reward" /\ blockReceipts[i].ok}
    IN  SumFunctionOnSet([i \in rewarded |-> blockTxs[i].value], rewarded)
        + (IF IsGen2Migration THEN SnapshotTotal ELSE 0)

(***************************************************************************)
(* Monetary integrity of sealing (processBlockRewards' SetBalance on the  *)
(* faucet, finalizeMigration's SetBalance on the migration contract): the *)
(* total balance of a sealed block exceeds its parent's by exactly the    *)
(* value the block minted; no balance held before the block is lost.      *)
(***************************************************************************)
SealPreservesSupply ==
    [][Seal => Supply(st) = Supply(committed) + MintedBy(txs, receipts)]_vars

(***************************************************************************)
(* Receipts of a block carry cumulative gas (the Ethereum receipt         *)
(* convention the spec's "cumulative gas" refers to): each receipt's      *)
(* cumulative gas is the previous one's plus its own gas, including the   *)
(* receipt processBlockRewards appends.                                   *)
(***************************************************************************)
ReceiptGasCumulative ==
    \A i \in DOMAIN receipts :
        receipts[i].cumGas
            = (IF i = 1 THEN 0 ELSE receipts[i - 1].cumGas) + receipts[i].gas

(***************************************************************************)
(* Spec section 3: on the migration-marked header the engine enforces     *)
(* that the block's two transactions are the migration call and the block *)
(* reward (finalizeMigration's transaction count check): once the         *)
(* migration block is sealed, setSnapshot has recorded the snapshot total *)
(* that finalizeMigration credits to the migration contract.              *)
(***************************************************************************)
MigrationBlockRanSnapshot ==
    height >= MigrationHeight => committed.migTotal = SnapshotTotal
=============================================================================
