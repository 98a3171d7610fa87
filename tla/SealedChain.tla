----------------------------- MODULE SealedChain -----------------------------
(***************************************************************************)
(* What the finalization pipeline promises of the chain of sealed states, *)
(* seen only through the consensus state it maintains.  Each step seals   *)
(* one block: the masternode registry may have changed in any way during  *)
(* the block, and the sealed MasternodeList storage is exactly the        *)
(* registry's new active set; the system faucet has sent exactly one      *)
(* transaction (its reward) and holds nothing; the registry has sent      *)
(* none.  The migration contract's snapshot total is recorded in the     *)
(* migration block and in no other.  Nothing else happens to sealed       *)
(* state: rejected candidate blocks and the steps inside a block are      *)
(* invisible.                                                              *)
(***************************************************************************)
EXTENDS Naturals

CONSTANTS
    Masternodes,  \* masternode addresses that may be announced
    MaxBlocks,    \* bound: number of blocks sealed
    MigrationHeight \* number of the Gen2 migration block

VARIABLES
    sealed,         \* number of sealed blocks
    registry,       \* the registry's active set in the last sealed state
    mnList,         \* the MasternodeList storage in the last sealed state
    faucetNonce,    \* the system faucet's nonce in the last sealed state
    faucetBalance,  \* the system faucet's balance in the last sealed state
    registryNonce,  \* the masternode registry's nonce in the last sealed state
    migrated        \* the total setSnapshot recorded in the migration contract

avars == <<sealed, registry, mnList, faucetNonce, faucetBalance, registryNonce,
           migrated>>

Init ==
    /\ sealed = 0
    /\ registry = {}
    /\ mnList = {}
    /\ faucetNonce = 0
    /\ faucetBalance = 0
    /\ registryNonce = 0
    /\ migrated = 0

SealBlock ==
    /\ sealed < MaxBlocks
    /\ sealed' = sealed + 1
    /\ \E active \in SUBSET Masternodes :
         /\ registry' = active
         /\ mnList' = active
    /\ faucetNonce' = faucetNonce + 1
    /\ IF sealed' = MigrationHeight THEN migrated' \in Nat ELSE UNCHANGED migrated
    /\ UNCHANGED <<faucetBalance, registryNonce>>

Next == SealBlock

Spec == Init /\ [][Next]_avars

=============================================================================
