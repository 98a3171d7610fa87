-------------------------- MODULE FinalizerProofs --------------------------
(***************************************************************************)
(* Proofs about the finalization pipeline of module Finalizer, for every  *)
(* value of its constants.                                                 *)
(***************************************************************************)
EXTENDS Finalizer, TLAPS

USE ConstantsAssumption, UsersAssumption

(***************************************************************************)
(* The system accounts are distinct addresses, none of them a user's.     *)
(***************************************************************************)
LEMMA SystemAddr ==
    /\ SystemFaucet \in Addr /\ BlockReward \in Addr
    /\ MasternodeRegistry \in Addr /\ MigrationContract \in Addr
    /\ MigrationSigner \in Addr
    /\ \A u \in Users : u \notin SystemAccounts
BY DEF Addr, SystemAccounts

(***************************************************************************)
(* What StateDB.SetBalance and the nonce increment change, and what they  *)
(* leave alone.                                                            *)
(***************************************************************************)
LEMMA SetBalanceFacts ==
    ASSUME NEW s \in StateDB, NEW a \in Addr, NEW v \in Nat
    PROVE  /\ SetBalance(s, a, v) \in StateDB
           /\ SetBalance(s, a, v).nonce = s.nonce
           /\ SetBalance(s, a, v).registry = s.registry
           /\ SetBalance(s, a, v).mnList = s.mnList
           /\ SetBalance(s, a, v).migTotal = s.migTotal
<1>1. [s.bal EXCEPT ![a] = v] \in [Addr -> Nat]
    BY DEF StateDB
<1>. QED
    BY <1>1 DEF SetBalance, StateDB

LEMMA SetBalanceBal ==
    ASSUME NEW s \in StateDB, NEW a \in Addr, NEW v \in Nat
    PROVE  SetBalance(s, a, v).bal = [s.bal EXCEPT ![a] = v]
BY DEF SetBalance, StateDB

LEMMA IncNonceFacts ==
    ASSUME NEW s \in StateDB, NEW a \in Addr
    PROVE  /\ IncNonce(s, a) \in StateDB
           /\ IncNonce(s, a).bal = s.bal
           /\ IncNonce(s, a).registry = s.registry
           /\ IncNonce(s, a).mnList = s.mnList
           /\ IncNonce(s, a).migTotal = s.migTotal
<1>1. [s.nonce EXCEPT ![a] = s.nonce[a] + 1] \in [Addr -> Nat]
    BY DEF StateDB
<1>. QED
    BY <1>1 DEF IncNonce, StateDB

LEMMA IncNonceNonce ==
    ASSUME NEW s \in StateDB, NEW a \in Addr
    PROVE  IncNonce(s, a).nonce = [s.nonce EXCEPT ![a] = s.nonce[a] + 1]
BY DEF IncNonce, StateDB

-----------------------------------------------------------------------------
(***************************************************************************)
(* TypeOK is not inductive by itself: Seal increments height without a   *)
(* guard of its own, relying on BeginFinalize having checked the bound    *)
(* when the block left the transaction phase.                             *)
(***************************************************************************)
TypeInv ==
    /\ TypeOK
    /\ pc # "txs" => height < MaxBlocks

LEMMA InitTypeInv == Init => TypeInv
BY DEF Init, TypeInv, TypeOK, GenesisState, StateDB, Addr, Phases

(***************************************************************************)
(* Applying an ordinary transaction to a well-typed working state keeps   *)
(* the block's state, transactions, receipts and gas well typed.          *)
(***************************************************************************)
LEMMA ApplyUserTxType ==
    ASSUME TypeOK, NEW tx \in Tx, NEW s \in StateDB, NEW g \in GasCosts,
           tx.from \in Addr, ApplyUserTx(tx, s, g)
    PROVE  /\ st' \in StateDB
           /\ txs' \in Seq(Tx)
           /\ receipts' \in Seq(Receipt)
           /\ gasUsed' \in Nat
<1>1. st' \in StateDB
    BY IncNonceFacts DEF ApplyUserTx
<1>2. [ok |-> TRUE, cumGas |-> gasUsed + g, gas |-> g] \in Receipt
    BY DEF TypeOK, Receipt
<1>. QED
    BY <1>1, <1>2 DEF ApplyUserTx, TypeOK

(***************************************************************************)
(* The transactions users can send are well-typed transactions.           *)
(***************************************************************************)
LEMMA UserTxType ==
    ASSUME TypeOK, NEW u \in Users, NEW k \in TxKinds, NEW v \in Nat
    PROVE  UserTx(u, k, v) \in Tx /\ UserTx(u, k, v).from \in Addr
BY DEF UserTx, Tx, TypeOK, StateDB, Addr

LEMMA RejectType ==
    ASSUME TypeInv, RejectBlock
    PROVE  TypeInv'
BY DEF RejectBlock, TypeInv, TypeOK, Phases

LEMMA NextTypeInv == TypeInv /\ [Next]_vars => TypeInv'
<1> SUFFICES ASSUME TypeInv, [Next]_vars PROVE TypeInv'
    OBVIOUS
<1> USE SystemAddr
<1>1. ASSUME NEW u \in Users, NEW to \in Addr \ {u}, NEW amt \in 1..InitBalance,
             Transfer(u, to, amt)
      PROVE  TypeInv'
    <2> DEFINE s == SetBalance(SetBalance(st, u, st.bal[u] - amt), to, st.bal[to] + amt)
    <2>1. u \in Addr /\ to \in Addr /\ st \in StateDB
        BY DEF Addr, TypeInv, TypeOK
    <2>2. st.bal[u] \in Nat /\ st.bal[to] \in Nat /\ amt <= st.bal[u]
        BY <1>1, <2>1 DEF Transfer, StateDB
    <2>3. st.bal[u] - amt \in Nat /\ st.bal[to] + amt \in Nat
        BY <2>2
    <2>4. SetBalance(st, u, st.bal[u] - amt) \in StateDB
        BY <2>1, <2>3, SetBalanceFacts
    <2>5. s \in StateDB
        BY <2>1, <2>3, <2>4, SetBalanceFacts
    <2>6. UserTx(u, "transfer", amt) \in Tx /\ UserTx(u, "transfer", amt).from \in Addr
        BY UserTxType DEF TypeInv, TxKinds
    <2>7. PICK g \in GasCosts : ApplyUserTx(UserTx(u, "transfer", amt), s, g)
        BY <1>1 DEF Transfer
    <2>8. /\ st' \in StateDB
          /\ txs' \in Seq(Tx)
          /\ receipts' \in Seq(Receipt)
          /\ gasUsed' \in Nat
        BY <2>5, <2>6, <2>7, ApplyUserTxType DEF TypeInv
    <2>. QED
        BY <1>1, <2>8 DEF Transfer, TypeInv, TypeOK, UserTxAllowed
<1>2. ASSUME NEW u \in Users, NEW m \in Masternodes, Announce(u, m) \/ Denounce(u, m)
      PROVE  TypeInv'
    <2>1. /\ [st EXCEPT !.registry = @ \cup {m}] \in StateDB
          /\ [st EXCEPT !.registry = @ \ {m}] \in StateDB
        BY DEF TypeInv, TypeOK, StateDB
    <2>. QED
        BY <1>2, <2>1, UserTxType, ApplyUserTxType
        DEF Announce, Denounce, TypeInv, TypeOK, UserTxAllowed, TxKinds
<1>3. CASE SubmitMigrationTx
    <2>1. [kind |-> "migration", from |-> MigrationSigner,
           nonce |-> 0, value |-> 0, consensus |-> FALSE] \in Tx
        BY DEF Tx, TxKinds
    <2>2. [st EXCEPT !.migTotal = SnapshotTotal] \in StateDB
        BY DEF TypeInv, TypeOK, StateDB
    <2>. QED
        BY <1>3, <2>1, <2>2, ApplyUserTxType
        DEF SubmitMigrationTx, TypeInv, TypeOK, UserTxAllowed
<1>4. CASE BeginFinalize
    BY <1>4 DEF BeginFinalize, TypeInv, TypeOK, Phases
<1>5. CASE ProcessMasternodes
    <2>1. CASE RejectBlock
        BY <2>1, RejectType
    <2>2. CASE ~RejectBlock
        BY <1>5, <2>2 DEF ProcessMasternodes, ReadOnlyCall, SyncMasternodeList,
                          TypeInv, TypeOK, StateDB, Phases
    <2>. QED
        BY <2>1, <2>2
<1>6. CASE ProcessBlockRewards
    <2> DEFINE s1 == ReadOnlyCall(SetBalance(st, SystemFaucet, BigBalance),
                                  SystemFaucet)
    <2>1. s1 \in StateDB
        BY SetBalanceFacts DEF ReadOnlyCall, TypeInv, TypeOK
    <2>2. ASSUME NEW r \in Rewards, NEW failed \in BOOLEAN, NEW g \in GasCosts,
                 RewardTx(s1, r).value <= s1.bal[SystemFaucet],
                 st' = ResetFaucet(ApplyReward(s1, RewardTx(s1, r), failed)),
                 txs' = Append(txs, RewardTx(s1, r)),
                 receipts' = Append(receipts,
                                [ok |-> ~failed, cumGas |-> gasUsed, gas |-> g]),
                 pc' = "migration",
                 UNCHANGED <<committed, gasUsed, height>>,
                 pc = "rewards"
          PROVE  TypeInv'
        <3>1. RewardTx(s1, r) \in Tx
            BY <2>1 DEF RewardTx, Tx, TxKinds, StateDB
        <3>2. ApplyReward(s1, RewardTx(s1, r), failed) \in StateDB
            <4>1. IncNonce(s1, SystemFaucet) \in StateDB
                BY <2>1, IncNonceFacts
            <4>2. s1.bal[SystemFaucet] = BigBalance /\ s1.bal[BlockReward] \in Nat
                <5>1. s1 = SetBalance(st, SystemFaucet, BigBalance)
                    BY DEF ReadOnlyCall
                <5>2. s1.bal = [st.bal EXCEPT ![SystemFaucet] = BigBalance]
                    BY <5>1, SetBalanceBal, SystemAddr DEF TypeInv, TypeOK
                <5>3. st.bal \in [Addr -> Nat]
                    BY DEF TypeInv, TypeOK, StateDB
                <5>. QED
                    BY <5>2, <5>3, SystemAddr
            <4>3. r <= BigBalance /\ r \in Nat
                BY <2>2, <4>2 DEF RewardTx
            <4>4. /\ s1.bal[SystemFaucet] - r \in Nat
                  /\ s1.bal[BlockReward] + r \in Nat
                BY <4>2, <4>3
            <4>5. SetBalance(IncNonce(s1, SystemFaucet), SystemFaucet,
                             s1.bal[SystemFaucet] - r) \in StateDB
                BY <4>1, <4>4, SetBalanceFacts, SystemAddr
            <4>6. SetBalance(SetBalance(IncNonce(s1, SystemFaucet), SystemFaucet,
                                        s1.bal[SystemFaucet] - r),
                             BlockReward, s1.bal[BlockReward] + r) \in StateDB
                BY <4>4, <4>5, SetBalanceFacts, SystemAddr
            <4>. QED
                BY <4>1, <4>6 DEF ApplyReward, RewardTx
        <3>3. ResetFaucet(ApplyReward(s1, RewardTx(s1, r), failed)) \in StateDB
            BY <3>2, SetBalanceFacts DEF ResetFaucet
        <3>4. [ok |-> ~failed, cumGas |-> gasUsed, gas |-> g] \in Receipt
            BY DEF TypeInv, TypeOK, Receipt
        <3>5. txs' \in Seq(Tx) /\ receipts' \in Seq(Receipt)
            BY <2>2, <3>1, <3>4 DEF TypeInv, TypeOK
        <3>6. height' < MaxBlocks /\ height' \in 0..MaxBlocks
            BY <2>2 DEF TypeInv, TypeOK
        <3>. QED
            BY <2>2, <3>3, <3>5, <3>6 DEF TypeInv, TypeOK, Phases
    <2>. QED
        BY <1>6, <2>2, RejectType DEF ProcessBlockRewards, CanPay, RewardTx
<1>7. CASE FinalizeMigration
    <2>1. CASE RejectBlock
        BY <2>1, RejectType
    <2>2. CASE ~RejectBlock
        <3>1. SetBalance(st, MigrationContract, st.migTotal) \in StateDB
            BY SetBalanceFacts DEF TypeInv, TypeOK, StateDB
        <3>. QED
            BY <1>7, <2>2, <3>1 DEF FinalizeMigration, ReadOnlyCall, TypeInv,
                                    TypeOK, Phases
    <2>. QED
        BY <2>1, <2>2
<1>8. CASE Seal
    BY <1>8 DEF Seal, TypeInv, TypeOK, Phases
<1>9. CASE Terminated
    BY <1>9 DEF Terminated, TypeInv, TypeOK, vars
<1>10. CASE UNCHANGED vars
    BY <1>10 DEF TypeInv, TypeOK, vars
<1>. QED
    BY <1>1, <1>2, <1>3, <1>4, <1>5, <1>6, <1>7, <1>8, <1>9, <1>10 DEF Next

(***************************************************************************)
(* Type correctness of the finalization pipeline: every reachable state   *)
(* of the block-building and finalization steps is well typed.            *)
(***************************************************************************)
THEOREM TypeCorrect == Spec => []TypeOK
<1>1. Init => TypeInv
    BY InitTypeInv
<1>2. TypeInv /\ [Next]_vars => TypeInv'
    BY NextTypeInv
<1>3. TypeInv => TypeOK
    BY DEF TypeInv
<1>. QED
    BY <1>1, <1>2, <1>3, PTL DEF Spec

-----------------------------------------------------------------------------
(***************************************************************************)
(* The three sealed-state invariants speak of `committed` only, which     *)
(* changes only when Seal copies the working state into it.  They are     *)
(* inductive once the working state is constrained as the finalization   *)
(* steps leave it: no transaction is ever sent from the registry; the      *)
(* faucet's nonce is bumped exactly once, by the reward transaction; and  *)
(* after processMasternodes and processBlockRewards the list mirrors the   *)
(* registry and the faucet is empty.                                       *)
(***************************************************************************)
WorkingInv ==
    /\ st.nonce[MasternodeRegistry] = 0
    /\ st.nonce[SystemFaucet] =
         IF pc \in {"migration", "seal"} THEN height + 1 ELSE height
    /\ pc \in {"rewards", "migration", "seal"} => st.mnList = st.registry
    /\ pc \in {"migration", "seal"} => st.bal[SystemFaucet] = 0

IInv ==
    /\ TypeInv
    /\ MNListMirrorsRegistry
    /\ FaucetDrained
    /\ SystemNoncesMatchHistory
    /\ WorkingInv


LEMMA InitIInv == Init => IInv
<1> SUFFICES ASSUME Init PROVE IInv
    OBVIOUS
<1>1. TypeInv
    BY InitTypeInv
<1>2. SystemFaucet \notin Users /\ SystemFaucet \in Addr /\ MasternodeRegistry \in Addr
    BY SystemAddr DEF SystemAccounts
<1>3. /\ GenesisState.nonce[SystemFaucet] = 0
      /\ GenesisState.nonce[MasternodeRegistry] = 0
      /\ GenesisState.bal[SystemFaucet] = 0
      /\ GenesisState.mnList = GenesisState.registry
    BY <1>2 DEF GenesisState
<1>. QED
    BY <1>1, <1>3 DEF Init, IInv, WorkingInv, MNListMirrorsRegistry, FaucetDrained,
                      SystemNoncesMatchHistory

(***************************************************************************)
(* Rejecting the candidate block restores the sealed state as working     *)
(* state, which satisfies the working invariant of the transaction phase. *)
(***************************************************************************)
LEMMA RejectIInv ==
    ASSUME IInv, RejectBlock
    PROVE  IInv'
<1>1. TypeInv'
    BY RejectType DEF IInv
<1>. QED
    BY <1>1 DEF RejectBlock, IInv, WorkingInv, MNListMirrorsRegistry,
                FaucetDrained, SystemNoncesMatchHistory

(***************************************************************************)
(* An ordinary transaction, sent by a user or by the migration signer, on *)
(* a working state with the same nonces, leaves the invariant intact.     *)
(***************************************************************************)
LEMMA ApplyUserTxIInv ==
    ASSUME IInv, TypeInv', NEW tx \in Tx, NEW s \in StateDB, NEW g \in GasCosts,
           tx.from \in Users \cup {MigrationSigner}, s.nonce = st.nonce,
           pc = "txs", ApplyUserTx(tx, s, g), UNCHANGED <<committed, pc, height>>
    PROVE  IInv'
<1>1. tx.from \in Addr /\ tx.from # SystemFaucet /\ tx.from # MasternodeRegistry
    BY SystemAddr DEF Addr, SystemAccounts, SystemFaucet, MasternodeRegistry,
                      MigrationSigner
<1>2. st'.nonce = [s.nonce EXCEPT ![tx.from] = s.nonce[tx.from] + 1]
    BY <1>1, IncNonceNonce DEF ApplyUserTx
<1>3. s.nonce \in [Addr -> Nat]
    BY DEF StateDB
<1>4. st'.nonce[SystemFaucet] = s.nonce[SystemFaucet]
      /\ st'.nonce[MasternodeRegistry] = s.nonce[MasternodeRegistry]
    BY <1>1, <1>2, <1>3, SystemAddr
<1>. QED
    BY <1>4 DEF IInv, WorkingInv, MNListMirrorsRegistry, FaucetDrained,
                SystemNoncesMatchHistory

(***************************************************************************)
(* What the reward transaction does to the faucet-funded state: it bumps  *)
(* the faucet's nonce, whether the call failed or not, and touches neither *)
(* the registry nor the masternode list.                                   *)
(***************************************************************************)
LEMMA ApplyRewardFacts ==
    ASSUME NEW db \in StateDB, NEW tx, NEW failed \in BOOLEAN,
           tx.value \in Nat, tx.value <= db.bal[SystemFaucet]
    PROVE  /\ ApplyReward(db, tx, failed) \in StateDB
           /\ ApplyReward(db, tx, failed).nonce =
                [db.nonce EXCEPT ![SystemFaucet] = db.nonce[SystemFaucet] + 1]
           /\ ApplyReward(db, tx, failed).registry = db.registry
           /\ ApplyReward(db, tx, failed).mnList = db.mnList
<1> USE SystemAddr
<1>0. IncNonce(db, SystemFaucet) \in StateDB
    BY IncNonceFacts
<1>1. IncNonce(db, SystemFaucet) \in StateDB
      /\ IncNonce(db, SystemFaucet).registry = db.registry
      /\ IncNonce(db, SystemFaucet).mnList = db.mnList
    BY IncNonceFacts
<1>2. IncNonce(db, SystemFaucet).nonce
        = [db.nonce EXCEPT ![SystemFaucet] = db.nonce[SystemFaucet] + 1]
    BY IncNonceNonce
<1>3. db.bal[SystemFaucet] - tx.value \in Nat /\ db.bal[BlockReward] + tx.value \in Nat
    BY DEF StateDB
<1> DEFINE S1 == SetBalance(IncNonce(db, SystemFaucet), SystemFaucet,
                 db.bal[SystemFaucet] - tx.value)
<1>4. S1 \in StateDB
    BY <1>0, <1>3, SetBalanceFacts
<1>5. S1.nonce = IncNonce(db, SystemFaucet).nonce
    BY <1>0, <1>3, SetBalanceFacts
<1>6. S1.registry = IncNonce(db, SystemFaucet).registry
    BY <1>0, <1>3, SetBalanceFacts
<1>7. S1.mnList = IncNonce(db, SystemFaucet).mnList
    BY <1>0, <1>3, SetBalanceFacts
<1> DEFINE S2 == SetBalance(S1, BlockReward, db.bal[BlockReward] + tx.value)
<1>8. S2 \in StateDB
    BY <1>3, <1>4, SetBalanceFacts
<1>9. S2.nonce = S1.nonce
    BY <1>3, <1>4, SetBalanceFacts
<1>10. S2.registry = S1.registry
    BY <1>3, <1>4, SetBalanceFacts
<1>11. S2.mnList = S1.mnList
    BY <1>3, <1>4, SetBalanceFacts
<1>. QED
    BY <1>0, <1>1, <1>2, <1>5, <1>6, <1>7, <1>8, <1>9, <1>10, <1>11 DEF ApplyReward

(***************************************************************************)
(* Every finalization step preserves the strengthened invariant.          *)
(***************************************************************************)
LEMMA NextIInv == IInv /\ [Next]_vars => IInv'
<1> SUFFICES ASSUME IInv, [Next]_vars PROVE IInv'
    OBVIOUS
<1> USE SystemAddr
<1>0. TypeInv'
    BY NextTypeInv DEF IInv
<1>a. st \in StateDB /\ st.nonce \in [Addr -> Nat] /\ st.bal \in [Addr -> Nat]
    BY DEF IInv, TypeInv, TypeOK, StateDB
<1>b. SystemFaucet # MasternodeRegistry /\ SystemFaucet # MigrationContract
    BY DEF SystemFaucet, MasternodeRegistry, MigrationContract
<1>1. ASSUME NEW u \in Users, NEW to \in Addr \ {u}, NEW amt \in 1..InitBalance,
             Transfer(u, to, amt)
      PROVE  IInv'
    <2> DEFINE s0 == SetBalance(st, u, st.bal[u] - amt)
    <2> DEFINE s == SetBalance(s0, to, st.bal[to] + amt)
    <2>1. u \in Addr /\ amt <= st.bal[u]
        BY <1>1 DEF Addr, Transfer
    <2>2. st.bal[u] - amt \in Nat /\ st.bal[to] + amt \in Nat
        BY <1>a, <2>1
    <2>3. s0 \in StateDB
        BY <1>a, <2>1, <2>2, SetBalanceFacts
    <2>4. s0.nonce = st.nonce
        BY <1>a, <2>1, <2>2, SetBalanceFacts
    <2>5. s \in StateDB
        BY <2>2, <2>3, SetBalanceFacts
    <2>6. s.nonce = s0.nonce
        BY <2>2, <2>3, SetBalanceFacts
    <2>7. UserTx(u, "transfer", amt) \in Tx /\ UserTx(u, "transfer", amt).from = u
        BY UserTxType DEF IInv, TypeInv, TxKinds, UserTx
    <2>8. PICK g \in GasCosts : ApplyUserTx(UserTx(u, "transfer", amt), s, g)
        BY <1>1 DEF Transfer
    <2>. QED
        BY <1>0, <1>1, <2>4, <2>5, <2>6, <2>7, <2>8, ApplyUserTxIInv
        DEF Transfer, UserTxAllowed
<1>2. ASSUME NEW u \in Users, NEW m \in Masternodes, Announce(u, m)
      PROVE  IInv'
    <2>1. [st EXCEPT !.registry = @ \cup {m}] \in StateDB
          /\ [st EXCEPT !.registry = @ \cup {m}].nonce = st.nonce
        BY DEF IInv, TypeInv, TypeOK, StateDB
    <2>2. UserTx(u, "announce", 0) \in Tx /\ UserTx(u, "announce", 0).from = u
        BY UserTxType DEF IInv, TypeInv, TxKinds, UserTx
    <2>. QED
        BY <1>0, <1>2, <2>1, <2>2, ApplyUserTxIInv DEF Announce, UserTxAllowed
<1>3. ASSUME NEW u \in Users, NEW m \in Masternodes, Denounce(u, m)
      PROVE  IInv'
    <2>1. [st EXCEPT !.registry = @ \ {m}] \in StateDB
          /\ [st EXCEPT !.registry = @ \ {m}].nonce = st.nonce
        BY DEF IInv, TypeInv, TypeOK, StateDB
    <2>2. UserTx(u, "denounce", 0) \in Tx /\ UserTx(u, "denounce", 0).from = u
        BY UserTxType DEF IInv, TypeInv, TxKinds, UserTx
    <2>. QED
        BY <1>0, <1>3, <2>1, <2>2, ApplyUserTxIInv DEF Denounce, UserTxAllowed
<1>4. CASE SubmitMigrationTx
    <2>1. [kind |-> "migration", from |-> MigrationSigner,
           nonce |-> 0, value |-> 0, consensus |-> FALSE] \in Tx
        BY DEF Tx, TxKinds
    <2>2. [st EXCEPT !.migTotal = SnapshotTotal] \in StateDB
          /\ [st EXCEPT !.migTotal = SnapshotTotal].nonce = st.nonce
        BY DEF IInv, TypeInv, TypeOK, StateDB
    <2>. QED
        BY <1>0, <1>4, <2>1, <2>2, ApplyUserTxIInv
        DEF SubmitMigrationTx, UserTxAllowed
<1>5. CASE BeginFinalize
    BY <1>0, <1>5 DEF BeginFinalize, IInv, WorkingInv, MNListMirrorsRegistry,
                      FaucetDrained, SystemNoncesMatchHistory
<1>6. CASE ProcessMasternodes
    <2>1. CASE RejectBlock
        BY <2>1, RejectIInv
    <2>2. CASE ~RejectBlock
        <3>1. /\ st' = [st EXCEPT !.mnList = st.registry]
              /\ pc' = "rewards" /\ pc = "masternodes"
              /\ UNCHANGED <<committed, height>>
            BY <1>6, <2>2 DEF ProcessMasternodes, ReadOnlyCall, SyncMasternodeList
        <3>2. st'.nonce = st.nonce /\ st'.mnList = st'.registry
            BY <3>1, <1>a
        <3>. QED
            BY <1>0, <3>1, <3>2 DEF IInv, WorkingInv, MNListMirrorsRegistry,
                                   FaucetDrained, SystemNoncesMatchHistory
    <2>. QED
        BY <2>1, <2>2
<1>7. CASE ProcessBlockRewards
    <2> DEFINE s1 == SetBalance(st, SystemFaucet, BigBalance)
    <2>1. s1 \in StateDB
        BY <1>a, SetBalanceFacts
    <2>2. s1.nonce = st.nonce
        BY <1>a, SetBalanceFacts
    <2>3. s1.registry = st.registry
        BY <1>a, SetBalanceFacts
    <2>4. s1.mnList = st.mnList
        BY <1>a, SetBalanceFacts
    <2>5. s1.bal[SystemFaucet] = BigBalance
        <3>1. s1.bal = [st.bal EXCEPT ![SystemFaucet] = BigBalance]
            BY <1>a, SetBalanceBal
        <3>. QED
            BY <3>1, <1>a
    <2>6. ASSUME NEW r \in Rewards, NEW failed \in BOOLEAN,
                 RewardTx(s1, r).value <= s1.bal[SystemFaucet],
                 st' = ResetFaucet(ApplyReward(s1, RewardTx(s1, r), failed)),
                 pc' = "migration",
                 UNCHANGED <<committed, height>>,
                 pc = "rewards"
          PROVE  IInv'
        <3> DEFINE A == ApplyReward(s1, RewardTx(s1, r), failed)
        <3>1. RewardTx(s1, r).value \in Nat
            BY DEF RewardTx
        <3>2. A \in StateDB
            BY <2>1, <2>6, <3>1, ApplyRewardFacts
        <3>3. A.nonce = [s1.nonce EXCEPT ![SystemFaucet] = s1.nonce[SystemFaucet] + 1]
            BY <2>1, <2>6, <3>1, ApplyRewardFacts
        <3>4. A.registry = s1.registry
            BY <2>1, <2>6, <3>1, ApplyRewardFacts
        <3>5. A.mnList = s1.mnList
            BY <2>1, <2>6, <3>1, ApplyRewardFacts
        <3>6. st'.nonce = A.nonce
            <4>1. SetBalance(A, SystemFaucet, 0).nonce = A.nonce
                BY <3>2, SetBalanceFacts
            <4>. QED
                BY <2>6, <4>1 DEF ResetFaucet
        <3>7. st'.registry = A.registry
            <4>1. SetBalance(A, SystemFaucet, 0).registry = A.registry
                BY <3>2, SetBalanceFacts
            <4>. QED
                BY <2>6, <4>1 DEF ResetFaucet
        <3>8. st'.mnList = A.mnList
            <4>1. SetBalance(A, SystemFaucet, 0).mnList = A.mnList
                BY <3>2, SetBalanceFacts
            <4>. QED
                BY <2>6, <4>1 DEF ResetFaucet
        <3>9. st'.bal[SystemFaucet] = 0
            <4>0. SetBalance(A, SystemFaucet, 0).bal = [A.bal EXCEPT ![SystemFaucet] = 0]
                BY <3>2, SetBalanceBal
            <4>1. st'.bal = [A.bal EXCEPT ![SystemFaucet] = 0]
                BY <2>6, <4>0 DEF ResetFaucet
            <4>2. A.bal \in [Addr -> Nat]
                BY <3>2 DEF StateDB
            <4>. QED
                BY <4>1, <4>2
        <3>10. st'.nonce[SystemFaucet] = st.nonce[SystemFaucet] + 1
               /\ st'.nonce[MasternodeRegistry] = st.nonce[MasternodeRegistry]
            BY <1>a, <1>b, <2>2, <3>3, <3>6
        <3>11. st'.mnList = st'.registry
            BY <2>3, <2>4, <2>6, <3>4, <3>5, <3>7, <3>8 DEF IInv, WorkingInv
        <3>. QED
            BY <1>0, <2>6, <3>9, <3>10, <3>11
            DEF IInv, WorkingInv, MNListMirrorsRegistry, FaucetDrained,
                SystemNoncesMatchHistory
    <2>. QED
        BY <1>7, <2>5, <2>6, RejectIInv DEF ProcessBlockRewards, ReadOnlyCall, CanPay, RewardTx
<1>8. CASE FinalizeMigration
    <2>1. CASE RejectBlock
        BY <2>1, RejectIInv
    <2>2. CASE ~RejectBlock /\ ~IsGen2Migration
        BY <1>0, <1>8, <2>2 DEF FinalizeMigration, IInv, WorkingInv,
                               MNListMirrorsRegistry, FaucetDrained,
                               SystemNoncesMatchHistory
    <2>3. CASE ~RejectBlock /\ IsGen2Migration
        <3> DEFINE s2 == SetBalance(st, MigrationContract, st.migTotal)
        <3>1. /\ st' = s2 /\ pc' = "seal" /\ pc = "migration"
              /\ UNCHANGED <<committed, height>>
            BY <1>8, <2>3 DEF FinalizeMigration, ReadOnlyCall
        <3>2. st.migTotal \in Nat
            BY DEF IInv, TypeInv, TypeOK, StateDB
        <3>3. s2.nonce = st.nonce
            BY <1>a, <3>2, SetBalanceFacts
        <3>4. s2.registry = st.registry
            BY <1>a, <3>2, SetBalanceFacts
        <3>5. s2.mnList = st.mnList
            BY <1>a, <3>2, SetBalanceFacts
        <3>6. s2.bal[SystemFaucet] = st.bal[SystemFaucet]
            <4>1. s2.bal = [st.bal EXCEPT ![MigrationContract] = st.migTotal]
                BY <1>a, <3>2, SetBalanceBal
            <4>. QED
                BY <4>1, <1>a, <1>b
        <3>. QED
            BY <1>0, <3>1, <3>3, <3>4, <3>5, <3>6
            DEF IInv, WorkingInv, MNListMirrorsRegistry, FaucetDrained,
                SystemNoncesMatchHistory
    <2>. QED
        BY <2>1, <2>2, <2>3
<1>9. CASE Seal
    BY <1>0, <1>9 DEF Seal, IInv, WorkingInv, MNListMirrorsRegistry,
                      FaucetDrained, SystemNoncesMatchHistory
<1>10. CASE Terminated \/ UNCHANGED vars
    BY <1>0, <1>10 DEF Terminated, vars, IInv, WorkingInv, MNListMirrorsRegistry,
                       FaucetDrained, SystemNoncesMatchHistory
<1>. QED
    BY <1>1, <1>2, <1>3, <1>4, <1>5, <1>6, <1>7, <1>8, <1>9, <1>10 DEF Next

(***************************************************************************)
(* The sealed-state guarantees of the finalization pipeline hold for      *)
(* every value of the constants: after any sequence of blocks, each built  *)
(* from any ordinary transactions and finalized or rejected at any step,  *)
(* the sealed MasternodeList storage equals the registry's active set      *)
(* (processMasternodes with CleanupStorage), the system faucet holds no   *)
(* funds (the deferred reset of processBlockRewards), and the faucet's    *)
(* nonce counts one reward transaction per sealed block while the         *)
(* registry's stays zero (the reverted read-only calls).                  *)
(***************************************************************************)
THEOREM SealedStateSafe ==
    Spec => [](MNListMirrorsRegistry /\ FaucetDrained /\ SystemNoncesMatchHistory)
<1>1. Init => IInv
    BY InitIInv
<1>2. IInv /\ [Next]_vars => IInv'
    BY NextIInv
<1>3. IInv => MNListMirrorsRegistry /\ FaucetDrained /\ SystemNoncesMatchHistory
    BY DEF IInv
<1>. QED
    BY <1>1, <1>2, <1>3, PTL DEF Spec

(***************************************************************************)
(* The deferred SetBalance(systemFaucet, 0) of processBlockRewards leaves *)
(* no BigBalance in any sealed state, for every value of the constants.  *)
(***************************************************************************)
THEOREM FaucetAlwaysDrained == Spec => []FaucetDrained
BY SealedStateSafe, PTL

(***************************************************************************)
(* The reverted read-only calls leave no nonce behind: in every sealed    *)
(* state the faucet's nonce is the number of sealed blocks and the        *)
(* registry's is zero, for every value of the constants.                  *)
(***************************************************************************)
THEOREM SystemNoncesAlwaysMatch == Spec => []SystemNoncesMatchHistory
BY SealedStateSafe, PTL

=============================================================================
