------------------------- MODULE FinalizerRefinement -------------------------
(***************************************************************************)
(* Proof that the finalization pipeline (Finalizer) implements the        *)
(* sealed-chain specification (SealedChain) under the refinement mapping  *)
(* Finalizer!Chain, which reads the abstract chain off the last sealed    *)
(* state.                                                                  *)
(***************************************************************************)
EXTENDS FinalizerProofs

USE ConstantsAssumption, UsersAssumption

(***************************************************************************)
(* Only the migration block's transactions can change the snapshot total  *)
(* setSnapshot records: in any other block the working state's total is   *)
(* still the sealed one.                                                   *)
(***************************************************************************)
MigrationInv == ~IsGen2Migration => st.migTotal = committed.migTotal

RInv == IInv /\ MigrationInv

LEMMA MigTotalFacts ==
    ASSUME NEW s \in StateDB, NEW a \in Addr, NEW v
    PROVE  /\ SetBalance(s, a, v).migTotal = s.migTotal
           /\ IncNonce(s, a).migTotal = s.migTotal
BY DEF SetBalance, IncNonce, StateDB

LEMMA ApplyRewardMigTotal ==
    ASSUME NEW db \in StateDB, NEW tx, NEW failed \in BOOLEAN,
           tx.value \in Nat, tx.value <= db.bal[SystemFaucet]
    PROVE  ApplyReward(db, tx, failed).migTotal = db.migTotal
<1> USE SystemAddr
<1>1. IncNonce(db, SystemFaucet) \in StateDB
    BY IncNonceFacts
<1>2. IncNonce(db, SystemFaucet).migTotal = db.migTotal
    BY MigTotalFacts
<1>3. db.bal[SystemFaucet] - tx.value \in Nat
    BY DEF StateDB
<1> DEFINE S1 == SetBalance(IncNonce(db, SystemFaucet), SystemFaucet,
                            db.bal[SystemFaucet] - tx.value)
<1>4. S1 \in StateDB
    BY <1>1, <1>3, SetBalanceFacts
<1>5. S1.migTotal = db.migTotal
    BY <1>1, <1>2, MigTotalFacts
<1>6. SetBalance(S1, BlockReward, db.bal[BlockReward] + tx.value).migTotal = db.migTotal
    BY <1>4, <1>5, MigTotalFacts
<1>. QED
    BY <1>2, <1>6 DEF ApplyReward

LEMMA InitRInv == Init => RInv
BY InitIInv DEF Init, RInv, MigrationInv

(***************************************************************************)
(* Every step outside the migration block keeps the working snapshot     *)
(* total equal to the sealed one.                                          *)
(***************************************************************************)
LEMMA NextMigrationInv == RInv /\ [Next]_vars => MigrationInv'
<1> SUFFICES ASSUME RInv, [Next]_vars PROVE MigrationInv'
    OBVIOUS
<1> USE SystemAddr
<1>a. st \in StateDB /\ st.bal \in [Addr -> Nat]
    BY DEF RInv, IInv, TypeInv, TypeOK, StateDB
<1>b. ASSUME NEW s \in StateDB, NEW u \in Addr, st' = IncNonce(s, u),
             s.migTotal = st.migTotal, UNCHANGED <<committed, height>>
      PROVE  MigrationInv'
    BY <1>b, MigTotalFacts DEF RInv, MigrationInv, IsGen2Migration
<1>c. ASSUME RejectBlock PROVE MigrationInv'
    BY <1>c DEF RejectBlock, MigrationInv
<1>1. ASSUME NEW u \in Users, NEW to \in Addr \ {u}, NEW amt \in 1..InitBalance,
             Transfer(u, to, amt)
      PROVE  MigrationInv'
    <2> DEFINE s0 == SetBalance(st, u, st.bal[u] - amt)
    <2> DEFINE s == SetBalance(s0, to, st.bal[to] + amt)
    <2>1. u \in Addr /\ amt <= st.bal[u]
        BY <1>1 DEF Addr, Transfer
    <2>2. st.bal[u] - amt \in Nat /\ st.bal[to] + amt \in Nat
        BY <1>a, <2>1
    <2>3. s0 \in StateDB
        BY <1>a, <2>1, <2>2, SetBalanceFacts
    <2>4. s0.migTotal = st.migTotal
        BY <1>a, <2>1, MigTotalFacts
    <2>5. s \in StateDB
        BY <2>2, <2>3, SetBalanceFacts
    <2>6. s.migTotal = st.migTotal
        BY <2>3, <2>4, MigTotalFacts
    <2>. QED
        BY <1>1, <2>1, <2>5, <2>6, <1>b DEF Transfer, ApplyUserTx, UserTx
<1>2. ASSUME NEW u \in Users, NEW m \in Masternodes,
             Announce(u, m) \/ Denounce(u, m)
      PROVE  MigrationInv'
    <2>1. u \in Addr
        BY DEF Addr
    <2>2. /\ [st EXCEPT !.registry = @ \cup {m}] \in StateDB
          /\ [st EXCEPT !.registry = @ \cup {m}].migTotal = st.migTotal
          /\ [st EXCEPT !.registry = @ \ {m}] \in StateDB
          /\ [st EXCEPT !.registry = @ \ {m}].migTotal = st.migTotal
        BY <1>a DEF StateDB
    <2>. QED
        BY <1>2, <2>1, <2>2, <1>b DEF Announce, Denounce, ApplyUserTx, UserTx
<1>3. CASE SubmitMigrationTx
    BY <1>3 DEF SubmitMigrationTx, MigrationInv, IsGen2Migration
<1>4. CASE BeginFinalize
    BY <1>4 DEF BeginFinalize, RInv, MigrationInv, IsGen2Migration
<1>5. CASE ProcessMasternodes
    <2>1. CASE RejectBlock
        BY <2>1, <1>c
    <2>2. CASE ~RejectBlock
        <3>1. st' = [st EXCEPT !.mnList = st.registry] /\ UNCHANGED <<committed, height>>
            BY <1>5, <2>2 DEF ProcessMasternodes, ReadOnlyCall, SyncMasternodeList
        <3>. QED
            BY <3>1, <1>a DEF RInv, MigrationInv, IsGen2Migration
    <2>. QED
        BY <2>1, <2>2
<1>6. CASE ProcessBlockRewards
    <2> DEFINE s1 == SetBalance(st, SystemFaucet, BigBalance)
    <2>0. s1 \in StateDB
        BY <1>a, SetBalanceFacts
    <2>1. s1 \in StateDB /\ s1.migTotal = st.migTotal
        BY <1>a, <2>0, MigTotalFacts
    <2>2. s1.bal[SystemFaucet] = BigBalance
        <3>1. s1.bal = [st.bal EXCEPT ![SystemFaucet] = BigBalance]
            BY <1>a, SetBalanceBal
        <3>. QED
            BY <3>1, <1>a
    <2>3. ASSUME NEW r \in Rewards, NEW failed \in BOOLEAN,
                 RewardTx(s1, r).value <= s1.bal[SystemFaucet],
                 st' = ResetFaucet(ApplyReward(s1, RewardTx(s1, r), failed)),
                 UNCHANGED <<committed, height>>
          PROVE  MigrationInv'
        <3> DEFINE A == ApplyReward(s1, RewardTx(s1, r), failed)
        <3>1. RewardTx(s1, r).value \in Nat
            BY DEF RewardTx
        <3>2. A \in StateDB /\ A.migTotal = st.migTotal
            BY <2>1, <2>3, <3>1, ApplyRewardFacts, ApplyRewardMigTotal
        <3>3. st'.migTotal = A.migTotal
            BY <2>3, <3>2, MigTotalFacts DEF ResetFaucet
        <3>. QED
            BY <2>3, <3>2, <3>3 DEF RInv, MigrationInv, IsGen2Migration
    <2>. QED
        BY <1>6, <2>2, <2>3, <1>c DEF ProcessBlockRewards, ReadOnlyCall, CanPay, RewardTx
<1>7. CASE FinalizeMigration
    <2>1. CASE RejectBlock
        BY <2>1, <1>c
    <2>2. CASE ~RejectBlock
        <3>1. st.migTotal \in Nat
            BY DEF RInv, IInv, TypeInv, TypeOK, StateDB
        <3>2. SetBalance(st, MigrationContract, st.migTotal).migTotal = st.migTotal
            BY <1>a, MigTotalFacts
        <3>. QED
            BY <1>7, <2>2, <3>2 DEF FinalizeMigration, ReadOnlyCall, RInv, MigrationInv,
                                    IsGen2Migration
    <2>. QED
        BY <2>1, <2>2
<1>8. CASE Seal
    BY <1>8 DEF Seal, MigrationInv
<1>9. CASE Terminated \/ UNCHANGED vars
    BY <1>9 DEF Terminated, vars, RInv, MigrationInv, IsGen2Migration
<1>. QED
    BY <1>1, <1>2, <1>3, <1>4, <1>5, <1>6, <1>7, <1>8, <1>9 DEF Next

LEMMA NextRInv == RInv /\ [Next]_vars => RInv'
BY NextIInv, NextMigrationInv DEF RInv

(***************************************************************************)
(* Every step other than Seal leaves the sealed state and the height as  *)
(* they are: building, finalizing or rejecting a candidate block is       *)
(* invisible in the sealed chain.                                          *)
(***************************************************************************)
LEMMA OnlySealCommits ==
    ASSUME [Next]_vars, ~Seal
    PROVE  UNCHANGED <<committed, height>>
<1>1. CASE \E u \in Users : \E to \in Addr \ {u}, amt \in 1..InitBalance :
             Transfer(u, to, amt)
    BY <1>1 DEF Transfer
<1>2. CASE \E u \in Users, m \in Masternodes : Announce(u, m) \/ Denounce(u, m)
    BY <1>2 DEF Announce, Denounce
<1>3. CASE SubmitMigrationTx \/ BeginFinalize
    BY <1>3 DEF SubmitMigrationTx, BeginFinalize
<1>4. CASE ProcessMasternodes \/ ProcessBlockRewards \/ FinalizeMigration
    BY <1>4 DEF ProcessMasternodes, ProcessBlockRewards, FinalizeMigration, RejectBlock
<1>5. CASE Terminated \/ UNCHANGED vars
    BY <1>5 DEF Terminated, vars
<1>. QED
    BY <1>1, <1>2, <1>3, <1>4, <1>5 DEF Next

(***************************************************************************)
(* Sealing a block is a SealBlock step of the abstract chain: the list    *)
(* equals the registry, the faucet has sent one transaction and is empty,  *)
(* the registry has sent none, and the snapshot total moved only on the   *)
(* migration block.                                                        *)
(***************************************************************************)
LEMMA SealRefines ==
    ASSUME RInv, Seal
    PROVE  Chain!SealBlock
<1> USE SystemAddr
<1>1. height < MaxBlocks /\ height \in Nat
    BY DEF Seal, RInv, IInv, TypeInv, TypeOK
<1>2. st.registry \in SUBSET Masternodes /\ st.mnList = st.registry
    BY DEF Seal, RInv, IInv, TypeInv, TypeOK, StateDB, WorkingInv
<1>3. st.nonce[SystemFaucet] = committed.nonce[SystemFaucet] + 1
    BY DEF Seal, RInv, IInv, WorkingInv, SystemNoncesMatchHistory
<1>4. st.bal[SystemFaucet] = committed.bal[SystemFaucet]
      /\ st.nonce[MasternodeRegistry] = committed.nonce[MasternodeRegistry]
    BY DEF Seal, RInv, IInv, WorkingInv, FaucetDrained, SystemNoncesMatchHistory
<1>5. st.migTotal \in Nat
    BY DEF RInv, IInv, TypeInv, TypeOK, StateDB
<1>6. height + 1 # MigrationHeight => st.migTotal = committed.migTotal
    BY DEF RInv, MigrationInv, IsGen2Migration
<1>. QED
    BY <1>1, <1>2, <1>3, <1>4, <1>5, <1>6 DEF Seal, Chain!SealBlock

(***************************************************************************)
(* The finalization pipeline implements the sealed-chain specification    *)
(* for every value of the constants (ChainRefinement, which TLC checks on *)
(* the small instance): from genesis, the sealed state changes only when  *)
(* a block is sealed, and each sealing is one step of SealedChain.        *)
(***************************************************************************)
THEOREM FinalizerImplementsChain == Spec => ChainRefinement
<1>1. Init => Chain!Init
    <2> SUFFICES ASSUME Init PROVE Chain!Init
        OBVIOUS
    <2>1. SystemFaucet \notin Users /\ SystemFaucet \in Addr /\ MasternodeRegistry \in Addr
        BY SystemAddr DEF SystemAccounts
    <2>. QED
        BY <2>1 DEF Init, GenesisState, Chain!Init
<1>2. RInv /\ [Next]_vars => [Chain!Next]_Chain!avars
    <2> SUFFICES ASSUME RInv, [Next]_vars PROVE [Chain!Next]_Chain!avars
        OBVIOUS
    <2>1. CASE Seal
        BY <2>1, SealRefines DEF Chain!Next
    <2>2. CASE ~Seal
        BY <2>2, OnlySealCommits DEF Chain!avars
    <2>. QED
        BY <2>1, <2>2
<1>. QED
    BY <1>1, <1>2, InitRInv, NextRInv, PTL DEF Spec, ChainRefinement, Chain!Spec

(***************************************************************************)
(* No partial application, for every value of the constants                *)
(* (NoPartialCommit): a step that changes the sealed state is a Seal of a  *)
(* block that reached the "seal" step, which is only entered after        *)
(* finalizeMigration succeeded, and it advances the chain by one block.   *)
(* No invariant is needed: every other step leaves committed alone.       *)
(***************************************************************************)
THEOREM SealOnlyFinalized == Spec => NoPartialCommit
<1>1. [Next]_vars => [committed' # committed => pc = "seal" /\ height' = height + 1]_vars
    <2> SUFFICES ASSUME [Next]_vars
                 PROVE  committed' # committed => pc = "seal" /\ height' = height + 1
        OBVIOUS
    <2>1. CASE Seal
        BY <2>1 DEF Seal
    <2>2. CASE ~Seal
        BY <2>2, OnlySealCommits
    <2>. QED
        BY <2>1, <2>2
<1>. QED
    BY <1>1, PTL DEF Spec, NoPartialCommit

=============================================================================
