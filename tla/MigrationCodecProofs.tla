------------------------- MODULE MigrationCodecProofs -------------------------
(***************************************************************************)
(* Proofs about MigrationCodec for every value of the constants: the type *)
(* invariant, that an honest migration block validates, and that the     *)
(* snapshot fails closed.  The assumptions are CodecAssumption and        *)
(* DocsAssumption (every snapshot file has the snapshot struct's shape).  *)
(***************************************************************************)
EXTENDS MigrationCodec, SequenceTheorems, TLAPS

USE CodecAssumption, DocsAssumption

(***************************************************************************)
(* What both MigrationTx and ValidateMigration derive from the snapshot   *)
(* file and the build, and whether the derivation gets through parsing,   *)
(* the two loops of createSnapshotParams and the ABI packer.              *)
(***************************************************************************)
ParamsOf(d) == CreateSnapshotParams(ParseSnapshot(d).snap)
PackedOf(d, w) == PackSetSnapshot(ParamsOf(d), w)
Derivable(d, w) ==
    ~ParseSnapshot(d).err /\ ParamsOf(d).outcome = "ok" /\ ~PackedOf(d, w).err

(***************************************************************************)
(* The inductive invariant: a produced transaction carries the call data  *)
(* derivable from the file, an honest block carries that transaction      *)
(* first of two, and a verdict, once given, is what ValidateMigration     *)
(* returns on the block, which no later step changes.                     *)
(***************************************************************************)
CodecInv ==
    /\ TypeOK
    /\ produced = "tx" =>
         Derivable(doc, abiWraps) /\ migTx.data = PackedOf(doc, abiWraps).data
    /\ honest => produced = "tx" /\ Len(block) = 2 /\ block[1] = migTx
    /\ verdict # "none" =>
         block # << >> /\ verdict = ValidateMigration(block, doc, abiWraps)

-----------------------------------------------------------------------------
(***************************************************************************)
(* Operator lemmas.                                                        *)
(***************************************************************************)

\* Slicing off the version byte and checksum leaves a byte sequence.
LEMMA StripType ==
    ASSUME NEW b \in Seq(Byte)
    PROVE  StripVersionAndChecksum(b) \in Seq(Byte)
<1>1. \A i \in 2 .. Len(b) - 4 : b[i] \in Byte
  BY LenProperties
<1>2. QED
  BY <1>1, SubSeqProperties DEF StripVersionAndChecksum

\* BytesToAddress always yields AddrLen bytes, truncating or padding.
LEMMA BytesToAddressType ==
    ASSUME NEW b \in Seq(Byte)
    PROVE  BytesToAddress(b) \in Address
<1>1. CASE Len(b) >= AddrLen
  <2>1. \A i \in Len(b) - AddrLen + 1 .. Len(b) : b[i] \in Byte
    BY <1>1, CodecAssumption, LenProperties
  <2>2. DEFINE t == SubSeq(b, Len(b) - AddrLen + 1, Len(b))
  <2>3. t \in Seq(Byte) /\ Len(t) = AddrLen
    BY <2>1, SubSeqProperties, CodecAssumption
  <2>4. t \in [1..AddrLen -> Byte]
    BY <2>3, LenProperties
  <2>5. QED
    BY <1>1, <2>4 DEF BytesToAddress, Address, Byte
<1>2. CASE Len(b) < AddrLen
  BY <1>2 DEF BytesToAddress, Address, Byte
<1>3. QED
  BY <1>1, <1>2

\* A loop's outcome is "ok" exactly when every entry goes on.
LEMMA LoopOutcomeOK ==
    ASSUME NEW steps
    PROVE  (LoopOutcome(steps) = "ok") <=> \A i \in DOMAIN steps : steps[i] = "ok"
BY DEF LoopOutcome

\* An owner or blacklist entry, once decoded and stripped, is an address.
LEMMA EntryAddress ==
    ASSUME NEW e \in Base58
    PROVE  BytesToAddress(StripVersionAndChecksum(e.bytes)) \in Address
<1>1. e.bytes \in Seq(Byte)
  BY DEF Base58
<1>2. QED
  BY <1>1, StripType, BytesToAddressType

\* createSnapshotParams returns address and integer slices, nil (empty) on
\* failure.
LEMMA ParamsType ==
    ASSUME NEW ss \in SnapType
    PROVE  LET p == CreateSnapshotParams(ss)
           IN  /\ p.owners \in Seq(Address)
               /\ p.amounts \in Seq(Int)
               /\ p.blacklist \in Seq(Address)
<1>0. /\ ss.txouts \in Seq(TxoutType) /\ Len(ss.txouts) \in Nat
      /\ ss.blacklist \in Seq(Base58) /\ Len(ss.blacklist) \in Nat
  BY LenProperties DEF SnapType
<1>1. ASSUME NEW i \in 1..Len(ss.txouts)
      PROVE  /\ BytesToAddress(StripVersionAndChecksum(ss.txouts[i].owner.bytes)) \in Address
             /\ ss.txouts[i].amount * Multiplier \in Int
  <2>1. ss.txouts[i] \in TxoutType
    BY <1>0, LenProperties
  <2>2. ss.txouts[i].owner \in Base58 /\ ss.txouts[i].amount \in Int
    BY <2>1 DEF TxoutType
  <2>3. QED
    BY <2>2, EntryAddress, CodecAssumption
<1>2. ASSUME NEW j \in 1..Len(ss.blacklist)
      PROVE  BytesToAddress(StripVersionAndChecksum(ss.blacklist[j].bytes)) \in Address
  <2>1. ss.blacklist[j] \in Base58
    BY <1>0, LenProperties
  <2>2. QED
    BY <2>1, EntryAddress
<1>3. [i \in 1..Len(ss.txouts) |->
         BytesToAddress(StripVersionAndChecksum(ss.txouts[i].owner.bytes))] \in Seq(Address)
  BY <1>0, <1>1, IsASeq
<1>4. [i \in 1..Len(ss.txouts) |-> ss.txouts[i].amount * Multiplier] \in Seq(Int)
  BY <1>0, <1>1, IsASeq
<1>5. [j \in 1..Len(ss.blacklist) |->
         BytesToAddress(StripVersionAndChecksum(ss.blacklist[j].bytes))] \in Seq(Address)
  BY <1>0, <1>2, IsASeq
<1>6. << >> \in Seq(Address) /\ << >> \in Seq(Int)
  BY EmptySeq
<1>7. QED
  BY <1>3, <1>4, <1>5, <1>6 DEF CreateSnapshotParams

\* The packed setSnapshot call data is a payload; amounts are reduced into
\* uint256.
LEMMA PackedType ==
    ASSUME NEW p, p.owners \in Seq(Address), p.amounts \in Seq(Int),
           p.blacklist \in Seq(Address), NEW w
    PROVE  PackSetSnapshot(p, w).data \in Payloads
<1>0. Len(p.amounts) \in Nat /\ DOMAIN p.amounts = 1..Len(p.amounts)
  BY LenProperties
<1>1. \A i \in 1..Len(p.amounts) : p.amounts[i] % UintBound \in 0..(UintBound - 1)
  BY CodecAssumption, LenProperties
<1>2. [i \in 1..Len(p.amounts) |-> p.amounts[i] % UintBound] \in Seq(0..(UintBound - 1))
  BY <1>0, <1>1, IsASeq
<1>3. QED
  BY <1>0, <1>2 DEF PackSetSnapshot, Payloads

\* createSnapshotParams either goes through both loops or stops with a
\* decode failure or a panic.
LEMMA OutcomeValues ==
    ASSUME NEW ss
    PROVE  CreateSnapshotParams(ss).outcome \in {"ok", "fail", "panic"}
<1>1. \A steps : LoopOutcome(steps) \in {"ok", "fail", "panic"}
  BY DEF LoopOutcome
<1>2. QED
  BY <1>1 DEF CreateSnapshotParams

HeaderType == [gasLimit: Nat, extra: {"none"} \cup {d.snap.hash : d \in Docs}]

\* What a snapshot file parses to has the snapshot struct's shape.
LEMMA DocParams ==
    ASSUME NEW d \in Docs, NEW w
    PROVE  /\ ParseSnapshot(d).snap = d.snap
           /\ d.snap \in SnapType
           /\ ParamsOf(d).owners \in Seq(Address)
           /\ PackedOf(d, w).data \in Payloads
<1>1. ParseSnapshot(d).snap = d.snap /\ d.snap \in SnapType
  BY DEF ParseSnapshot, DocType
<1>2. /\ ParamsOf(d).owners \in Seq(Address)
      /\ ParamsOf(d).amounts \in Seq(Int)
      /\ ParamsOf(d).blacklist \in Seq(Address)
  BY <1>1, ParamsType DEF ParamsOf
<1>3. QED
  BY <1>1, <1>2, PackedType DEF PackedOf

\* MigrationTx returns a result, a well-typed transaction and header, and
\* returns a transaction only when the call data derives from the file.
LEMMA MigrationTxFacts ==
    ASSUME NEW cfg, NEW d \in Docs, NEW h \in HeaderType, NEW w
    PROVE  LET r == MigrationTx(cfg, d, h, w)
           IN  /\ r.result \in {"nil", "panic", "tx"}
               /\ r.tx \in TxType
               /\ r.header \in HeaderType
               /\ r.result = "tx" =>
                    Derivable(d, w) /\ r.tx.data = PackedOf(d, w).data
<1> DEFINE gas == GasPerEntry * Len(ParamsOf(d).owners)
          tx  == [nonce |-> 0, to |-> MigrationContract, gas |-> gas,
                  data |-> PackedOf(d, w).data, signed |-> TRUE]
          hdr2 == [gasLimit |-> gas, extra |-> d.snap.hash]
          r   == MigrationTx(cfg, d, h, w)
<1>1. gas \in Nat
  BY DocParams, LenProperties, CodecAssumption
<1>2. tx \in TxType
  BY <1>1, DocParams DEF TxType
<1>3. hdr2 \in HeaderType
  BY <1>1 DEF HeaderType
<1>4. r \in [result: {"nil", "panic", "tx"}, tx: {tx}, header: {h, hdr2}]
  BY DocParams DEF MigrationTx, ParamsOf, PackedOf
<1>5. r.result = "tx" => Derivable(d, w)
  <2>1. SUFFICES ASSUME ~Derivable(d, w) PROVE r.result # "tx"
    OBVIOUS
  <2>2. ParseSnapshot(d).err \/ ParamsOf(d).outcome # "ok" \/ PackedOf(d, w).err
    BY <2>1 DEF Derivable
  <2>3. QED
    BY <2>2, OutcomeValues DEF MigrationTx, ParamsOf, PackedOf
<1>6. r.tx.data = PackedOf(d, w).data
  BY <1>4
<1>7. QED
  BY <1>2, <1>3, <1>4, <1>5, <1>6
\* ValidateMigration accepts only call data derivable from the file, and
\* accepts a two-transaction block whose first transaction carries it.
LEMMA ValidateFacts ==
    ASSUME NEW blk, NEW d, NEW w
    PROVE  /\ ValidateMigration(blk, d, w) \in {"valid", "invalid", "panic"}
           /\ ValidateMigration(blk, d, w) = "valid" => Derivable(d, w)
           /\ (Derivable(d, w) /\ Len(blk) = 2 /\ blk[1].data = PackedOf(d, w).data)
                => ValidateMigration(blk, d, w) = "valid"
<1>1. ValidateMigration(blk, d, w) \in {"valid", "invalid", "panic"}
  BY DEF ValidateMigration
<1>2. ValidateMigration(blk, d, w) = "valid" => Derivable(d, w)
  <2>1. SUFFICES ASSUME ~Derivable(d, w) PROVE ValidateMigration(blk, d, w) # "valid"
    OBVIOUS
  <2>2. ParseSnapshot(d).err \/ ParamsOf(d).outcome # "ok" \/ PackedOf(d, w).err
    BY <2>1 DEF Derivable
  <2>3. QED
    BY <2>2, OutcomeValues DEF ValidateMigration, ParamsOf, PackedOf
<1>3. (Derivable(d, w) /\ Len(blk) = 2 /\ blk[1].data = PackedOf(d, w).data)
        => ValidateMigration(blk, d, w) = "valid"
  BY DEF ValidateMigration, Derivable, ParamsOf, PackedOf, ExpectedTxIndex
<1>4. QED
  BY <1>1, <1>2, <1>3

\* A file from which the call data derives is well-formed under the strict
\* schema and every owner and blacklist entry in it decodes.
LEMMA DerivableDecodes ==
    ASSUME NEW d \in Docs, NEW w, Derivable(d, w)
    PROVE  d.form \in {"strict", "trailingData"} /\ Decodes(d)
<1>1. d \in DocType /\ d.snap \in SnapType
  BY DEF DocType
<1>2. d.form \in {"strict", "trailingData"}
  BY <1>1 DEF Derivable, ParseSnapshot, DocType, DocForms
<1> DEFINE ss == d.snap
           own == [i \in 1..Len(ss.txouts) |-> TxoutStatus(ss.txouts[i])]
           bl  == [j \in 1..Len(ss.blacklist) |-> BlacklistStatus(ss.blacklist[j])]
<1>3. CreateSnapshotParams(ss).outcome = "ok"
  BY DEF Derivable, ParamsOf, ParseSnapshot
<1>4. LoopOutcome(own) = "ok" /\ LoopOutcome(bl) = "ok"
  BY <1>3 DEF CreateSnapshotParams
<1>5. DOMAIN ss.txouts = 1..Len(ss.txouts) /\ DOMAIN ss.blacklist = 1..Len(ss.blacklist)
  BY <1>1, LenProperties DEF SnapType
<1>6. \A i \in DOMAIN ss.txouts : ss.txouts[i].owner.decodes
  <2>1. \A i \in DOMAIN own : own[i] = "ok"
    BY <1>4, LoopOutcomeOK
  <2>2. QED
    BY <2>1, <1>5 DEF TxoutStatus
<1>7. \A j \in DOMAIN ss.blacklist : ss.blacklist[j].decodes
  <2>1. \A j \in DOMAIN bl : bl[j] = "ok"
    BY <1>4, LoopOutcomeOK
  <2>2. QED
    BY <2>1, <1>5 DEF BlacklistStatus
<1>8. QED
  BY <1>2, <1>6, <1>7 DEF Decodes

-----------------------------------------------------------------------------
(***************************************************************************)
(* The inductive invariant.                                                *)
(***************************************************************************)

LEMMA InitCodecInv == Init => CodecInv
<1> SUFFICES ASSUME Init PROVE CodecInv
  OBVIOUS
<1>1. NoConfig \in ProducerConfigs
  BY DEF NoConfig, ProducerConfigs
<1>2. InitialHeader \in HeaderType
  BY CodecAssumption DEF InitialHeader, HeaderType
<1>3. NoTx \in TxType /\ << >> \in Seq(TxType)
  BY EmptySeq DEF NoTx, TxType, Payloads, RewardData
<1>4. QED
  BY <1>1, <1>2, <1>3 DEF Init, CodecInv, TypeOK, HeaderType

\* The proposer's transaction, and the reward stub after it, are
\* transactions; ForgedData needs a uint256 bound of at least 2.
LEMMA ProposedTxType ==
    ASSUME NEW m \in TxType, NEW to \in {MigrationContract, OtherContract},
           NEW nonce \in {0, 1}, NEW data \in {m.data, ForgedData}
    PROVE  /\ [m EXCEPT !.to = to, !.nonce = nonce, !.data = data] \in TxType
           /\ RewardTxStub \in TxType
<1>1. ForgedData \in Payloads
  <2>1. << >> \in Seq(Address) /\ <<1>> \in Seq(0..(UintBound - 1))
    BY CodecAssumption, EmptySeq
  <2>2. QED
    BY <2>1 DEF ForgedData, Payloads
<1>2. RewardData \in Payloads
  BY EmptySeq DEF RewardData, Payloads
<1> DEFINE e1 == [m EXCEPT !.to = to]
           e2 == [e1 EXCEPT !.nonce = nonce]
           e3 == [e2 EXCEPT !.data = data]
<1>3. e1 \in TxType
  BY DEF TxType
<1>4. e2 \in TxType
  <2>1. nonce \in Nat /\ e1 \in TxType
    BY <1>3
  <2>2. QED
    BY <2>1 DEF TxType
<1>5. data \in Payloads
  BY <1>1 DEF TxType
<1>6. e3 \in TxType
  BY <1>4, <1>5 DEF TxType
<1>7. [m EXCEPT !.to = to, !.nonce = nonce, !.data = data] = e3
  OBVIOUS
<1>8. QED
  BY <1>2, <1>6, <1>7 DEF TxType, RewardTxStub

LEMMA NextCodecInv == CodecInv /\ [Next]_vars => CodecInv'
<1> SUFFICES ASSUME CodecInv, [Next]_vars PROVE CodecInv'
  OBVIOUS
<1>0. header \in HeaderType /\ doc \in Docs /\ migTx \in TxType
  BY DEF CodecInv, TypeOK, HeaderType
<1>1. CASE Produce
  <2>1. PICK cfg \in ProducerConfigs :
          LET r == MigrationTx(cfg, doc, header, abiWraps)
          IN  /\ producer' = cfg
              /\ produced' = r.result
              /\ migTx' = r.tx
              /\ header' = r.header
    BY <1>1 DEF Produce
  <2>2. honest = FALSE
    BY <1>1 DEF Produce, CodecInv
  <2>3. QED
    BY <1>1, <1>0, <2>1, <2>2, MigrationTxFacts
    DEF Produce, CodecInv, TypeOK, HeaderType
<1>2. CASE Propose
  <2>1. PICK to \in {MigrationContract, OtherContract}, nonce \in {0, 1},
             data \in {migTx.data, ForgedData}, n \in 1..3 :
          LET tx == [migTx EXCEPT !.to = to, !.nonce = nonce, !.data = data]
          IN  /\ block' = [i \in 1..n |-> IF i = 1 THEN tx ELSE RewardTxStub]
              /\ honest' = (tx = migTx /\ n = 2)
    BY <1>2 DEF Propose
  <2> DEFINE tx == [migTx EXCEPT !.to = to, !.nonce = nonce, !.data = data]
  <2>2. tx \in TxType /\ RewardTxStub \in TxType
    BY <1>0, ProposedTxType
  <2> DEFINE blk == [i \in 1..n |-> IF i = 1 THEN tx ELSE RewardTxStub]
  <2>3. blk \in Seq(TxType)
    <3>1. \A i \in 1..n : (IF i = 1 THEN tx ELSE RewardTxStub) \in TxType
      BY <2>2
    <3>2. QED
      BY <3>1, IsASeq
  <2>4. honest' => Len(block') = 2 /\ block'[1] = migTx
    <3>1. Len(blk) = n
      <4>1. DOMAIN blk = 1..Len(blk) /\ Len(blk) \in Nat
        BY <2>3, LenProperties
      <4>2. QED
        BY <4>1
    <3>2. block' = blk /\ honest' = (tx = migTx /\ n = 2)
      BY <2>1
    <3>3. blk[1] = tx
      OBVIOUS
    <3>4. QED
      BY <3>1, <3>2, <3>3, Zenon
  <2>5. verdict = "none"
    BY <1>2 DEF Propose, CodecInv
  <2>6. QED
    BY <1>2, <2>1, <2>3, <2>4, <2>5 DEF Propose, CodecInv, TypeOK
<1>3. CASE Validate
  <2>1. verdict' \in {"valid", "invalid", "panic"}
    BY <1>3, ValidateFacts DEF Validate
  <2>2. QED
    BY <1>3, <2>1 DEF Validate, CodecInv, TypeOK
<1>4. CASE Done
  BY <1>4 DEF Done, vars, CodecInv, TypeOK
<1>5. CASE UNCHANGED vars
  BY <1>5 DEF vars, CodecInv, TypeOK
<1>6. QED
  BY <1>1, <1>2, <1>3, <1>4, <1>5 DEF Next

-----------------------------------------------------------------------------
(***************************************************************************)
(* Theorems.                                                               *)
(***************************************************************************)

\* CodecInv holds in every reachable state.
LEMMA CodecInvariant == Spec => []CodecInv
BY InitCodecInv, NextCodecInv, PTL DEF Spec

(***************************************************************************)
(* Every variable of the producer/proposer/validator model keeps its type: *)
(* in particular MigrationTx builds a setSnapshot payload of AddrLen-byte *)
(* addresses and uint256 amounts from every snapshot file.                 *)
(***************************************************************************)
THEOREM CodecTypeCorrect == Spec => []TypeOK
<1>1. CodecInv => TypeOK
  BY DEF CodecInv
<1>2. QED
  BY <1>1, CodecInvariant, PTL

(***************************************************************************)
(* Producer and validators agree: whatever the snapshot file, the build's *)
(* ABI packer and the producer's configuration, ValidateMigration accepts *)
(* a block that carries the transaction MigrationTx built, followed by    *)
(* the reward.                                                              *)
(***************************************************************************)
THEOREM HonestBlockAlwaysValidates == Spec => []HonestBlockValidates
<1>1. CodecInv => HonestBlockValidates
  <2>1. SUFFICES ASSUME CodecInv, honest, verdict # "none"
                 PROVE  verdict = "valid"
    BY DEF HonestBlockValidates
  <2>2. /\ Derivable(doc, abiWraps)
        /\ Len(block) = 2
        /\ block[1].data = PackedOf(doc, abiWraps).data
        /\ verdict = ValidateMigration(block, doc, abiWraps)
    BY <2>1 DEF CodecInv
  <2>3. QED
    BY <2>2, ValidateFacts
<1>2. QED
  BY <1>1, CodecInvariant, PTL

(***************************************************************************)
(* The snapshot fails closed: no migration transaction is produced, and   *)
(* no migration block is accepted, from a missing file, a file with an    *)
(* unknown field, or a file with an owner or blacklist entry that does    *)
(* not decode.                                                             *)
(***************************************************************************)
THEOREM SnapshotFailsClosed == Spec => []FailClosed
<1>1. CodecInv => FailClosed
  <2>1. SUFFICES ASSUME CodecInv, produced = "tx" \/ verdict = "valid"
                 PROVE  doc.form \in {"strict", "trailingData"} /\ Decodes(doc)
    BY DEF FailClosed
  <2>2. doc \in Docs
    BY <2>1 DEF CodecInv, TypeOK
  <2>3. Derivable(doc, abiWraps)
    <3>1. CASE produced = "tx"
      BY <2>1, <3>1 DEF CodecInv
    <3>2. CASE verdict = "valid"
      BY <2>1, <3>2, ValidateFacts DEF CodecInv
    <3>3. QED
      BY <2>1, <3>1, <3>2
  <2>4. QED
    BY <2>2, <2>3, DerivableDecodes
<1>2. QED
  BY <1>1, CodecInvariant, PTL

=============================================================================
