--------------------------- MODULE MigrationCodec ---------------------------
(***************************************************************************)
(* The producer and validator sides of the Gen2 migration block           *)
(* (src/range/consensus/migration.go).                                     *)
(*                                                                         *)
(* The block producer reads the snapshot file and builds the setSnapshot  *)
(* transaction (MigrationTx, migrationTx, createSnapshotParams,           *)
(* parseSnapshot), writing the migration block's gas limit and extra data  *)
(* into its header on the way.  Every validating node re-derives the call *)
(* data from the same file and compares it with the first transaction of  *)
(* the proposed block (ValidateMigration).  The proposer is not trusted:  *)
(* the block it proposes may carry the honest transaction or an altered   *)
(* one.                                                                    *)
(*                                                                         *)
(* Data is abstracted to what the checks tell apart: a Base58 string is    *)
(* the byte sequence it decodes to (or Undecodable), an address is a      *)
(* sequence of AddrLen bytes, and ABI call data is the triple it encodes  *)
(* (the encoding is injective on it).                                     *)
(***************************************************************************)
EXTENDS Integers, Sequences

CONSTANTS
    Docs,            \* snapshot files the producer and the validators may read
    AddrLen,         \* common.AddressLength
    Multiplier,      \* 1e10: Gen2 precision 8 to Gen3 precision 18
    UintBound,       \* 2^256, the range of an ABI uint256
    GasPerEntry,     \* gasPerMigrationEntry
    DefaultGasLimit  \* the header's gas limit before migrationTx writes it

ASSUME CodecAssumption ==
    /\ AddrLen \in Nat \ {0}
    /\ Multiplier \in Nat \ {0}
    /\ UintBound \in Nat \ {0, 1}
    /\ GasPerEntry \in Nat
    /\ DefaultGasLimit \in Nat

(***************************************************************************)
(* A Base58 string is the record of whether base58.Decode succeeds and   *)
(* the bytes it decodes to; an item's amount may be absent or null in the *)
(* JSON, which leaves its *big.Int nil (amountSet = FALSE).               *)
(***************************************************************************)
Decoded(b) == [decodes |-> TRUE, bytes |-> b]
Undecodable == [decodes |-> FALSE, bytes |-> << >>]

(***************************************************************************)
(* How the file reads: missing (os.Open fails), with a field the strict   *)
(* schema does not know, well-formed, or well-formed followed by more     *)
(* bytes after the JSON object.                                            *)
(***************************************************************************)
DocForms == {"missing", "unknownField", "strict", "trailingData"}

(***************************************************************************)
(* The snapshot struct the file decodes into: Txouts of {Owner string,    *)
(* Amount *big.Int}, Blacklist of strings, and the hash written into the  *)
(* header's extra data.  Bytes are abstracted to two values.               *)
(***************************************************************************)
Byte == {0, 1}
Base58 == [decodes: BOOLEAN, bytes: Seq(Byte)]
TxoutType == [owner: Base58, amount: Int, amountSet: BOOLEAN]
SnapType == [txouts: Seq(TxoutType), blacklist: Seq(Base58), hash: STRING]
DocType == [form: DocForms, snap: SnapType]

ASSUME DocsAssumption == Docs \subseteq DocType

MigrationContract == "MigrationContract"
OtherContract     == "OtherContract"

(***************************************************************************)
(* Go slice expression owner[1 : len(owner)-4]: drops the version byte    *)
(* and the 4-byte checksum.  It panics (slice bounds out of range) unless *)
(* 1 <= len(owner) - 4.                                                    *)
(***************************************************************************)
SliceInBounds(b) == Len(b) >= 5
StripVersionAndChecksum(b) == SubSeq(b, 2, Len(b) - 4)

(***************************************************************************)
(* common.BytesToAddress: keeps the last AddrLen bytes of a longer input, *)
(* left-pads a shorter one with zero bytes.                                *)
(***************************************************************************)
BytesToAddressUnpadded(b) ==
    IF Len(b) >= AddrLen THEN SubSeq(b, Len(b) - AddrLen + 1, Len(b)) ELSE b

BytesToAddress(b) ==
    IF Len(b) >= AddrLen
    THEN SubSeq(b, Len(b) - AddrLen + 1, Len(b))
    ELSE [i \in 1..AddrLen |->
            IF i <= AddrLen - Len(b) THEN 0 ELSE b[i - (AddrLen - Len(b))]]

(***************************************************************************)
(* parseSnapshot: json.Decoder with DisallowUnknownFields, decoding the   *)
(* first JSON value of the file; MigrationTx and ValidateMigration first  *)
(* open the file.                                                          *)
(***************************************************************************)
ParseSnapshotLenient(doc) ==
    [err |-> doc.form = "missing", snap |-> doc.snap]
ParseSnapshot(doc) ==
    [err |-> doc.form \in {"missing", "unknownField"}, snap |-> doc.snap]

(***************************************************************************)
(* What one loop iteration of createSnapshotParams does with an entry:    *)
(* return nil on a decode error, panic on a short decoded owner or on a   *)
(* nil amount (new(big.Int).Mul(nil, multiplier)), or go on.              *)
(***************************************************************************)
TxoutStatus(item) ==
    IF ~item.owner.decodes THEN "fail"
    ELSE IF ~SliceInBounds(item.owner.bytes) THEN "panic"
    ELSE IF ~item.amountSet THEN "panic"
    ELSE "ok"

BlacklistStatus(enc) ==
    IF ~enc.decodes THEN "fail"
    ELSE IF ~SliceInBounds(enc.bytes) THEN "panic"
    ELSE "ok"

(***************************************************************************)
(* One range loop over per-entry statuses: "ok" if every entry goes on,   *)
(* otherwise the status of the first entry that does not.                 *)
(***************************************************************************)
LoopOutcome(steps) ==
    IF \A i \in DOMAIN steps : steps[i] = "ok" THEN "ok"
    ELSE IF \E i \in DOMAIN steps :
              steps[i] = "fail" /\ \A j \in 1..(i - 1) : steps[j] = "ok"
         THEN "fail"
         ELSE "panic"

(***************************************************************************)
(* createSnapshotParams: the owners loop, then the blacklist loop; the    *)
(* first entry that does not go on decides the outcome.                   *)
(***************************************************************************)
CreateSnapshotParams(ss) ==
    LET owners  == LoopOutcome([i \in 1..Len(ss.txouts) |-> TxoutStatus(ss.txouts[i])])
        entries == LoopOutcome([j \in 1..Len(ss.blacklist) |->
                                  BlacklistStatus(ss.blacklist[j])])
        outcome == IF owners # "ok" THEN owners ELSE entries
    IN  IF outcome = "ok"
        THEN [outcome   |-> "ok",
              owners    |-> [i \in 1..Len(ss.txouts) |->
                               BytesToAddress(StripVersionAndChecksum(ss.txouts[i].owner.bytes))],
              amounts   |-> [i \in 1..Len(ss.txouts) |-> ss.txouts[i].amount * Multiplier],
              blacklist |-> [j \in 1..Len(ss.blacklist) |->
                               BytesToAddress(StripVersionAndChecksum(ss.blacklist[j].bytes))]]
        ELSE [outcome |-> outcome, owners |-> << >>, amounts |-> << >>,
              blacklist |-> << >>]

(***************************************************************************)
(* migration_abi.Pack("setSnapshot", ...).  How the ABI packer treats an  *)
(* amount outside uint256 (negative, or 2^256 and above) depends on the   *)
(* go-ethereum build, which is not under src/: older packers reduce it    *)
(* modulo 2^256 (wraps), newer ones return an error, on which the caller *)
(* panics.                                                                 *)
(***************************************************************************)
OutOfRange(a) == a < 0 \/ a >= UintBound

PackSetSnapshot(p, wraps) ==
    [err  |-> ~wraps /\ \E i \in DOMAIN p.amounts : OutOfRange(p.amounts[i]),
     data |-> <<p.owners, [i \in DOMAIN p.amounts |-> p.amounts[i] % UintBound],
                p.blacklist>>]

(***************************************************************************)
(* The producer's engine configuration: a Range engine or not, signerFn   *)
(* and config set or nil, whether signerFn succeeds, and which signer     *)
(* MigrationTx is given.  ConsensusSigner.SignatureValues always fails,  *)
(* so WithSignature fails with it.                                         *)
(***************************************************************************)
ProducerConfigs ==
    [isRange: BOOLEAN, signerFn: BOOLEAN, config: BOOLEAN, signOK: BOOLEAN,
     signer: {"consensus", "eip155"}]

NoConfig == [isRange |-> FALSE, signerFn |-> FALSE, config |-> FALSE,
             signOK |-> FALSE, signer |-> "eip155"]

WithSignatureOK(cfg) == cfg.signer # "consensus"

(***************************************************************************)
(* MigrationTx/migrationTx: the result ("tx", "nil" or "panic"), the      *)
(* transaction, and the header as the call leaves it: the gas limit and   *)
(* extra data are written before the signer checks that may return nil.   *)
(***************************************************************************)
MigrationTx(cfg, doc, hdr, wraps) ==
    LET parsed == ParseSnapshot(doc)
        p      == CreateSnapshotParams(parsed.snap)
        packed == PackSetSnapshot(p, wraps)
        gas    == GasPerEntry * Len(p.owners)
        hdr2   == [gasLimit |-> gas, extra |-> parsed.snap.hash]
        tx     == [nonce |-> 0, to |-> MigrationContract, gas |-> gas,
                   data |-> packed.data, signed |-> TRUE]
        Out(r, h) == [result |-> r, tx |-> tx, header |-> h]
    IN  IF parsed.err \/ ~cfg.isRange THEN Out("nil", hdr)
        ELSE IF p.outcome = "panic" THEN Out("panic", hdr)
        ELSE IF p.outcome = "fail" THEN Out("nil", hdr)
        ELSE IF packed.err THEN Out("panic", hdr)
        ELSE IF ~(cfg.signerFn /\ cfg.config /\ cfg.signOK /\ WithSignatureOK(cfg))
             THEN Out("nil", hdr2)
        ELSE Out("tx", hdr2)

(***************************************************************************)
(* ValidateMigration: "valid", "invalid" (returns false) or "panic".       *)
(***************************************************************************)
ExpectedTxIndexSecond == 2

ExpectedTxIndex == 1

ValidateMigration(blk, doc, wraps) ==
    LET parsed == ParseSnapshot(doc)
        p      == CreateSnapshotParams(parsed.snap)
        packed == PackSetSnapshot(p, wraps)
    IN  IF parsed.err THEN "invalid"
        ELSE IF p.outcome = "panic" THEN "panic"
        ELSE IF p.outcome = "fail" THEN "invalid"
        ELSE IF packed.err THEN "panic"
        ELSE IF Len(blk) # 2 THEN "invalid"
        ELSE IF blk[ExpectedTxIndex].data # packed.data THEN "invalid"
        ELSE "valid"

VARIABLES
    doc,       \* the snapshot file every node reads
    abiWraps,  \* the build's ABI packer reduces out-of-range amounts mod 2^256
    producer,  \* the producer's engine configuration
    header,    \* the producer's migration block header
    produced,  \* MigrationTx's outcome: "none" (not run), "nil", "panic" or "tx"
    migTx,     \* the transaction migrationTx built (res)
    block,     \* transactions of the proposed migration block
    honest,    \* the proposed block carries the producer's transaction as built
    verdict    \* a validating node's ValidateMigration result, or "none"

vars == <<doc, abiWraps, producer, header, produced, migTx, block, honest, verdict>>

InitialHeader == [gasLimit |-> DefaultGasLimit, extra |-> "none"]

(***************************************************************************)
(* The block reward transaction that follows the migration transaction.   *)
(***************************************************************************)
RewardData == << >>   \* the reward() call data

RewardTxStub == [nonce |-> 0, to |-> "BlockReward", gas |-> 0, data |-> RewardData,
                 signed |-> TRUE]

\* migTx before the producer has run
NoTx == [nonce |-> 0, to |-> OtherContract, gas |-> 0, data |-> RewardData,
         signed |-> FALSE]

Init ==
    /\ doc \in Docs
    /\ abiWraps \in BOOLEAN
    /\ producer = NoConfig
    /\ header = InitialHeader
    /\ produced = "none"
    /\ migTx = NoTx
    /\ block = << >>
    /\ honest = FALSE
    /\ verdict = "none"

(***************************************************************************)
(* The producer calls MigrationTx once, with the engine it runs.           *)
(***************************************************************************)
Produce ==
    /\ produced = "none"
    /\ \E cfg \in ProducerConfigs :
         LET r == MigrationTx(cfg, doc, header, abiWraps)
         IN  /\ producer' = cfg
             /\ produced' = r.result
             /\ migTx' = r.tx
             /\ header' = r.header
    /\ UNCHANGED <<doc, abiWraps, block, honest, verdict>>

(***************************************************************************)
(* The proposer builds the migration block from the produced transaction: *)
(* as built, or altered (recipient, nonce or payload), possibly with a    *)
(* wrong number of transactions.                                           *)
(***************************************************************************)
\* A payload no snapshot packs to: no owners and one amount.
ForgedData == << << >>, <<1>>, << >> >>

Propose ==
    /\ produced = "tx"
    /\ block = << >>
    /\ \E to \in {MigrationContract, OtherContract}, nonce \in {0, 1},
          data \in {migTx.data, ForgedData}, n \in 1..3 :
         LET tx == [migTx EXCEPT !.to = to, !.nonce = nonce, !.data = data]
         IN  /\ block' = [i \in 1..n |-> IF i = 1 THEN tx ELSE RewardTxStub]
             /\ honest' = (tx = migTx /\ n = 2)
    /\ UNCHANGED <<doc, abiWraps, producer, header, produced, migTx, verdict>>

(***************************************************************************)
(* A validating node runs ValidateMigration on the proposed block, with   *)
(* the same snapshot file and the same build.                             *)
(***************************************************************************)
Validate ==
    /\ block # << >>
    /\ verdict = "none"
    /\ verdict' = ValidateMigration(block, doc, abiWraps)
    /\ UNCHANGED <<doc, abiWraps, producer, header, produced, migTx, block, honest>>

(***************************************************************************)
(* Nothing more happens once a node has judged the block or the producer  *)
(* has given up.                                                           *)
(***************************************************************************)
Done ==
    /\ verdict # "none" \/ produced \in {"nil", "panic"}
    /\ UNCHANGED vars

Next == Produce \/ Propose \/ Validate \/ Done

Spec == Init /\ [][Next]_vars

-----------------------------------------------------------------------------
(***************************************************************************)
(* Type invariant.                                                         *)
(***************************************************************************)
Address == [1..AddrLen -> {0, 1}]

\* setSnapshot(address[], uint256[], address[]) call data, or reward()'s
Payloads ==
    (Seq(Address) \X Seq(0..(UintBound - 1)) \X Seq(Address)) \cup {RewardData}

TxType == [nonce: Nat, to: {MigrationContract, OtherContract, "BlockReward"},
           gas: Nat, data: Payloads, signed: BOOLEAN]

TypeOK ==
    /\ doc \in Docs
    /\ abiWraps \in BOOLEAN
    /\ producer \in ProducerConfigs
    /\ header \in [gasLimit: Nat, extra: {"none"} \cup {d.snap.hash : d \in Docs}]
    /\ produced \in {"none", "nil", "panic", "tx"}
    /\ migTx \in TxType
    /\ block \in Seq(TxType)
    /\ honest \in BOOLEAN
    /\ verdict \in {"none", "valid", "invalid", "panic"}

(***************************************************************************)
(* Producer and validators agree (ValidateMigration re-derives what       *)
(* migrationTx packed): a block carrying the producer's transaction as     *)
(* built, followed by the reward, is accepted.                             *)
(***************************************************************************)
HonestBlockValidates ==
    (honest /\ verdict # "none") => verdict = "valid"

(***************************************************************************)
(* The snapshot fails closed (parseSnapshot's strict schema, and          *)
(* createSnapshotParams returning nil on a decode error): no transaction *)
(* is produced, and no block is accepted, from a file with an unknown     *)
(* field or with an entry that does not decode.                            *)
(***************************************************************************)
Decodes(d) ==
    /\ \A i \in DOMAIN d.snap.txouts : d.snap.txouts[i].owner.decodes
    /\ \A j \in DOMAIN d.snap.blacklist : d.snap.blacklist[j].decodes

FailClosed ==
    (produced = "tx" \/ verdict = "valid")
        => doc.form \in {"strict", "trailingData"} /\ Decodes(doc)

=============================================================================
