-------------------------- MODULE MCMigrationCodec --------------------------
(***************************************************************************)
(* TLC instance of MigrationCodec: two-byte addresses, a multiplier of    *)
(* 100 and a uint bound of 1000, so that an amount of 10 overflows and a  *)
(* negative one is out of range, and a set of snapshot files with one     *)
(* defect each.                                                            *)
(***************************************************************************)
EXTENDS MigrationCodec

\* Base58-decoded owners: 8, 7 and 6 bytes decode to 3, 2 and 1 address
\* bytes after stripping; 4 bytes is too short for the slice.
O8 == Decoded(<<1, 0, 1, 1, 0, 0, 0, 0>>)
O7 == Decoded(<<1, 1, 0, 0, 0, 0, 0>>)
O6 == Decoded(<<1, 1, 0, 0, 0, 0>>)
O4 == Decoded(<<1, 0, 0, 0>>)

Snap(txouts, bl, h) == [txouts |-> txouts, blacklist |-> bl, hash |-> h]
Item(o, a) == [owner |-> o, amount |-> a, amountSet |-> TRUE]
NilItem(o) == [owner |-> o, amount |-> 0, amountSet |-> FALSE]
Good == Snap(<<Item(O7, 1), Item(O6, 9)>>, <<O8>>, "h1")

MCDocs ==
    {[form |-> f, snap |-> Good] : f \in DocForms}
    \cup
    {[form |-> "strict", snap |-> s] :
        s \in {Snap(<<>>, <<>>, "h0"),
               Snap(<<Item(Undecodable, 1)>>, <<>>, "h2"),
               Snap(<<Item(O4, 1)>>, <<Undecodable>>, "h3"),
               Snap(<<NilItem(O7)>>, <<>>, "h4"),
               Snap(<<Item(O7, 10)>>, <<>>, "h5"),
               Snap(<<Item(O8, -1)>>, <<>>, "h6"),
               Snap(<<Item(O7, 1)>>, <<Undecodable>>, "h7"),
               Snap(<<Item(O7, 1)>>, <<O4>>, "h8")}}

MCAddrLen == 2
MCMultiplier == 100
MCUintBound == 1000
MCGasPerEntry == 5
MCDefaultGasLimit == 8

(***************************************************************************)
(* Spec section 7: this layer never panics on expected-bad input; a       *)
(* malformed snapshot is a MigrationIntegrityError returned to the caller *)
(* of MigrationTx and ValidateMigration.                                   *)
(***************************************************************************)
NoPanic ==
    produced # "panic" /\ verdict # "panic"

(***************************************************************************)
(* Spec section 4.5: ValidateMigration lets every node reject a forged    *)
(* migration block: the first transaction of an accepted block is the     *)
(* setSnapshot call migrationTx builds, to the migration contract with    *)
(* nonce 0.                                                                *)
(***************************************************************************)
ValidatedIsGenuine ==
    verdict = "valid" => block[1].to = MigrationContract /\ block[1].nonce = 0

(***************************************************************************)
(* Spec section 4.5 step 7: migrationTx signs the transaction through the *)
(* engine's consensus-restricted signer and fails only when the signer    *)
(* function or the configuration is missing: a producer whose engine is   *)
(* fully configured, and whose snapshot was packed (its header written),  *)
(* obtains the transaction.                                                *)
(***************************************************************************)
SignerConfigured(c) == c.isRange /\ c.signerFn /\ c.config /\ c.signOK

ConfiguredProducerSigns ==
    (produced # "none" /\ SignerConfigured(producer) /\ header # InitialHeader)
        => produced = "tx"

(***************************************************************************)
(* Spec section 3: a malformed or tampered snapshot must fail closed.  A  *)
(* file whose JSON object is followed by more bytes (a second object      *)
(* appended, say) is malformed, so no migration transaction is produced   *)
(* and no migration block accepted from it.                                *)
(***************************************************************************)
StrictSnapshotOnly ==
    (produced = "tx" \/ verdict = "valid") => doc.form = "strict"

=============================================================================
