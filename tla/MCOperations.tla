--------------------------- MODULE MCOperations ----------------------------
(***************************************************************************)
(* Instances for TLC of parts that share nothing: the beacon service (two    *)
(* connections, three peer ids for two places, two tokens for one session)  *)
(* and its ledger (one beacon, three requests), the signer (two workers,     *)
(* two tokens of one claim, a code per window), the migrations (two          *)
(* instances of delta and two starts, of one after the other or of both at   *)
(* once, on a database that is absent or at a revision after which its form  *)
(* differs), and two reports (of a message with a file, and a user without, *)
(* two moderators).  A behaviour                                             *)
(* exercises one part; the signer's tokens and its codes, which share no     *)
(* row, are taken one at a time.                                            *)
(***************************************************************************)
EXTENDS BeaconSignal, Signer, Migrations, BeaconLedger, Reports, TLC

VARIABLE part

NoJson == \A t \in Uuids : json[t] = NoRow

OperationsInit ==
    /\ ServiceInit /\ SignerInit /\ MigrationsInit /\ LedgerInit /\ ReportsInit
    /\ part \in {"beacon", "tokens", "codes", "migrations", "ledger", "reports"}
    /\ part # "beacon" => signal_secret
    /\ part # "tokens" => NoJson
    /\ part # "migrations" => db = Absent

OperationsNext ==
    /\ part' = part
    /\ \/ /\ part = "beacon" /\ ServiceNext
          /\ UNCHANGED <<signerVars, migrationVars, ledgerVars, reportVars>>
       \/ /\ part = "tokens" /\ TokensNext
          /\ UNCHANGED <<allVars, migrationVars, ledgerVars, reportVars>>
       \/ /\ part = "codes" /\ CodesNext
          /\ UNCHANGED <<allVars, migrationVars, ledgerVars, reportVars>>
       \/ /\ part = "migrations" /\ MigrationsNext
          /\ UNCHANGED <<allVars, signerVars, ledgerVars, reportVars>>
       \/ /\ part = "ledger" /\ LedgerNext
          /\ UNCHANGED <<allVars, signerVars, migrationVars, reportVars>>
       \/ /\ part = "reports" /\ ReportsNext
          /\ UNCHANGED <<allVars, signerVars, migrationVars, ledgerVars>>

OperationsSpec ==
    /\ OperationsInit
    /\ [][OperationsNext]_<<allVars, signerVars, migrationVars, ledgerVars, reportVars, part>>

(* A message has one file. *)
MCFilesOf == [message |-> {1}, user |-> {}]

Symmetry == Permutations(Conns) \cup Permutations(Tokens) \cup Permutations(PeerIds)

=============================================================================
