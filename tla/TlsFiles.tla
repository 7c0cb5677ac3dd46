------------------------------ MODULE TlsFiles ------------------------------
(***************************************************************************)
(* The certificate and key files: load_or_generate in                      *)
(* crates/twl-server/src/tls.rs.                                           *)
(*                                                                         *)
(* A start loads the two files if both are there, else it generates a pair *)
(* and writes one file after the other; each write truncates first. The    *)
(* process may die, or a write fail, at any point in between, and between  *)
(* two runs the operator puts files in place or takes them away. That the  *)
(* two paths are different files is Config's (TlsFilesDistinct). External: *)
(* rustls, which refuses a key that does not belong to the certificate.    *)
(***************************************************************************)
EXTENDS Naturals

CONSTANTS MaxPairs  \* bound on pairs at a time, generated or supplied; three
                    \* suffice for a new one beside two files

ASSUME TlsFilesAssumption == MaxPairs \in Nat

VARIABLES
  cert, key,  \* what each file holds: Absent, Broken, or the pair it is of
  pc,         \* where the program is
  pair,       \* the pair in memory, from generation or the files
  kept        \* history: the last pair served, 0 once the operator has
              \* touched a file

tlsVars == <<cert, key, pc, pair, kept>>

Pairs == 1..MaxPairs
Absent == 0
Broken == MaxPairs + 1  \* empty, or cut off in the middle
Whole == cert \in Pairs /\ key = cert

\* Before the first start
TlsInit ==
  /\ cert = Absent /\ key = Absent
  /\ pc = "down" /\ pair = 0 /\ kept = 0

-----------------------------------------------------------------------------

\* generate_self_signed: a pair no file holds
Generate ==
  /\ pair' \in Pairs \ {cert, key}
  /\ pc' = "cert"

\* The two files are looked for, and a pair generated unless both are there.
Start ==
  /\ pc = "down"
  /\ IF cert # Absent /\ key # Absent THEN pc' = "loading" /\ UNCHANGED pair ELSE Generate
  /\ UNCHANGED <<cert, key, kept>>

\* RustlsConfig::from_pem_file; an error ends the program.
FromPemFile ==
  /\ pc = "loading"
  /\ IF Whole THEN pc' = "serving" /\ pair' = cert /\ kept' = cert
              ELSE pc' = "down" /\ UNCHANGED <<pair, kept>>
  /\ UNCHANGED <<cert, key>>

\* std::fs::write of the certificate, which truncates and then writes
TruncateCert ==
  /\ pc = "cert"
  /\ cert' = Broken /\ pc' = "cert_open"
  /\ UNCHANGED <<key, pair, kept>>

WriteCert ==
  /\ pc = "cert_open"
  /\ cert' = pair /\ pc' = "key"
  /\ UNCHANGED <<key, pair, kept>>

\* The key file is opened with truncate, then written.
TruncateKey ==
  /\ pc = "key"
  /\ key' = Broken /\ pc' = "key_open"
  /\ UNCHANGED <<cert, pair, kept>>

\* Fault: the key is used from memory and not written.
WriteKeyNot ==
  /\ pc = "key_open"
  /\ pc' = "serving" /\ kept' = pair
  /\ UNCHANGED <<cert, key, pair>>

\* The key is written, and the pair is used from memory.
WriteKey ==
  /\ pc = "key_open"
  /\ key' = pair /\ pc' = "serving" /\ kept' = pair
  /\ UNCHANGED <<cert, pair>>

\* A signal, a crash, or an I/O error: the files stay as they are.
Stop ==
  /\ pc # "down"
  /\ pc' = "down" /\ pair' = 0
  /\ UNCHANGED <<cert, key, kept>>

\* The operator supplies a pair, or takes a file away.
Supply ==
  /\ pc = "down" /\ kept' = 0
  /\ cert' \in Pairs \ {cert, key} /\ key' = cert'
  /\ UNCHANGED <<pc, pair>>

TakeAway ==
  /\ pc = "down" /\ kept' = 0
  /\ \/ cert # Absent /\ cert' = Absent /\ UNCHANGED key
     \/ key # Absent /\ key' = Absent /\ UNCHANGED cert
  /\ UNCHANGED <<pc, pair>>

TlsNext ==
  \/ Start \/ FromPemFile \/ TruncateCert \/ WriteCert \/ TruncateKey \/ WriteKey
  \/ Stop \/ Supply \/ TakeAway

TlsSpec == TlsInit /\ [][TlsNext]_tlsVars

-----------------------------------------------------------------------------

\* A pair that has been served is what the files hold until someone touches
\* them, so the next start shows clients the same certificate ("reuses the pair
\* when both files exist, preserving the certificate fingerprint", TLS.md).
FingerprintKept == kept # 0 => cert = kept /\ key = kept
=============================================================================
