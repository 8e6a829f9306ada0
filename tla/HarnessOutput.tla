---------------------------- MODULE HarnessOutput ----------------------------
(***************************************************************************)
(* How the devnode harness (contracts/stylus/devnode-tests/src/main.rs)    *)
(* reads what other programs print: the address in the output of           *)
(* `cargo stylus deploy`, and the Executed event in a receipt of           *)
(* `cast send --json`.                                                     *)
(*                                                                         *)
(* A line is whether it contains one of the known phrases, whether it is   *)
(* coloured, and its 0x-words in order: the account's address, the         *)
(* deployer's, or a hash, which is not 40 digits long.                     *)
(***************************************************************************)
EXTENDS Naturals, Sequences, SequencesExt

CONSTANTS MaxLines, MaxWords   \* bounds: lines of an output, words of a line

ASSUME OutputAssumption == MaxLines \in Nat /\ MaxWords \in Nat

Line ==
    [announces : BOOLEAN, coloured : BOOLEAN,
     words : BoundedSeq({"account", "deployer", "hash"}, MaxWords)]

Outputs == BoundedSeq(Line, MaxLines)

IsAddress(word) == word \in {"account", "deployer"}

(* Variants with a planted mistake.  Nothing uses them but the mutation    *)
(* runs, which put one in the place of the definition it varies.           *)
AnyAddress(address) == address # "none"

-----------------------------------------------------------------------------
\* strip_ansi: an address behind an escape sequence does not start with 0x.
StripAnsi(line) == [line EXCEPT !.coloured = FALSE]

\* first_address_token
FirstAddressToken(line) ==
    LET i == SelectInSeq(line.words, IsAddress)
    IN  IF line.coloured \/ i = 0 THEN "none" ELSE line.words[i]

\* The deployer is skipped in the second pass, and only there.
NotDeployer(address) == address \notin {"none", "deployer"}

\* extract_deployed_address: the lines that announce an address, then any line.
ExtractDeployedAddress(lines) ==
    LET announced == SelectInSeq(lines, LAMBDA l :
                         l.announces /\ FirstAddressToken(l) # "none")
        other == SelectInSeq(lines, LAMBDA l : NotDeployer(FirstAddressToken(l)))
    IN  CASE announced # 0 -> FirstAddressToken(lines[announced])
          [] announced = 0 /\ other # 0 -> FirstAddressToken(lines[other])
          [] announced = 0 /\ other = 0 -> "none"

\* The address cargo_stylus_deploy makes of an output.
DeployedAddress(output) ==
    ExtractDeployedAddress([i \in DOMAIN output |-> StripAnsi(output[i])])

\* What the harness takes for granted of cargo stylus: a line that announces an
\* address starts with the account's, and some line starts with the account's.
Readable(output) ==
    LET first(line) == FirstAddressToken([line EXCEPT !.coloured = FALSE])
    IN  /\ \A i \in DOMAIN output :
            output[i].announces => first(output[i]) \in {"account", "none"}
        /\ \E i \in DOMAIN output : first(output[i]) = "account"

-----------------------------------------------------------------------------
\* The data of the Executed event in 32-byte words: value, nonce, success, the
\* offset of returnData, its length; and how many bytes there are in all.
AbiWord == 32
OffsetWord == 4 * AbiWord
HeaderBytes == 5 * AbiWord

ExecutedLog(value, nonce, success, returned) ==
    [topic |-> "Executed",
     data |-> <<value, nonce, IF success THEN 1 ELSE 0, OffsetWord, returned>>,
     bytes |-> HeaderBytes + ((returned + AbiWord - 1) \div AbiWord) * AbiWord]

SuccessOf(data) == data[3] = 1

WellShaped(log) ==
    /\ log.bytes >= HeaderBytes
    /\ log.data[4] = OffsetWord
    /\ HeaderBytes + log.data[5] <= log.bytes

\* parse_executed_outcome_from_receipt: the first Executed log decides.
ParseExecutedOutcome(logs) ==
    LET i == SelectInSeq(logs, LAMBDA log : log.topic = "Executed")
    IN  IF i # 0 /\ WellShaped(logs[i])
        THEN IF SuccessOf(logs[i].data) THEN "success" ELSE "failure"
        ELSE "error"
=============================================================================
