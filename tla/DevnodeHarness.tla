--------------------------- MODULE DevnodeHarness ---------------------------
(***************************************************************************)
(* The devnode harness (contracts/stylus/devnode-tests/src/main.rs): its   *)
(* five tests, driving real accounts.  A test is a script of commands and  *)
(* checks; a command is a transaction on the chain of P256Account, so what *)
(* a test sees is what the contract does, and every test deploys an        *)
(* account of its own, named after the test here.                          *)
(*                                                                         *)
(* A command can also go wrong: it fails before it did anything, it fails  *)
(* although its transaction was mined, it exits 0 although the transaction *)
(* reverted, deploy prints what the parser does not expect, or the SDK     *)
(* reports a transfer that did not happen as a success.  `faulty` records  *)
(* which tests met such a fault.                                           *)
(***************************************************************************)
EXTENDS P256Account, HarnessOutput

CONSTANTS Devnode, MaxFaults   \* the chain; bound: tests that meet a fault

TESTS == <<"happy_path", "reverting_target_consumes_nonce",
           "value_exceeds_balance", "rotate_owner", "nonce_monotonicity">>
TestNames == ToSet(TESTS)

\* Keypair::generate: the i-th key pair of a test is nobody else's.
KeyPair(t, i) == <<t, i>>

ASSUME HarnessAssumption ==
    /\ Devnode \in Chains
    /\ Addrs = TestNames
    /\ Keys = TestNames \X {1, 2}
    /\ MaxFaults \in Nat

VARIABLES
    cmd,      \* the command line: "all", "list" or a test name
    exit,     \* "starting", "running", then how the process ended
    plan,     \* the tests to run, the current one first
    step,     \* the position in its script
    acct,     \* the address deploy_fresh returned, a test name or "deployer"
    tx,       \* the running command's transaction
    receipt,  \* the logs of the last transaction
    funded,   \* what the dev wallet sent to each account
    results,  \* the verdict on each test
    faulty    \* the tests that met a fault

harnessVars == <<cmd, exit, plan, step, acct, tx, receipt, funded, results, faulty>>
allVars == <<chain, stack, signed, harnessVars>>

-----------------------------------------------------------------------------
(* Scripts.  A key is the number of a key pair; amounts are scaled down.   *)

Ether == 10
Gwei == 2

ToDevWallet(value) == [to |-> "ext", data |-> "empty", value |-> value]
ToFallback == [to |-> "self", data |-> "unknown", value |-> 0]

Deploy == [do |-> "deploy"]
Fund(value) == [do |-> "fund", value |-> value]
SendExecute(call, n, key) == [do |-> "execute", call |-> call, nonce |-> n, key |-> key]
SendRotate(new, n, key) == [do |-> "rotate", new |-> new, nonce |-> n, key |-> key]
ExpectNonce(n) == [do |-> "nonce", nonce |-> n]
ExpectOwner(key) == [do |-> "owner", key |-> key]
ExpectBalance(value) == [do |-> "balance", value |-> value]
ExpectFailure == [do |-> "outcome", outcome |-> "failure"]

HappyPath ==
    <<Deploy, Fund(Ether), SendExecute(ToDevWallet(Gwei), 0, 1), ExpectNonce(1)>>

RevertingTarget ==
    <<Deploy, SendExecute(ToFallback, 0, 1), ExpectFailure, ExpectNonce(1)>>

ValueExceedsBalance ==
    <<Deploy, Fund(1), ExpectBalance(1), SendExecute(ToDevWallet(2), 0, 1),
      ExpectFailure, ExpectBalance(1), ExpectNonce(1)>>

RotateOwnerTest ==
    <<Deploy, SendRotate(2, 0, 1), ExpectOwner(2), ExpectNonce(1)>>

NonceMonotonicity ==
    <<Deploy, Fund(Ether),
      SendExecute(ToDevWallet(1), 0, 1), ExpectNonce(1),
      SendRotate(2, 1, 1), ExpectNonce(2),
      SendExecute(ToDevWallet(1), 2, 2), ExpectNonce(3)>>

Script(t) ==
    CASE t = "happy_path" -> HappyPath
      [] t = "reverting_target_consumes_nonce" -> RevertingTarget
      [] t = "value_exceeds_balance" -> ValueExceedsBalance
      [] t = "rotate_owner" -> RotateOwnerTest
      [] t = "nonce_monotonicity" -> NonceMonotonicity

ASSUME ScriptAssumption ==
    \A t \in TestNames : \A k \in DOMAIN Script(t) :
        Script(t)[k].do = "execute" => Script(t)[k].call \in Calls

-----------------------------------------------------------------------------
(* The harness's own digest builders.                                      *)

HarnessEnvelope(address, struct) ==
    [domain |-> [chainId |-> Devnode, verifyingContract |-> address],
     struct |-> struct]

HarnessExecuteHash(address, call, n) ==
    HarnessEnvelope(address, [type |-> "Execute", call |-> call, nonce |-> n])

HarnessRotateHash(address, newOwner, n) ==
    HarnessEnvelope(address,
        [type |-> "RotateOwner", newOwner |-> newOwner, nonce |-> n])

(* Variants with a planted mistake.  Nothing uses them but the mutation    *)
(* runs, which put one in the place of the definition it varies.           *)
AnyNonce(s, read) == TRUE
LastVerdictDecides(verdicts, last) == last = "fail"
AddressKept == step' = 1 /\ acct' = acct /\ tx' = "none" /\ receipt' = <<>>

-----------------------------------------------------------------------------
Test == Head(plan)
Here == [chain |-> Devnode, addr |-> Test]   \* where this test's account goes
Step == Script(Test)[step]
Doing(kinds) ==
    exit = "running" /\ plan # <<>> /\ step <= Len(Script(Test)) /\ Step.do \in kinds

Commands == {"deploy", "fund", "execute", "rotate"}

\* The account under the address the harness holds, if there is one: any other
\* address has no code, takes every transaction and answers reads with zero.
Acct == [chain |-> Devnode, addr |-> acct]
HasCode == acct \in TestNames /\ chain[Acct].owner # NoOwner

Balance(state, a) ==
    funded[a.addr] - FoldSeq(LAMBDA d, sum : d.call.value + sum, 0, state[a].delivered)

\* What the current step signs, and Keypair::sign's answer.
Digest(s) ==
    IF s.do = "execute" THEN HarnessExecuteHash(acct, s.call, s.nonce)
                        ELSE HarnessRotateHash(acct, KeyPair(Test, s.new), s.nonce)
Signature(s) == [form |-> "strict", key |-> KeyPair(Test, s.key), digest |-> Digest(s)]

\* The digest the account expects for it.
AccountDigest(s) ==
    IF s.do = "execute" THEN ExecuteHash(Acct, s.call, s.nonce)
                        ELSE RotateHash(Acct, KeyPair(Test, s.new), s.nonce)
Rejected(s) ==
    /\ s.do \in {"execute", "rotate"}
    /\ HasCode
    /\ ~Accepts(chain[Acct], AccountDigest(s), s.nonce, Signature(s))

\* The current test meets a fault.
Strike ==
    /\ Test \in faulty \/ Cardinality(faulty) < MaxFaults
    /\ faulty' = faulty \cup {Test}

\* On to the next step of the script.
NextStep ==
    /\ step' = step + 1
    /\ tx' = "none"
    /\ UNCHANGED <<cmd, exit, plan, funded, results>>

\* run_all: a test that failed does not keep the others from running.
StillToRun(rest, verdict) == rest

AnyFailed(verdicts, last) == \E t \in TestNames : verdicts[t] = "fail"

\* Every test function has locals of its own.
FreshStart ==
    /\ step' = 1
    /\ acct' = "none"
    /\ tx' = "none"
    /\ receipt' = <<>>

\* The test returns, and after the last one the process does.
EndTest(verdict) ==
    LET rest == StillToRun(Tail(plan), verdict)
    IN  /\ results' = [results EXCEPT ![Test] = verdict]
        /\ plan' = rest
        /\ FreshStart
        /\ exit' = IF rest # <<>> THEN "running"
                   ELSE IF AnyFailed(results', verdict) THEN "error" ELSE "ok"
        /\ UNCHANGED <<cmd, funded>>

-----------------------------------------------------------------------------
HarnessInit ==
    /\ Init
    /\ cmd \in {"all", "list", "no_such_test"} \cup TestNames
    /\ exit = "starting"
    /\ plan = <<>>
    /\ step = 1
    /\ acct = "none"
    /\ tx = "none"
    /\ receipt = <<>>
    /\ funded = [t \in TestNames |-> 0]
    /\ results = [t \in TestNames |-> "none"]
    /\ faulty = {}

\* main: list the tests, or prepare and run all of them or one.
Main ==
    /\ exit = "starting"
    /\ \/ cmd = "list" /\ exit' = "ok" /\ UNCHANGED plan
       \/ cmd = "no_such_test" /\ exit' = "error" /\ UNCHANGED plan
       \/ cmd = "all" /\ exit' = "running" /\ plan' = TESTS
       \/ cmd \in TestNames /\ exit' = "running" /\ plan' = <<cmd>>
    /\ UNCHANGED <<chain, stack, signed, cmd, step, acct, tx, receipt, funded,
                   results, faulty>>

\* make_ctx fails: no devnode, no cast, or the contract does not build.
MakeCtxFails ==
    /\ exit = "starting"
    /\ cmd # "list"
    /\ exit' = "error"
    /\ UNCHANGED <<chain, stack, signed, cmd, plan, step, acct, tx, receipt,
                   funded, results, faulty>>

\* cast and cargo stylus send their transaction from the dev wallet.
Send ==
    /\ Doing(Commands)
    /\ tx = "none"
    /\ BeginTx(Devnode)
    /\ tx' = "sent"
    /\ UNCHANGED <<cmd, exit, plan, step, acct, receipt, funded, results, faulty>>

\* The transaction reaches its target.
Enter ==
    /\ tx = "sent"
    /\ \/ /\ Step.do = "deploy"
          /\ Constructor(Here, KeyPair(Test, 1))
          /\ UNCHANGED funded
       \/ /\ Step.do = "fund"
          /\ funded' = IF acct \in TestNames
                       THEN [funded EXCEPT ![acct] = @ + Step.value] ELSE funded
          /\ UNCHANGED <<chain, stack, signed>>
       \/ /\ Step.do = "execute" /\ HasCode
          /\ Execute(Acct, Step.call, Step.nonce, Signature(Step))
          /\ UNCHANGED funded
       \/ /\ Step.do = "rotate" /\ HasCode
          /\ RotateOwner(Acct, KeyPair(Test, Step.new), Step.nonce, Signature(Step))
          /\ UNCHANGED funded
       \/ /\ Step.do \in {"execute", "rotate"} /\ ~HasCode
          /\ UNCHANGED <<chain, stack, signed, funded>>
    /\ tx' = "entered"
    /\ UNCHANGED <<cmd, exit, plan, step, acct, receipt, results, faulty>>

\* The transaction reverts: the account rejected it, or by a fault.
Revert ==
    /\ tx = "sent"
    /\ AbortTx
    /\ tx' = "reverted"
    /\ \/ Rejected(Step) /\ UNCHANGED faulty
       \/ ~Rejected(Step) /\ Strike
    /\ UNCHANGED <<cmd, exit, plan, step, acct, receipt, funded, results>>

\* The inner call of execute.  The dev wallet accepts a transfer the account
\* can pay for; the account's own fallback reverts.
CanPay == Balance(Top.saved, Here) >= Step.call.value

InnerCall ==
    /\ tx = "entered"
    /\ \/ CallExternal /\ UNCHANGED faulty
       \/ CallSelf /\ UNCHANGED faulty
       \/ CalleeReturns /\ CanPay /\ UNCHANGED faulty
       \/ CalleeReverts /\ ~CanPay /\ UNCHANGED faulty
       \/ /\ InExt /\ Len(stack) > 1 /\ ~CanPay       \* the silent success
          /\ Resume(Front(stack), Top.saved, "ok")
          /\ UNCHANGED signed
          /\ Strike
    /\ UNCHANGED <<cmd, exit, plan, step, acct, tx, receipt, funded, results>>

\* The transaction is mined, and the receipt holds what the account logged.
NewLogs(before, returned) ==
    [i \in 1 .. Len(chain[Here].log) - Len(before[Here].log) |->
        LET event == chain[Here].log[Len(before[Here].log) + i]
        IN  IF event.type = "Executed"
            THEN ExecutedLog(event.call.value, event.nonce, event.success, returned)
            ELSE [topic |-> event.type, data |-> <<>>, bytes |-> 0]]

Mine ==
    /\ tx = "entered"
    /\ EndTx
    /\ tx' = "mined"
    /\ \E returned \in {0, 4} : receipt' = NewLogs(Top.saved, returned)
    /\ UNCHANGED <<cmd, exit, plan, step, acct, funded, results, faulty>>

\* cast exits 0: run looks at nothing else.
CommandReturns ==
    /\ Doing(Commands \ {"deploy"})
    /\ tx \in {"mined", "reverted"}
    /\ NextStep
    /\ UNCHANGED <<chain, stack, signed, acct, receipt, faulty>>

\* deploy_fresh: cargo stylus exits 0 and the address is read off its output.
DeployReturns ==
    /\ Doing({"deploy"})
    /\ tx \in {"mined", "reverted"}
    /\ \E output \in Outputs :
        /\ IF Readable(output) THEN UNCHANGED faulty ELSE Strike
        /\ \/ /\ DeployedAddress(output) = "account"
              /\ acct' = Test
              /\ NextStep
              /\ UNCHANGED receipt
           \/ /\ DeployedAddress(output) \notin {"account", "none"}
              /\ acct' = "deployer"
              /\ NextStep
              /\ UNCHANGED receipt
           \/ /\ DeployedAddress(output) = "none"
              /\ EndTest("fail")
    /\ UNCHANGED <<chain, stack, signed>>

\* The command exits with an error: it was never sent, it was mined all the
\* same, or its transaction reverted.
CommandFails ==
    /\ Doing(Commands)
    /\ \/ tx \in {"none", "mined"} /\ Strike
       \/ tx = "reverted" /\ UNCHANGED faulty
    /\ EndTest("fail")
    /\ UNCHANGED <<chain, stack, signed>>

-----------------------------------------------------------------------------
\* The checks: a getter of the account against the value the test expects.
NonceRead == IF HasCode THEN chain[Acct].nonce ELSE 0

NonceAsExpected(s, read) == read = s.nonce

AsExpected(s) ==
    CASE s.do = "nonce" -> NonceAsExpected(s, NonceRead)
      [] s.do = "owner" -> HasCode /\ chain[Acct].owner = KeyPair(Test, s.key)
      [] s.do = "balance" -> acct = Test /\ Balance(chain, Here) = s.value
      [] s.do = "outcome" -> ParseExecutedOutcome(receipt) = s.outcome

Checks == {"nonce", "owner", "balance", "outcome"}

CheckHolds ==
    /\ Doing(Checks)
    /\ AsExpected(Step)
    /\ NextStep
    /\ UNCHANGED <<chain, stack, signed, acct, receipt, faulty>>

CheckFails ==
    /\ Doing(Checks)
    /\ \/ ~AsExpected(Step) /\ UNCHANGED faulty
       \/ Step.do # "outcome" /\ Strike          \* the read itself fails
    /\ EndTest("fail")
    /\ UNCHANGED <<chain, stack, signed>>

TestPasses ==
    /\ plan # <<>>
    /\ step > Len(Script(Test))
    /\ EndTest("pass")
    /\ UNCHANGED <<chain, stack, signed, faulty>>

\* The process has ended.
Ended == exit \in {"ok", "error"} /\ UNCHANGED allVars

HarnessNext ==
    \/ Main \/ MakeCtxFails
    \/ Send \/ Enter \/ Revert \/ InnerCall \/ Mine
    \/ CommandReturns \/ DeployReturns \/ CommandFails
    \/ CheckHolds \/ CheckFails \/ TestPasses
    \/ Ended

HarnessSpec == HarnessInit /\ [][HarnessNext]_allVars

-----------------------------------------------------------------------------
HarnessTypeOK ==
    /\ TypeOK
    /\ exit \in {"starting", "running", "ok", "error"}
    /\ plan = SubSeq(TESTS, Len(TESTS) - Len(plan) + 1, Len(TESTS)) \/ plan = <<cmd>>
    /\ step \in 1 .. (IF plan = <<>> THEN 1 ELSE Len(Script(Test)) + 1)
    /\ acct \in {"none", "deployer"} \/ (plan # <<>> /\ acct = Test)
    /\ tx \in {"none", "sent", "entered", "mined", "reverted"}
    /\ funded \in [TestNames -> Nat]
    /\ results \in [TestNames -> {"none", "pass", "fail"}]
    /\ faulty \subseteq TestNames

\* What a script asks of the account, and what the account's log says happened.
Asked(t) == {k \in DOMAIN Script(t) : Script(t)[k].do \in {"execute", "rotate"}}
AccountOf(t) == [chain |-> Devnode, addr |-> t]
Log(t) == chain[AccountOf(t)].log

Answers(t, event, s) ==
    IF s.do = "execute"
    THEN /\ event.type = "Executed"
         /\ event.call = s.call
         /\ event.nonce = s.nonce
         /\ ExpectFailure \in ToSet(Script(t)) => ~event.success
    ELSE /\ event.type = "OwnerRotated"
         /\ event.prev = KeyPair(t, s.key)
         /\ event.new = KeyPair(t, s.new)
         /\ event.nonce = s.nonce

\* A test that passes has had its operations settled: the account it deployed has
\* logged exactly the operations of the script, under the script's nonces and
\* keys (nonce n's event comes after the deployment's and those of smaller
\* nonces), and a call that had to fail has failed and moved nothing.  No failed,
\* lost or reverted command, misread deploy output or silent success passes for
\* that: the checks after each command catch it (main.rs:652-928).  That a call which
\* should succeed did is not claimed: happy_path reads the nonce and no balance.
PassMeansDone ==
    \A t \in TestNames : results[t] = "pass" =>
        /\ Len(Log(t)) = 1 + Cardinality(Asked(t))
        /\ Log(t)[1] = [type |-> "OwnerInitialized", key |-> KeyPair(t, 1)]
        /\ \A k \in Asked(t) :
              Answers(t, Log(t)[Script(t)[k].nonce + 2], Script(t)[k])
        /\ ExpectFailure \in ToSet(Script(t)) => chain[AccountOf(t)].delivered = <<>>

\* A test fails only by a fault of its own: what an earlier test did or left
\* undone never fails a later one, the harness's digests are the contract's, and
\* any output cargo stylus is expected to print yields the account's address.
Isolated == \A t \in TestNames : results[t] = "fail" => t \in faulty

\* The exit code is the verdict: 0 exactly when every planned test passed, and
\* `all` gives every test a verdict even after one failed (main.rs:969-995).
ExitTruthful ==
    /\ exit = "ok" /\ cmd = "all" => \A t \in TestNames : results[t] = "pass"
    /\ exit = "ok" /\ cmd \in TestNames => results[cmd] = "pass"
    /\ exit = "error" /\ (\E t \in TestNames : results[t] # "none") =>
          /\ \E t \in TestNames : results[t] = "fail"
          /\ cmd = "all" => \A t \in TestNames : results[t] # "none"
=============================================================================
