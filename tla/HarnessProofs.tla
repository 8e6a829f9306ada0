---------------------------- MODULE HarnessProofs ----------------------------
(***************************************************************************)
(* The devnode harness, for every output of cargo stylus and every number  *)
(* of faults: types, a truthful exit code, that a test which passes has    *)
(* done on chain what it is about, and that one which fails met a fault.   *)
(***************************************************************************)
EXTENDS DevnodeHarness, P256AccountProofs, FiniteSetTheorems

\* The verdicts and the tests still to run, as of now.
Control ==
    /\ cmd \in {"all", "list", "no_such_test"} \cup TestNames
    /\ exit \in {"starting", "running", "ok", "error"}
    /\ plan \in Seq(TestNames)
    /\ plan # <<>> <=> exit = "running"
    /\ results \in [TestNames -> {"none", "pass", "fail"}]
    /\ cmd # "all" => \A t \in TestNames : results[t] # "none" => t = cmd
    /\ exit = "starting" => \A t \in TestNames : results[t] = "none"
    /\ exit = "running" /\ cmd # "all" =>
          plan = <<cmd>> /\ cmd \in TestNames /\ results[cmd] = "none"
    /\ exit = "running" /\ cmd = "all" =>
          /\ Len(plan) \in 1 .. 5
          /\ \A i \in 1 .. Len(plan) : plan[i] = TESTS[i + 5 - Len(plan)]
          /\ \A i \in 1 .. 5 : results[TESTS[i]] # "none" <=> i <= 5 - Len(plan)
    /\ ExitTruthful

-----------------------------------------------------------------------------
(* The list of tests. *)

LEMMA TestsFacts ==
    /\ Len(TESTS) = 5
    /\ TestNames = {TESTS[i] : i \in 1 .. 5}
    /\ \A i, j \in 1 .. 5 : TESTS[i] = TESTS[j] => i = j
    /\ "all" \notin TestNames /\ "list" \notin TestNames /\ "no_such_test" \notin TestNames
<1>1. Len(TESTS) = 5 /\ DOMAIN TESTS = 1 .. 5
  BY DEF TESTS
<1>2. /\ TESTS[1] = "happy_path"
      /\ TESTS[2] = "reverting_target_consumes_nonce"
      /\ TESTS[3] = "value_exceeds_balance"
      /\ TESTS[4] = "rotate_owner"
      /\ TESTS[5] = "nonce_monotonicity"
  BY DEF TESTS
<1>3. TestNames = {TESTS[i] : i \in 1 .. 5}
  BY <1>1 DEF TestNames, ToSet
<1>4. 1 .. 5 = {1, 2, 3, 4, 5}
  OBVIOUS
<1>5. \A i, j \in 1 .. 5 : TESTS[i] = TESTS[j] => i = j
  BY ONLY <1>2, <1>4
<1>6. TestNames = {"happy_path", "reverting_target_consumes_nonce",
                   "value_exceeds_balance", "rotate_owner", "nonce_monotonicity"}
  BY ONLY <1>2, <1>3, <1>4
<1> QED
  BY <1>1, <1>3, <1>5, <1>6

LEMMA NamedTests ==
    TestNames = {"happy_path", "reverting_target_consumes_nonce",
                 "value_exceeds_balance", "rotate_owner", "nonce_monotonicity"}
<1>1. /\ DOMAIN TESTS = {1, 2, 3, 4, 5}
      /\ TESTS[1] = "happy_path"
      /\ TESTS[2] = "reverting_target_consumes_nonce"
      /\ TESTS[3] = "value_exceeds_balance"
      /\ TESTS[4] = "rotate_owner"
      /\ TESTS[5] = "nonce_monotonicity"
  BY DEF TESTS
<1> QED
  BY ONLY <1>1 DEF TestNames, ToSet

LEMMA AllTests == TESTS \in Seq(TestNames) /\ TESTS # <<>> /\ DOMAIN TESTS = 1 .. 5
<1>1. /\ TESTS = [i \in 1 .. 5 |-> TESTS[i]]
      /\ DOMAIN TESTS = 1 .. 5
  BY DEF TESTS
<1>2. \A i \in 1 .. 5 : TESTS[i] \in TestNames
  BY TestsFacts
<1>3. TESTS \in [1 .. 5 -> TestNames]
  BY <1>1, <1>2
<1>4. TESTS \in Seq(TestNames)
  BY <1>3, SeqDef
<1> QED
  BY <1>1, <1>4, TestsFacts, EmptySeq

\* The current test is one of them.
LEMMA CurrentTest ==
    ASSUME Control, plan # <<>>
    PROVE  /\ Test \in TestNames
           /\ results[Test] = "none"
           /\ Len(plan) \in Nat \ {0}
           /\ Test = plan[1]
           /\ exit = "running"
           /\ cmd \in {"all"} \cup TestNames
           /\ cmd # "all" => Test = cmd
<1>1. /\ Len(plan) \in Nat \ {0}
      /\ Test = plan[1]
      /\ Test \in TestNames
  BY EmptySeq, LenProperties, HeadTailProperties DEF Control, Test
<1>2. exit = "running"
  BY DEF Control
<1>3. CASE cmd # "all"
  <2>1. plan = <<cmd>> /\ cmd \in TestNames /\ results[cmd] = "none"
    BY <1>2, <1>3 DEF Control
  <2> QED
    BY <1>1, <1>2, <2>1
<1>4. CASE cmd = "all"
  <2> DEFINE l == Len(plan)
  <2>1. /\ l \in 1 .. 5
        /\ \A i \in 1 .. l : plan[i] = TESTS[i + 5 - l]
        /\ \A i \in 1 .. 5 : results[TESTS[i]] # "none" <=> i <= 5 - l
    BY <1>2, <1>4 DEF Control
  <2> HIDE DEF l
  <2>2. 1 \in 1 .. l /\ 1 + 5 - l \in 1 .. 5 /\ ~(1 + 5 - l <= 5 - l)
    BY <2>1
  <2>3. plan[1] = TESTS[1 + 5 - l]
    BY <2>1, <2>2
  <2>4. results[TESTS[1 + 5 - l]] = "none"
    BY <2>1, <2>2
  <2> QED
    BY <1>1, <1>2, <1>4, <2>3, <2>4
<1> QED
  BY <1>3, <1>4

-----------------------------------------------------------------------------
(* The exit code. *)

\* A step starts the process, ends a test, or leaves the verdicts alone.
LEMMA HarnessStepKinds ==
    ASSUME [HarnessNext]_allVars
    PROVE  \/ Main
           \/ MakeCtxFails
           \/ plan # <<>> /\ \E verdict \in {"pass", "fail"} : EndTest(verdict)
           \/ UNCHANGED <<cmd, exit, plan, results>>
<1>1. Send \/ Enter \/ Revert \/ InnerCall \/ Mine => UNCHANGED <<cmd, exit, plan, results>>
  BY DEF Send, Enter, Revert, InnerCall, Mine
<1>2. CommandReturns \/ CheckHolds => UNCHANGED <<cmd, exit, plan, results>>
  BY DEF CommandReturns, CheckHolds, NextStep
<1>3. DeployReturns => \/ plan # <<>> /\ EndTest("fail")
                       \/ UNCHANGED <<cmd, exit, plan, results>>
  BY DEF DeployReturns, Doing, NextStep
<1>4. CommandFails \/ CheckFails => plan # <<>> /\ EndTest("fail")
  BY DEF CommandFails, CheckFails, Doing
<1>5. TestPasses => plan # <<>> /\ EndTest("pass")
  BY DEF TestPasses
<1>6. Ended \/ UNCHANGED allVars => UNCHANGED <<cmd, exit, plan, results>>
  BY DEF Ended, allVars, harnessVars
<1> QED
  BY <1>1, <1>2, <1>3, <1>4, <1>5, <1>6 DEF HarnessNext

LEMMA ControlInit == HarnessInit => Control
<1> SUFFICES ASSUME HarnessInit PROVE Control
  OBVIOUS
<1>1. /\ plan = <<>> /\ plan \in Seq(TestNames)
      /\ exit = "starting"
      /\ results = [t \in TestNames |-> "none"]
      /\ cmd \in {"all", "list", "no_such_test"} \cup TestNames
  BY EmptySeq DEF HarnessInit
<1>2. ExitTruthful
  BY <1>1 DEF ExitTruthful
<1> QED
  BY <1>1, <1>2 DEF Control

LEMMA MainControl ==
    ASSUME Control, Main
    PROVE  Control'
<1>1. /\ exit = "starting" /\ UNCHANGED <<cmd, results>>
      /\ \A t \in TestNames : results[t] = "none"
      /\ plan = <<>>
      /\ results \in [TestNames -> {"none", "pass", "fail"}]
      /\ cmd \in {"all", "list", "no_such_test"} \cup TestNames
  BY DEF Control, Main
<1>2. CASE cmd \in {"list", "no_such_test"}
  <2>1. exit' \in {"ok", "error"} /\ plan' = <<>>
    BY <1>1, <1>2, TestsFacts DEF Main
  <2>2. ExitTruthful'
    BY <1>1, <1>2, <2>1, TestsFacts DEF ExitTruthful
  <2> QED
    BY <1>1, <1>2, <2>1, <2>2, EmptySeq DEF Control
<1>3. CASE cmd = "all"
  <2>1. exit' = "running" /\ plan' = TESTS
    BY <1>3, TestsFacts DEF Main
  <2>2. ExitTruthful'
    BY <2>1 DEF ExitTruthful
  <2>3. /\ Len(plan') = 5
        /\ \A i \in 1 .. 5 : plan'[i] = TESTS[i + 5 - 5]
    BY <2>1, TestsFacts
  <2>4. \A i \in 1 .. 5 : results'[TESTS[i]] # "none" <=> i <= 5 - 5
    BY <1>1, TestsFacts
  <2> QED
    BY <1>1, <1>3, <2>1, <2>2, <2>3, <2>4, AllTests DEF Control
<1>4. CASE cmd \in TestNames
  <2>1. exit' = "running" /\ plan' = <<cmd>>
    BY <1>4, TestsFacts DEF Main
  <2>2. ExitTruthful'
    BY <2>1 DEF ExitTruthful
  <2>3. <<cmd>> \in Seq(TestNames) /\ <<cmd>> # <<>>
    BY <1>4
  <2> QED
    BY <1>1, <1>4, <2>1, <2>2, <2>3, TestsFacts DEF Control
<1> QED
  BY <1>1, <1>2, <1>3, <1>4

LEMMA MakeCtxControl ==
    ASSUME Control, MakeCtxFails
    PROVE  Control'
<1>1. /\ exit = "starting" /\ exit' = "error" /\ UNCHANGED <<cmd, results, plan>>
      /\ \A t \in TestNames : results[t] = "none"
      /\ plan = <<>>
  BY DEF Control, MakeCtxFails
<1>2. ExitTruthful'
  BY <1>1 DEF ExitTruthful
<1> QED
  BY <1>1, <1>2 DEF Control

LEMMA EndTestControl ==
    ASSUME Control, plan # <<>>, NEW verdict \in {"pass", "fail"}, EndTest(verdict)
    PROVE  Control'
<1> DEFINE rest == Tail(plan)
           l == Len(plan)
<1>1. /\ results' = [results EXCEPT ![Test] = verdict]
      /\ plan' = rest
      /\ cmd' = cmd
      /\ exit' = IF rest # <<>> THEN "running"
                 ELSE IF \E t \in TestNames : results'[t] = "fail" THEN "error" ELSE "ok"
  BY DEF EndTest, StillToRun, AnyFailed
<1>2. /\ plan \in Seq(TestNames)
      /\ results \in [TestNames -> {"none", "pass", "fail"}]
      /\ cmd \in {"all", "list", "no_such_test"} \cup TestNames
      /\ cmd # "all" => \A t \in TestNames : results[t] # "none" => t = cmd
  BY DEF Control
<1>3. /\ Test \in TestNames
      /\ results[Test] = "none"
      /\ l \in Nat \ {0}
      /\ Test = plan[1]
      /\ exit = "running"
      /\ cmd \in {"all"} \cup TestNames
      /\ cmd # "all" => Test = cmd
  BY CurrentTest
<1>4. /\ rest \in Seq(TestNames)
      /\ Len(rest) = l - 1
      /\ \A i \in 1 .. l - 1 : rest[i] = plan[i + 1]
      /\ rest # <<>> <=> l # 1
  <2>1. /\ rest \in Seq(TestNames)
        /\ Len(rest) = l - 1
        /\ \A i \in 1 .. l - 1 : rest[i] = plan[i + 1]
    BY <1>2, HeadTailProperties
  <2>2. rest # <<>> <=> Len(rest) # 0
    BY <2>1, EmptySeq
  <2> QED
    BY <1>3, <2>1, <2>2
<1>5. /\ results' \in [TestNames -> {"none", "pass", "fail"}]
      /\ results'[Test] = verdict
      /\ \A t \in TestNames \ {Test} : results'[t] = results[t]
  BY <1>1, <1>2, <1>3
<1> HIDE DEF rest, l
<1>6. exit' \in {"running", "ok", "error"} /\ (exit' = "running" <=> rest # <<>>)
  BY <1>1
<1>7. exit' = "ok" => \A t \in TestNames : results'[t] # "fail"
  BY <1>1
<1>8. exit' = "error" => \E t \in TestNames : results'[t] = "fail"
  BY <1>1
<1>9. CASE cmd # "all"
  <2>1. plan = <<cmd>> /\ Len(plan) = 1
    BY <1>3, <1>9 DEF Control
  <2>2. rest = <<>> /\ exit' # "running"
    BY <1>4, <1>6, <2>1 DEF l
  <2>3. \A t \in TestNames : results'[t] # "none" => t = cmd
    BY <1>2, <1>3, <1>5, <1>9
  <2>4. exit' = "ok" => results'[cmd] = "pass"
    BY <1>3, <1>5, <1>7, <1>9
  <2>5. ExitTruthful'
    BY <1>1, <1>8, <1>9, <2>4 DEF ExitTruthful
  <2> QED
    BY <1>1, <1>2, <1>4, <1>5, <1>6, <1>9, <2>2, <2>3, <2>5 DEF Control
<1>10. CASE cmd = "all"
  <2>1. /\ l \in 1 .. 5
        /\ \A i \in 1 .. l : plan[i] = TESTS[i + 5 - l]
        /\ \A i \in 1 .. 5 : results[TESTS[i]] # "none" <=> i <= 5 - l
    BY <1>3, <1>10 DEF Control, l
  <2>2. Test = TESTS[6 - l] /\ 6 - l \in 1 .. 5
    <3>1. 1 \in 1 .. l /\ 1 + 5 - l = 6 - l /\ 6 - l \in 1 .. 5
      BY <2>1
    <3> QED
      BY <1>3, <2>1, <3>1
  <2>3. ASSUME NEW i \in 1 .. 5
        PROVE  results'[TESTS[i]] # "none" <=> i <= 5 - (l - 1)
    <3>1. TESTS[i] \in TestNames
      BY TestsFacts
    <3>2. CASE i = 6 - l
      BY <1>5, <2>1, <2>2, <3>2
    <3>3. CASE i # 6 - l
      <4>1. TESTS[i] # Test
        BY <2>2, <3>3, TestsFacts
      <4>2. results'[TESTS[i]] = results[TESTS[i]]
        BY <1>5, <3>1, <4>1
      <4>3. i <= 5 - l <=> i <= 5 - (l - 1)
        BY <2>1, <3>3
      <4> QED
        BY <2>1, <4>2, <4>3
    <3> QED
      BY <3>2, <3>3
  <2>4. ASSUME NEW i \in 1 .. l - 1 PROVE rest[i] = TESTS[i + 5 - (l - 1)]
    <3>1. i + 1 \in 1 .. l /\ i + 1 + 5 - l = i + 5 - (l - 1)
      BY <2>1
    <3> QED
      BY <1>4, <2>1, <3>1
  <2>5. CASE exit' = "running"
    <3>1. l - 1 \in 1 .. 5 /\ Len(rest) = l - 1
      BY <1>4, <1>6, <2>1, <2>5
    <3>2. ExitTruthful'
      BY <2>5 DEF ExitTruthful
    <3>3. /\ Len(plan') \in 1 .. 5
          /\ \A i \in 1 .. Len(plan') : plan'[i] = TESTS[i + 5 - Len(plan')]
          /\ \A i \in 1 .. 5 : results'[TESTS[i]] # "none" <=> i <= 5 - Len(plan')
      BY <1>1, <2>3, <2>4, <3>1
    <3> QED
      BY <1>1, <1>4, <1>5, <1>6, <1>10, <2>5, <3>2, <3>3 DEF Control
  <2>6. CASE exit' # "running"
    <3>1. l = 1 /\ rest = <<>>
      BY <1>4, <1>6, <2>6
    <3>2. \A i \in 1 .. 5 : results'[TESTS[i]] # "none"
      BY <2>3, <3>1
    <3>3. \A t \in TestNames : results'[t] # "none"
      BY <3>2, TestsFacts
    <3>4. exit' = "ok" => \A t \in TestNames : results'[t] = "pass"
      BY <1>5, <1>7, <3>3
    <3>5. ExitTruthful'
      BY <1>1, <1>8, <1>10, <3>3, <3>4, TestsFacts DEF ExitTruthful
    <3> QED
      BY <1>1, <1>4, <1>5, <1>6, <1>10, <2>6, <3>1, <3>5 DEF Control
  <2> QED
    BY <2>5, <2>6
<1> QED
  BY <1>9, <1>10

LEMMA ControlStep ==
    ASSUME Control, [HarnessNext]_allVars
    PROVE  Control'
<1>1. UNCHANGED <<cmd, exit, plan, results>> => Control'
  BY DEF Control, ExitTruthful
<1> QED
  BY <1>1, HarnessStepKinds, MainControl, MakeCtxControl, EndTestControl

LEMMA ControlInvariant == HarnessSpec => []Control
BY ControlInit, ControlStep, PTL DEF HarnessSpec

\* The exit code of the harness is the verdict: 0 exactly when every planned
\* test passed, and `all` runs every test even after one failed (run_all).
THEOREM ExitAlwaysTruthful == HarnessSpec => []ExitTruthful
<1>1. Control => ExitTruthful
  BY DEF Control
<1> QED
  BY <1>1, ControlInvariant, PTL

-----------------------------------------------------------------------------
(* The scripts. *)

\* What the proofs need to know of a script of n operations: their nonces are
\* 0 .. n - 1 in some order, the last step reads the nonce, and a test that
\* expects a failure makes one call and sends nothing after it looked.
WellScripted(script, n) ==
    /\ Len(script) \in Nat \ {0}
    /\ DOMAIN script = 1 .. Len(script)
    /\ n \in Nat \ {0}
    /\ script[Len(script)].do = "nonce" /\ script[Len(script)].nonce = n
    /\ \A k \in DOMAIN script :
          /\ script[k].do \in Commands \cup Checks
          /\ script[k].do = "fund" => script[k].value \in Nat
          /\ script[k].do \in {"execute", "rotate"} =>
                script[k].nonce \in 0 .. n - 1 /\ script[k].key \in {1, 2}
          /\ script[k].do = "rotate" => script[k].new \in {1, 2}
          /\ script[k].do = "outcome" <=> script[k] = ExpectFailure
          /\ script[k].do = "outcome" =>
                n = 1 /\ \A j \in DOMAIN script : j > k => script[j].do \in Checks
    /\ \A j, k \in DOMAIN script :
          /\ script[j].do \in {"execute", "rotate"}
          /\ script[k].do \in {"execute", "rotate"}
          /\ script[j].nonce = script[k].nonce
          => j = k

LEMMA HappyPathScript == WellScripted(HappyPath, 1)
<1>1. Len(HappyPath) = 4 /\ DOMAIN HappyPath = 1 .. 4
  BY DEF HappyPath
<1>2. 1 .. 4 = {1, 2, 3, 4}
  OBVIOUS
<1>3. /\ HappyPath[1] = Deploy
      /\ HappyPath[2] = Fund(Ether)
      /\ HappyPath[3] = SendExecute(ToDevWallet(Gwei), 0, 1)
      /\ HappyPath[4] = ExpectNonce(1)
  BY DEF HappyPath
<1>4. /\ HappyPath[1].do = "deploy"
      /\ HappyPath[2].do = "fund" /\ HappyPath[2].value \in Nat
      /\ HappyPath[3].do = "execute" /\ HappyPath[3].nonce = 0 /\ HappyPath[3].key = 1
      /\ HappyPath[4].do = "nonce" /\ HappyPath[4].nonce = 1
  BY <1>3 DEF Deploy, Fund, SendExecute, SendRotate, ExpectNonce, ExpectOwner,
              ExpectBalance, ExpectFailure, Ether
<1>5. \A s : s.do # "outcome" => s # ExpectFailure
  BY DEF ExpectFailure
<1>6. \A k \in 1 .. 4 : HappyPath[k].do = "outcome" <=> HappyPath[k] = ExpectFailure
  BY <1>2, <1>4, <1>5
<1> QED
  BY <1>1, <1>2, <1>4, <1>6 DEF WellScripted, Commands, Checks

LEMMA RevertingTargetScript == WellScripted(RevertingTarget, 1)
<1>1. Len(RevertingTarget) = 4 /\ DOMAIN RevertingTarget = 1 .. 4
  BY DEF RevertingTarget
<1>2. 1 .. 4 = {1, 2, 3, 4}
  OBVIOUS
<1>3. /\ RevertingTarget[1] = Deploy
      /\ RevertingTarget[2] = SendExecute(ToFallback, 0, 1)
      /\ RevertingTarget[3] = ExpectFailure
      /\ RevertingTarget[4] = ExpectNonce(1)
  BY DEF RevertingTarget
<1>4. /\ RevertingTarget[1].do = "deploy"
      /\ RevertingTarget[2].do = "execute" /\ RevertingTarget[2].nonce = 0 /\ RevertingTarget[2].key = 1
      /\ RevertingTarget[3].do = "outcome" /\ RevertingTarget[3] = ExpectFailure
      /\ RevertingTarget[4].do = "nonce" /\ RevertingTarget[4].nonce = 1
  BY <1>3 DEF Deploy, Fund, SendExecute, SendRotate, ExpectNonce, ExpectOwner,
              ExpectBalance, ExpectFailure, Ether
<1>5. \A s : s.do # "outcome" => s # ExpectFailure
  BY DEF ExpectFailure
<1>6. \A k \in 1 .. 4 : RevertingTarget[k].do = "outcome" <=> RevertingTarget[k] = ExpectFailure
  BY <1>2, <1>4, <1>5
<1> QED
  BY <1>1, <1>2, <1>4, <1>6 DEF WellScripted, Commands, Checks

LEMMA ValueExceedsBalanceScript == WellScripted(ValueExceedsBalance, 1)
<1>1. Len(ValueExceedsBalance) = 7 /\ DOMAIN ValueExceedsBalance = 1 .. 7
  BY DEF ValueExceedsBalance
<1>2. 1 .. 7 = {1, 2, 3, 4, 5, 6, 7}
  OBVIOUS
<1>3. /\ ValueExceedsBalance[1] = Deploy
      /\ ValueExceedsBalance[2] = Fund(1)
      /\ ValueExceedsBalance[3] = ExpectBalance(1)
      /\ ValueExceedsBalance[4] = SendExecute(ToDevWallet(2), 0, 1)
      /\ ValueExceedsBalance[5] = ExpectFailure
      /\ ValueExceedsBalance[6] = ExpectBalance(1)
      /\ ValueExceedsBalance[7] = ExpectNonce(1)
  BY DEF ValueExceedsBalance
<1>4. /\ ValueExceedsBalance[1].do = "deploy"
      /\ ValueExceedsBalance[2].do = "fund" /\ ValueExceedsBalance[2].value \in Nat
      /\ ValueExceedsBalance[3].do = "balance"
      /\ ValueExceedsBalance[4].do = "execute" /\ ValueExceedsBalance[4].nonce = 0 /\ ValueExceedsBalance[4].key = 1
      /\ ValueExceedsBalance[5].do = "outcome" /\ ValueExceedsBalance[5] = ExpectFailure
      /\ ValueExceedsBalance[6].do = "balance"
      /\ ValueExceedsBalance[7].do = "nonce" /\ ValueExceedsBalance[7].nonce = 1
  BY <1>3 DEF Deploy, Fund, SendExecute, SendRotate, ExpectNonce, ExpectOwner,
              ExpectBalance, ExpectFailure, Ether
<1>5. \A s : s.do # "outcome" => s # ExpectFailure
  BY DEF ExpectFailure
<1>6. \A k \in 1 .. 7 : ValueExceedsBalance[k].do = "outcome" <=> ValueExceedsBalance[k] = ExpectFailure
  BY <1>2, <1>4, <1>5
<1> QED
  BY <1>1, <1>2, <1>4, <1>6 DEF WellScripted, Commands, Checks

LEMMA RotateOwnerTestScript == WellScripted(RotateOwnerTest, 1)
<1>1. Len(RotateOwnerTest) = 4 /\ DOMAIN RotateOwnerTest = 1 .. 4
  BY DEF RotateOwnerTest
<1>2. 1 .. 4 = {1, 2, 3, 4}
  OBVIOUS
<1>3. /\ RotateOwnerTest[1] = Deploy
      /\ RotateOwnerTest[2] = SendRotate(2, 0, 1)
      /\ RotateOwnerTest[3] = ExpectOwner(2)
      /\ RotateOwnerTest[4] = ExpectNonce(1)
  BY DEF RotateOwnerTest
<1>4. /\ RotateOwnerTest[1].do = "deploy"
      /\ RotateOwnerTest[2].do = "rotate" /\ RotateOwnerTest[2].new = 2 /\ RotateOwnerTest[2].nonce = 0 /\ RotateOwnerTest[2].key = 1
      /\ RotateOwnerTest[3].do = "owner"
      /\ RotateOwnerTest[4].do = "nonce" /\ RotateOwnerTest[4].nonce = 1
  BY <1>3 DEF Deploy, Fund, SendExecute, SendRotate, ExpectNonce, ExpectOwner,
              ExpectBalance, ExpectFailure, Ether
<1>5. \A s : s.do # "outcome" => s # ExpectFailure
  BY DEF ExpectFailure
<1>6. \A k \in 1 .. 4 : RotateOwnerTest[k].do = "outcome" <=> RotateOwnerTest[k] = ExpectFailure
  BY <1>2, <1>4, <1>5
<1> QED
  BY <1>1, <1>2, <1>4, <1>6 DEF WellScripted, Commands, Checks

LEMMA NonceMonotonicityScript == WellScripted(NonceMonotonicity, 3)
<1>1. Len(NonceMonotonicity) = 8 /\ DOMAIN NonceMonotonicity = 1 .. 8
  BY DEF NonceMonotonicity
<1>2. 1 .. 8 = {1, 2, 3, 4, 5, 6, 7, 8}
  OBVIOUS
<1>3. /\ NonceMonotonicity[1] = Deploy
      /\ NonceMonotonicity[2] = Fund(Ether)
      /\ NonceMonotonicity[3] = SendExecute(ToDevWallet(1), 0, 1)
      /\ NonceMonotonicity[4] = ExpectNonce(1)
      /\ NonceMonotonicity[5] = SendRotate(2, 1, 1)
      /\ NonceMonotonicity[6] = ExpectNonce(2)
      /\ NonceMonotonicity[7] = SendExecute(ToDevWallet(1), 2, 2)
      /\ NonceMonotonicity[8] = ExpectNonce(3)
  BY DEF NonceMonotonicity
<1>4. /\ NonceMonotonicity[1].do = "deploy"
      /\ NonceMonotonicity[2].do = "fund" /\ NonceMonotonicity[2].value \in Nat
      /\ NonceMonotonicity[3].do = "execute" /\ NonceMonotonicity[3].nonce = 0 /\ NonceMonotonicity[3].key = 1
      /\ NonceMonotonicity[4].do = "nonce" /\ NonceMonotonicity[4].nonce = 1
      /\ NonceMonotonicity[5].do = "rotate" /\ NonceMonotonicity[5].new = 2 /\ NonceMonotonicity[5].nonce = 1 /\ NonceMonotonicity[5].key = 1
      /\ NonceMonotonicity[6].do = "nonce" /\ NonceMonotonicity[6].nonce = 2
      /\ NonceMonotonicity[7].do = "execute" /\ NonceMonotonicity[7].nonce = 2 /\ NonceMonotonicity[7].key = 2
      /\ NonceMonotonicity[8].do = "nonce" /\ NonceMonotonicity[8].nonce = 3
  BY <1>3 DEF Deploy, Fund, SendExecute, SendRotate, ExpectNonce, ExpectOwner,
              ExpectBalance, ExpectFailure, Ether
<1>5. \A s : s.do # "outcome" => s # ExpectFailure
  BY DEF ExpectFailure
<1>6. \A k \in 1 .. 8 : NonceMonotonicity[k].do = "outcome" <=> NonceMonotonicity[k] = ExpectFailure
  BY <1>2, <1>4, <1>5
<1> QED
  BY <1>1, <1>2, <1>4, <1>6 DEF WellScripted, Commands, Checks

\* The operations of a script, counted.
LEMMA Scripts ==
    ASSUME NEW t \in TestNames
    PROVE  WellScripted(Script(t), Cardinality(Asked(t)))
<1>1. TestNames = {"happy_path", "reverting_target_consumes_nonce",
                   "value_exceeds_balance", "rotate_owner", "nonce_monotonicity"}
  BY NamedTests
<1>2. Cardinality({2}) = 1 /\ Cardinality({3}) = 1 /\ Cardinality({4}) = 1
  BY FS_Singleton
<1>3. Cardinality({3, 5, 7}) = 3
  <2>1. /\ IsFiniteSet({3}) /\ Cardinality({3}) = 1
    BY FS_Singleton
  <2>2. /\ {3} \cup {5} = {3, 5} /\ {3, 5} \cup {7} = {3, 5, 7}
        /\ 5 \notin {3} /\ 7 \notin {3, 5}
    OBVIOUS
  <2>3. IsFiniteSet({3, 5}) /\ Cardinality({3, 5}) = 2
    BY <2>1, <2>2, FS_AddElement
  <2> QED
    BY <2>2, <2>3, FS_AddElement
<1>4. CASE t = "happy_path"
  <2>1. Script(t) = HappyPath
    BY <1>4 DEF Script
  <2>2. DOMAIN HappyPath = {1, 2, 3, 4}
    BY DEF HappyPath
  <2>3. /\ HappyPath[1].do = "deploy"
        /\ HappyPath[2].do = "fund"
        /\ HappyPath[3].do = "execute"
        /\ HappyPath[4].do = "nonce"
    BY DEF HappyPath, Deploy, Fund, SendExecute, SendRotate, ExpectNonce, ExpectOwner,
           ExpectBalance, ExpectFailure
  <2>4. Asked(t) = {3}
    BY <2>1, <2>2, <2>3 DEF Asked
  <2> QED
    BY <1>2, <2>1, <2>4, HappyPathScript
<1>5. CASE t = "reverting_target_consumes_nonce"
  <2>1. Script(t) = RevertingTarget
    BY <1>5 DEF Script
  <2>2. DOMAIN RevertingTarget = {1, 2, 3, 4}
    BY DEF RevertingTarget
  <2>3. /\ RevertingTarget[1].do = "deploy"
        /\ RevertingTarget[2].do = "execute"
        /\ RevertingTarget[3].do = "outcome"
        /\ RevertingTarget[4].do = "nonce"
    BY DEF RevertingTarget, Deploy, Fund, SendExecute, SendRotate, ExpectNonce, ExpectOwner,
           ExpectBalance, ExpectFailure
  <2>4. Asked(t) = {2}
    BY <2>1, <2>2, <2>3 DEF Asked
  <2> QED
    BY <1>2, <2>1, <2>4, RevertingTargetScript
<1>6. CASE t = "value_exceeds_balance"
  <2>1. Script(t) = ValueExceedsBalance
    BY <1>6 DEF Script
  <2>2. DOMAIN ValueExceedsBalance = {1, 2, 3, 4, 5, 6, 7}
    BY DEF ValueExceedsBalance
  <2>3. /\ ValueExceedsBalance[1].do = "deploy"
        /\ ValueExceedsBalance[2].do = "fund"
        /\ ValueExceedsBalance[3].do = "balance"
        /\ ValueExceedsBalance[4].do = "execute"
        /\ ValueExceedsBalance[5].do = "outcome"
        /\ ValueExceedsBalance[6].do = "balance"
        /\ ValueExceedsBalance[7].do = "nonce"
    BY DEF ValueExceedsBalance, Deploy, Fund, SendExecute, SendRotate, ExpectNonce, ExpectOwner,
           ExpectBalance, ExpectFailure
  <2>4. Asked(t) = {4}
    BY <2>1, <2>2, <2>3 DEF Asked
  <2> QED
    BY <1>2, <2>1, <2>4, ValueExceedsBalanceScript
<1>7. CASE t = "rotate_owner"
  <2>1. Script(t) = RotateOwnerTest
    BY <1>7 DEF Script
  <2>2. DOMAIN RotateOwnerTest = {1, 2, 3, 4}
    BY DEF RotateOwnerTest
  <2>3. /\ RotateOwnerTest[1].do = "deploy"
        /\ RotateOwnerTest[2].do = "rotate"
        /\ RotateOwnerTest[3].do = "owner"
        /\ RotateOwnerTest[4].do = "nonce"
    BY DEF RotateOwnerTest, Deploy, Fund, SendExecute, SendRotate, ExpectNonce, ExpectOwner,
           ExpectBalance, ExpectFailure
  <2>4. Asked(t) = {2}
    BY <2>1, <2>2, <2>3 DEF Asked
  <2> QED
    BY <1>2, <2>1, <2>4, RotateOwnerTestScript
<1>8. CASE t = "nonce_monotonicity"
  <2>1. Script(t) = NonceMonotonicity
    BY <1>8 DEF Script
  <2>2. DOMAIN NonceMonotonicity = {1, 2, 3, 4, 5, 6, 7, 8}
    BY DEF NonceMonotonicity
  <2>3. /\ NonceMonotonicity[1].do = "deploy"
        /\ NonceMonotonicity[2].do = "fund"
        /\ NonceMonotonicity[3].do = "execute"
        /\ NonceMonotonicity[4].do = "nonce"
        /\ NonceMonotonicity[5].do = "rotate"
        /\ NonceMonotonicity[6].do = "nonce"
        /\ NonceMonotonicity[7].do = "execute"
        /\ NonceMonotonicity[8].do = "nonce"
    BY DEF NonceMonotonicity, Deploy, Fund, SendExecute, SendRotate, ExpectNonce, ExpectOwner,
           ExpectBalance, ExpectFailure
  <2>4. Asked(t) = {3, 5, 7}
    BY <2>1, <2>2, <2>3 DEF Asked
  <2> QED
    BY <1>3, <2>1, <2>4, NonceMonotonicityScript
<1> QED
  BY <1>1, <1>4, <1>5, <1>6, <1>7, <1>8

-----------------------------------------------------------------------------
(* Types. *)

\* Where in a script a test can be: past its end, too.
Positions == 1 .. (IF plan = <<>> THEN 1 ELSE Len(Script(Test)) + 1)

\* The bookkeeping of the current test.
Bookkeeping ==
    /\ step \in Positions
    /\ acct \in {"none", "deployer"} \/ (plan # <<>> /\ acct = Test)
    /\ tx \in {"none", "sent", "entered", "mined", "reverted"}
    /\ tx # "none" => Doing(Commands)
    /\ funded \in [TestNames -> Nat]
    /\ faulty \subseteq TestNames

HarnessIInv == Control /\ Bookkeeping /\ IInv

\* The current step, as the script has it.
LEMMA CurrentStep ==
    ASSUME Control, Bookkeeping, NEW kinds, Doing(kinds)
    PROVE  /\ Test \in TestNames
           /\ plan # <<>>
           /\ Len(Script(Test)) \in Nat \ {0}
           /\ step \in 1 .. Len(Script(Test))
           /\ step \in DOMAIN Script(Test)
           /\ Step = Script(Test)[step]
           /\ Step.do \in kinds
           /\ Step.do \in Commands \cup Checks
<1>1. plan # <<>> /\ step <= Len(Script(Test)) /\ Step.do \in kinds
  BY DEF Doing
<1>2. Test \in TestNames
  BY <1>1, CurrentTest
<1>3. WellScripted(Script(Test), Cardinality(Asked(Test)))
  BY <1>2, Scripts
<1>4. /\ Len(Script(Test)) \in Nat \ {0}
      /\ DOMAIN Script(Test) = 1 .. Len(Script(Test))
      /\ \A k \in DOMAIN Script(Test) : Script(Test)[k].do \in Commands \cup Checks
  BY <1>3 DEF WellScripted
<1>5. step \in 1 .. Len(Script(Test))
  BY <1>1, <1>4 DEF Bookkeeping, Positions
<1> QED
  BY <1>1, <1>2, <1>4, <1>5 DEF Step

\* The accounts and the keys of a test.
LEMMA TestPlace ==
    ASSUME NEW t \in TestNames, NEW i \in {1, 2}
    PROVE  /\ AccountOf(t) \in Accounts
           /\ KeyPair(t, i) \in Keys
<1>1. Devnode \in Chains /\ t \in Addrs
  BY HarnessAssumption
<1>2. <<t, i>> \in Keys
  BY HarnessAssumption
<1> QED
  BY <1>1, <1>2 DEF AccountOf, Accounts, KeyPair

\* What a command signs and sends is well formed.
LEMMA CommandTypes ==
    ASSUME Control, Bookkeeping, tx = "sent"
    PROVE  /\ Here \in Accounts
           /\ Test \in TestNames
           /\ KeyPair(Test, 1) \in Keys
           /\ HasCode => Acct = Here
           /\ Step.do \in Commands
           /\ Step.do = "fund" => Step.value \in Nat
           /\ Step.do \in {"execute", "rotate"} =>
                 Step.nonce \in Nat /\ Signature(Step).key \in Keys
           /\ Step.do = "execute" => Step.call \in Calls
           /\ Step.do = "rotate" => KeyPair(Test, Step.new) \in Keys
<1>1. Doing(Commands)
  BY DEF Bookkeeping
<1>2. /\ Test \in TestNames
      /\ plan # <<>>
      /\ step \in DOMAIN Script(Test)
      /\ Step = Script(Test)[step]
      /\ Step.do \in Commands
  BY <1>1, CurrentStep
<1>3. WellScripted(Script(Test), Cardinality(Asked(Test)))
  BY <1>2, Scripts
<1>4. /\ Step.do = "fund" => Step.value \in Nat
      /\ Step.do \in {"execute", "rotate"} => Step.nonce \in Nat /\ Step.key \in {1, 2}
      /\ Step.do = "rotate" => Step.new \in {1, 2}
  BY <1>2, <1>3 DEF WellScripted
<1>5. Step.do = "execute" => Step.call \in Calls
  BY <1>2, ScriptAssumption
<1>6. /\ Here \in Accounts /\ KeyPair(Test, 1) \in Keys
      /\ Step.do \in {"execute", "rotate"} => KeyPair(Test, Step.key) \in Keys
      /\ Step.do = "rotate" => KeyPair(Test, Step.new) \in Keys
  BY <1>2, <1>4, TestPlace DEF Here, AccountOf
<1>7. HasCode => Acct = Here
  <2>1. acct \in {"none", "deployer"} => acct \notin TestNames
    BY NamedTests
  <2>2. HasCode => acct = Test
    BY <2>1 DEF Bookkeeping, HasCode
  <2> QED
    BY <2>2 DEF Acct, Here
<1> QED
  BY <1>2, <1>4, <1>5, <1>6, <1>7 DEF Signature

\* The account's state stays in order.
LEMMA HarnessNextIInv ==
    ASSUME HarnessIInv, [HarnessNext]_allVars
    PROVE  IInv'
<1> USE DEF HarnessIInv
<1>1. UNCHANGED vars => IInv'
  BY NextIInv
<1>2. BeginTx(Devnode) \/ EndTx \/ AbortTx \/ CallExternal \/ CallSelf
          \/ CalleeReturns \/ CalleeReverts => IInv'
  <2>1. Devnode \in Chains
    BY HarnessAssumption
  <2> QED
    BY <2>1, NextIInv DEF Next
<1>3. CASE Send
  BY <1>2, <1>3 DEF Send
<1>4. CASE Enter
  <2>1. tx = "sent"
    BY <1>4 DEF Enter
  <2>2. /\ Here \in Accounts
        /\ KeyPair(Test, 1) \in Keys
        /\ HasCode => Acct = Here
        /\ Step.do \in {"execute", "rotate"} =>
              Step.nonce \in Nat /\ Signature(Step).key \in Keys
        /\ Step.do = "execute" => Step.call \in Calls
        /\ Step.do = "rotate" => KeyPair(Test, Step.new) \in Keys
    BY <2>1, CommandTypes
  <2>3. CASE Constructor(Here, KeyPair(Test, 1))
    BY <2>2, <2>3, NextIInv DEF Next
  <2>4. CASE Step.do = "execute" /\ HasCode
             /\ Execute(Acct, Step.call, Step.nonce, Signature(Step))
    BY <2>2, <2>4, ExecuteIInv
  <2>5. CASE Step.do = "rotate" /\ HasCode
             /\ RotateOwner(Acct, KeyPair(Test, Step.new), Step.nonce, Signature(Step))
    BY <2>2, <2>5, RotateIInv
  <2>6. CASE UNCHANGED <<chain, stack, signed>>
    BY <1>1, <2>6 DEF vars
  <2> QED
    BY <1>4, <2>3, <2>4, <2>5, <2>6 DEF Enter
<1>5. CASE Revert
  BY <1>2, <1>5 DEF Revert
<1>6. CASE InnerCall
  <2>1. CASE /\ InExt /\ Len(stack) > 1
             /\ Resume(Front(stack), Top.saved, "ok")
             /\ UNCHANGED signed
    BY <2>1, CalleeEnds, ResumeOK DEF Top, IInv
  <2> QED
    BY <1>2, <1>6, <2>1 DEF InnerCall
<1>7. CASE Mine
  BY <1>2, <1>7 DEF Mine
<1>8. CASE Main \/ MakeCtxFails \/ CommandReturns \/ DeployReturns \/ CommandFails
           \/ CheckHolds \/ CheckFails \/ TestPasses \/ Ended \/ UNCHANGED allVars
  <2>1. UNCHANGED vars
    BY <1>8 DEF Main, MakeCtxFails, CommandReturns, DeployReturns, CommandFails,
                CheckHolds, CheckFails, TestPasses, Ended, allVars, vars
  <2> QED
    BY <1>1, <2>1
<1> QED
  BY <1>3, <1>4, <1>5, <1>6, <1>7, <1>8 DEF HarnessNext

LEMMA BookkeepingInit == HarnessInit => Bookkeeping
<1> SUFFICES ASSUME HarnessInit PROVE Bookkeeping
  OBVIOUS
<1>1. /\ plan = <<>> /\ step = 1 /\ acct = "none" /\ tx = "none"
      /\ funded = [t \in TestNames |-> 0] /\ faulty = {}
  BY DEF HarnessInit
<1>2. funded \in [TestNames -> Nat]
  BY <1>1
<1>3. step \in Positions
  BY <1>1 DEF Positions
<1> QED
  BY <1>1, <1>2, <1>3 DEF Bookkeeping

\* The test that comes next has a script.
LEMMA ComingTest ==
    ASSUME Control', plan' # <<>>
    PROVE  /\ Len(Script(Test')) \in Nat \ {0}
           /\ DOMAIN Script(Test') = 1 .. Len(Script(Test'))
<1>1. Test' \in TestNames
  BY EmptySeq, LenProperties, HeadTailProperties DEF Control, Test
<1>2. WellScripted(Script(Test'), Cardinality(Asked(Test')))
  BY <1>1, Scripts
<1> QED
  BY <1>2 DEF WellScripted

\* The next test, if there is one, starts from its first step.
LEMMA FreshBookkeeping ==
    ASSUME Control', step' = 1, acct' = "none", tx' = "none",
           funded' \in [TestNames -> Nat], faulty' \subseteq TestNames
    PROVE  Bookkeeping'
<1>1. plan' # <<>> => Len(Script(Test')) \in Nat
  BY ComingTest
<1>2. step' \in Positions'
  BY <1>1 DEF Positions
<1> QED
  BY <1>2 DEF Bookkeeping

\* A step of the current transaction.
LEMMA SameBookkeeping ==
    ASSUME Bookkeeping, Doing(Commands), UNCHANGED <<exit, plan, step, acct>>,
           tx' \in {"none", "sent", "entered", "mined", "reverted"},
           funded' \in [TestNames -> Nat], faulty' \subseteq TestNames
    PROVE  Bookkeeping'
<1>1. Doing(Commands)'
  BY DEF Doing, Step, Test
<1>2. /\ step' \in Positions'
      /\ acct' \in {"none", "deployer"} \/ (plan' # <<>> /\ acct' = Test')
  BY DEF Bookkeeping, Positions, Test
<1> QED
  BY <1>1, <1>2 DEF Bookkeeping

\* On to the next step of the script.
LEMMA NextBookkeeping ==
    ASSUME Control, Bookkeeping, NEW kinds, Doing(kinds), NextStep,
           acct' \in {Test, "deployer"} \/ acct' = acct, faulty' \subseteq TestNames
    PROVE  Bookkeeping'
<1>1. /\ step' = step + 1 /\ tx' = "none"
      /\ UNCHANGED <<plan, funded>>
  BY DEF NextStep
<1>2. /\ plan # <<>>
      /\ Len(Script(Test)) \in Nat \ {0}
      /\ step \in 1 .. Len(Script(Test))
  BY CurrentStep
<1>3. step + 1 \in 1 .. Len(Script(Test)) + 1
  BY <1>2
<1>4. Test' = Test
  BY <1>1 DEF Test
<1>5. step' \in Positions'
  BY <1>1, <1>2, <1>3, <1>4 DEF Positions
<1>6. acct' \in {"none", "deployer"} \/ (plan' # <<>> /\ acct' = Test')
  BY <1>1, <1>2, <1>4 DEF Bookkeeping
<1>7. tx' \in {"none"} /\ funded' \in [TestNames -> Nat]
  BY <1>1 DEF Bookkeeping
<1> QED
  BY <1>5, <1>6, <1>7 DEF Bookkeeping

LEMMA BookkeepingStep ==
    ASSUME Control, Bookkeeping, [HarnessNext]_allVars
    PROVE  Bookkeeping'
<1>0. /\ Control'
      /\ funded \in [TestNames -> Nat]
      /\ faulty \subseteq TestNames
      /\ tx # "none" => Doing(Commands)
  BY ControlStep DEF Bookkeeping
<1>1. \A verdict : EndTest(verdict) => step' = 1 /\ acct' = "none" /\ tx' = "none" /\ funded' = funded
  BY DEF EndTest, FreshStart
<1>2. plan # <<>> /\ Strike => faulty' \subseteq TestNames
  <2>1. plan # <<>> => Test \in TestNames
    BY CurrentTest
  <2>2. Strike => faulty' = faulty \cup {Test}
    BY DEF Strike
  <2> QED
    BY <1>0, <2>1, <2>2
<1>3. CASE Main \/ MakeCtxFails
  <2>1. exit = "starting" /\ UNCHANGED <<step, acct, tx, funded, faulty>>
    BY <1>3 DEF Main, MakeCtxFails
  <2>2. plan = <<>>
    BY <2>1 DEF Control
  <2>3. step = 1 /\ tx = "none" /\ acct \in {"none", "deployer"}
    BY <2>2 DEF Bookkeeping, Positions, Doing
  <2>4. /\ step' = 1 /\ tx' = "none" /\ acct' \in {"none", "deployer"}
        /\ funded' \in [TestNames -> Nat] /\ faulty' \subseteq TestNames
    BY <1>0, <2>1, <2>3
  <2>5. plan' # <<>> => Len(Script(Test')) \in Nat
    BY <1>0, ComingTest
  <2>6. step' \in Positions'
    BY <2>4, <2>5 DEF Positions
  <2> QED
    BY <2>4, <2>6 DEF Bookkeeping
<1>4. CASE Send
  BY <1>0, <1>4, SameBookkeeping DEF Send
<1>5. CASE Enter
  <2>1. tx = "sent" /\ tx' = "entered" /\ UNCHANGED <<exit, plan, step, acct, faulty>>
    BY <1>5 DEF Enter
  <2>2. Step.do = "fund" => Step.value \in Nat
    BY <2>1, CommandTypes
  <2>3. funded' \in [TestNames -> Nat]
    <3>1. CASE UNCHANGED funded
      BY <1>0, <3>1
    <3>2. CASE /\ Step.do = "fund" /\ acct \in TestNames
               /\ funded' = [funded EXCEPT ![acct] = @ + Step.value]
      <4>1. funded[acct] + Step.value \in Nat
        BY <1>0, <2>2, <3>2
      <4> QED
        BY <1>0, <3>2, <4>1
    <3> QED
      BY <1>5, <3>1, <3>2 DEF Enter
  <2> QED
    BY <1>0, <2>1, <2>3, SameBookkeeping
<1>6. CASE Revert
  <2>1. tx = "sent" /\ tx' = "reverted" /\ UNCHANGED <<exit, plan, step, acct, funded>>
    BY <1>6 DEF Revert
  <2>2. Doing(Commands)
    BY <1>0, <2>1
  <2>3. faulty' \subseteq TestNames
    BY <1>0, <1>2, <1>6, <2>2 DEF Revert, Doing
  <2> QED
    BY <1>0, <2>1, <2>2, <2>3, SameBookkeeping
<1>7. CASE InnerCall
  <2>1. tx = "entered" /\ UNCHANGED <<exit, plan, step, acct, tx, funded>>
    BY <1>7 DEF InnerCall
  <2>2. Doing(Commands)
    BY <1>0, <2>1
  <2>3. faulty' \subseteq TestNames
    BY <1>0, <1>2, <1>7, <2>2 DEF InnerCall, Doing
  <2> QED
    BY <1>0, <2>1, <2>2, <2>3, SameBookkeeping
<1>8. CASE Mine
  BY <1>0, <1>8, SameBookkeeping DEF Mine
<1>9. CASE CommandReturns
  BY <1>0, <1>9, NextBookkeeping DEF CommandReturns
<1>10. CASE DeployReturns
  <2>1. Doing({"deploy"}) /\ plan # <<>> /\ faulty' \subseteq TestNames
    BY <1>0, <1>2, <1>10 DEF DeployReturns, Doing
  <2>2. CASE EndTest("fail")
    BY <1>0, <1>1, <2>1, <2>2, FreshBookkeeping
  <2>3. CASE NextStep /\ acct' \in {Test, "deployer"}
    BY <2>1, <2>3, NextBookkeeping
  <2> QED
    BY <1>10, <2>2, <2>3 DEF DeployReturns
<1>11. CASE CommandFails \/ CheckFails \/ TestPasses
  <2>1. \E verdict : EndTest(verdict)
    BY <1>11 DEF CommandFails, CheckFails, TestPasses
  <2>2. faulty' \subseteq TestNames
    BY <1>0, <1>2, <1>11 DEF CommandFails, CheckFails, TestPasses, Doing
  <2> QED
    BY <1>0, <1>1, <2>1, <2>2, FreshBookkeeping
<1>12. CASE CheckHolds
  BY <1>0, <1>12, NextBookkeeping DEF CheckHolds
<1>13. CASE Ended \/ UNCHANGED allVars
  <2>1. UNCHANGED <<exit, plan, step, acct, tx, funded, faulty>>
    BY <1>13 DEF Ended, allVars, harnessVars
  <2> QED
    BY <2>1 DEF Bookkeeping, Positions, Doing, Step, Test
<1> QED
  BY <1>3, <1>4, <1>5, <1>6, <1>7, <1>8, <1>9, <1>10, <1>11, <1>12, <1>13 DEF HarnessNext

LEMMA HarnessInvariant == HarnessSpec => []HarnessIInv
<1>1. HarnessInit => HarnessIInv
  BY ControlInit, BookkeepingInit, InitIInv DEF HarnessInit, HarnessIInv
<1>2. HarnessIInv /\ [HarnessNext]_allVars => HarnessIInv'
  BY ControlStep, BookkeepingStep, HarnessNextIInv DEF HarnessIInv
<1> QED
  BY <1>1, <1>2, PTL DEF HarnessSpec

\* What is left to run is the rest of the list, or the one test asked for.
LEMMA PlanShape ==
    ASSUME Control
    PROVE  plan = SubSeq(TESTS, Len(TESTS) - Len(plan) + 1, Len(TESTS)) \/ plan = <<cmd>>
<1> DEFINE l == Len(plan)
<1>1. /\ l \in Nat
      /\ plan \in Seq(TestNames)
      /\ plan = <<>> <=> l = 0
      /\ Len(TESTS) = 5
      /\ TESTS \in Seq(TestNames)
  BY LenProperties, EmptySeq, TestsFacts, AllTests DEF Control
<1>2. CASE exit = "running" /\ cmd # "all"
  BY <1>2 DEF Control
<1>3. CASE ~(exit = "running" /\ cmd # "all")
  <2>1. l \in 0 .. 5 /\ \A i \in 1 .. l : plan[i] = TESTS[i + 5 - l]
    <3>1. CASE exit = "running"
      BY <1>3, <3>1 DEF Control
    <3>2. CASE exit # "running"
      <4>1. l = 0
        BY <1>1, <3>2 DEF Control
      <4> QED
        BY <4>1
    <3> QED
      BY <3>1, <3>2
  <2> HIDE DEF l
  <2> DEFINE m == 5 - l + 1
             rest == SubSeq(TESTS, m, 5)
  <2>2. m \in 1 .. 6 /\ 5 - m + 1 = l
    BY <2>1
  <2>3. \A i \in m .. 5 : TESTS[i] \in TestNames
    <3>1. \A i \in m .. 5 : i \in 1 .. 5
      BY <2>2
    <3> QED
      BY <3>1, TestsFacts
  <2>4. /\ rest \in Seq(TestNames)
        /\ Len(rest) = IF m <= 5 THEN 5 - m + 1 ELSE 0
        /\ \A i \in 1 .. 5 - m + 1 : rest[i] = TESTS[m + i - 1]
    BY <2>2, <2>3, SubSeqProperties
  <2>5. Len(rest) = l
    BY <2>1, <2>2, <2>4
  <2>6. \A i \in 1 .. l : m + i - 1 = i + 5 - l
    BY <2>1
  <2>7. \A i \in 1 .. l : rest[i] = plan[i]
    BY <2>1, <2>2, <2>4, <2>6
  <2> HIDE DEF rest, m
  <2>8. rest = plan
    BY <1>1, <2>4, <2>5, <2>7, SeqEqual DEF l
  <2> QED
    BY <1>1, <2>8 DEF rest, m, l
<1> QED
  BY <1>2, <1>3

\* The harness's bookkeeping is well formed whatever goes wrong: it never takes
\* an address for another test's account, never runs past a script and always has
\* a rest of its list of tests left to run (main, deploy_fresh).
THEOREM HarnessTypesCorrect == HarnessSpec => []HarnessTypeOK
<1>1. HarnessIInv => HarnessTypeOK
  <2> SUFFICES ASSUME HarnessIInv PROVE HarnessTypeOK
    OBVIOUS
  <2>1. TypeOK
    BY DEF HarnessIInv, IInv, RunOK, StackOK, TypeOK
  <2>2. plan = SubSeq(TESTS, Len(TESTS) - Len(plan) + 1, Len(TESTS)) \/ plan = <<cmd>>
    BY PlanShape DEF HarnessIInv
  <2> QED
    BY <2>1, <2>2 DEF HarnessIInv, HarnessTypeOK, Control, Bookkeeping, Positions
<1> QED
  BY <1>1, HarnessInvariant, PTL

-----------------------------------------------------------------------------
(***************************************************************************)
(* What a passing test has done.  Between two commands the account of a    *)
(* test has settled operations of the script, one event each, under        *)
(* consecutive nonces: then the check of the nonce that ends every script  *)
(* tells that it has settled all of them.                                  *)
(***************************************************************************)

\* The event tells of this step of the script.
Tells(t, event, s) ==
    IF s.do = "execute"
    THEN event.type = "Executed" /\ event.call = s.call /\ event.nonce = s.nonce
    ELSE /\ event.type = "OwnerRotated"
         /\ event.prev = KeyPair(t, s.key)
         /\ event.new = KeyPair(t, s.new)
         /\ event.nonce = s.nonce

FirstEvent(t) == [type |-> "OwnerInitialized", key |-> KeyPair(t, 1)]

\* State s of the account of test t, between two operations.
OnScript(t, s) ==
    /\ s.owner = NoOwner => s.log = <<>> /\ s.nonce = 0 /\ s.delivered = <<>>
    /\ s.owner # NoOwner =>
          /\ Len(s.log) = s.nonce + 1
          /\ s.log[1] = FirstEvent(t)
          /\ \A i \in 2 .. Len(s.log) : \E k \in Asked(t) :
                Script(t)[k].nonce = i - 2 /\ Tells(t, s.log[i], Script(t)[k])
    /\ s.delivered # <<>> => Succeeded(s) # {}

ChainOnScript(w) ==
    w \in ChainState /\ \A t \in TestNames : OnScript(t, w[AccountOf(t)])

\* The account of the current test runs its inner call, having found `base`.
Waiting(base) == AccountFrame("execute", Here, <<Step.call>>, Step.nonce, base)
Started(base) == [base EXCEPT ![Here] = Begin(@, Step.nonce)]
Calling(base) ==
    Step.do = "execute" /\ base[Here].owner # NoOwner /\ base[Here].nonce = Step.nonce

\* A transaction that entered its target: it is back from the account (or never
\* got there), in the account, or in the contract the account called.
Back(base) ==
    /\ stack = <<ExtFrame(Devnode, base)>>
    /\ ChainOnScript(chain)
    /\ \A t \in TestNames \ {Test} : chain[AccountOf(t)] = base[AccountOf(t)]
    /\ Len(base[Here].log) <= Len(chain[Here].log)
InAccountCall(base) ==
    /\ Calling(base)
    /\ stack = <<ExtFrame(Devnode, base), Waiting(base)>>
    /\ chain = Started(base)
InCallee(base) ==
    /\ Calling(base)
    /\ Step.call.to = "ext"
    /\ stack = <<ExtFrame(Devnode, base), Waiting(base), ExtFrame(Devnode, Started(base))>>
    /\ chain = Deliver(Started(base), Here, Step.call, Step.nonce)

\* The call may come back as a success: the account accepted it, or the dev
\* wallet was paid, or it is a fault.
Honoured(base) ==
    \/ Step.call.to = "self" /\ Step.call.data # "unknown"
    \/ Step.call.to = "ext" /\ (Balance(Started(base), Here) >= Step.call.value \/ Strike)

\* The account logged how a call it made from state s went, and is in state r.
Settled(s, r, success) ==
    /\ r.owner = s.owner
    /\ r.nonce = s.nonce + 1
    /\ Len(r.log) = Len(s.log) + 1
    /\ r.log[Len(r.log)].type = "Executed"
    /\ r.log[Len(r.log)].success <=> success
    /\ ~success => r.delivered = s.delivered

\* The chain and the stack in each phase of a command.
Phases ==
    /\ ChainOnScript(Committed)
    /\ tx \in {"none", "mined", "reverted"} => stack = <<>>
    /\ tx = "sent" => stack = <<ExtFrame(Devnode, chain)>>
    /\ tx = "entered" => Back(Committed) \/ InAccountCall(Committed) \/ InCallee(Committed)

\* What PassMeansDone says of test t, of state s of its account.
Done(t, s) ==
    /\ Len(s.log) = 1 + Cardinality(Asked(t))
    /\ s.log[1] = FirstEvent(t)
    /\ \A k \in Asked(t) : Answers(t, s.log[Script(t)[k].nonce + 2], Script(t)[k])
    /\ ExpectFailure \in ToSet(Script(t)) => s.delivered = <<>>

Failed(s) == Len(s.log) >= 2 /\ 2 \notin Succeeded(s)

\* What the checks so far have told: of the tests that passed, and of the
\* current one.
Learned ==
    /\ \A t \in TestNames : results[t] = "pass" => Done(t, Committed[AccountOf(t)])
    /\ Len(receipt) \in Nat /\ (plan = <<>> => receipt = <<>>)
    /\ plan # <<>> =>
          /\ step > Len(Script(Test)) =>
                /\ Committed[Here].owner # NoOwner
                /\ Committed[Here].nonce = Cardinality(Asked(Test))
          /\ \A k \in DOMAIN Script(Test) :
                k < step /\ Script(Test)[k].do = "outcome" => Failed(Committed[Here])
          /\ (\E k \in DOMAIN Script(Test) : Script(Test)[k].do = "outcome") =>
                \A i \in 1 .. Len(receipt) :
                    receipt[i].topic = "Executed" /\ ~SuccessOf(receipt[i].data)
                        => Failed(Committed[Here])

PassIInv == HarnessIInv /\ Phases /\ Learned

-----------------------------------------------------------------------------
(* One account. *)

\* The constructor ran.
LEMMA DeployOnScript ==
    ASSUME NEW t \in TestNames, NEW s \in AccountState, OnScript(t, s), s.owner = NoOwner,
           NEW r \in AccountState, r.owner # NoOwner, r.nonce = s.nonce,
           r.log = Append(s.log, FirstEvent(t)), r.delivered = s.delivered
    PROVE  OnScript(t, r) /\ Len(s.log) <= Len(r.log)
<1>1. s.log = <<>> /\ s.nonce = 0 /\ s.delivered = <<>>
  BY DEF OnScript
<1>2. r.log = <<FirstEvent(t)>>
  BY <1>1
<1>3. Len(r.log) = 1 /\ r.log[1] = FirstEvent(t) /\ Len(s.log) = 0
  BY <1>1, <1>2
<1> QED
  BY <1>1, <1>3 DEF OnScript

\* The account settled the step of the script whose turn it was.
LEMMA SettleOnScript ==
    ASSUME NEW t \in TestNames, NEW s \in AccountState, OnScript(t, s), s.owner # NoOwner,
           NEW k \in Asked(t), Script(t)[k].nonce = s.nonce,
           NEW e \in Events, Tells(t, e, Script(t)[k]),
           NEW r \in AccountState, r.owner # NoOwner, r.nonce = s.nonce + 1,
           r.log = Append(s.log, e),
           r.delivered = s.delivered \/ (e.type = "Executed" /\ e.success)
    PROVE  OnScript(t, r) /\ Len(s.log) <= Len(r.log)
<1> DEFINE m == Len(s.log)
<1>1. /\ s.nonce \in Nat
      /\ s.log \in Seq(Events)
      /\ r.log \in Seq(Events)
  BY DEF AccountState
<1>2. /\ m \in Nat
      /\ Len(r.log) = m + 1
      /\ r.log[m + 1] = e
      /\ \A i \in 1 .. m : r.log[i] = s.log[i]
      /\ DOMAIN r.log = 1 .. m + 1
      /\ DOMAIN s.log = 1 .. m
  BY <1>1, AppendProperties, LenProperties
<1>3. /\ m = s.nonce + 1
      /\ s.log[1] = FirstEvent(t)
      /\ \A i \in 2 .. m : \E j \in Asked(t) :
            Script(t)[j].nonce = i - 2 /\ Tells(t, s.log[i], Script(t)[j])
  BY DEF OnScript
<1> HIDE DEF m
<1>4. r.log[1] = FirstEvent(t)
  BY <1>1, <1>2, <1>3
<1>5. ASSUME NEW i \in 2 .. m + 1
      PROVE  \E j \in Asked(t) : Script(t)[j].nonce = i - 2 /\ Tells(t, r.log[i], Script(t)[j])
  <2>1. CASE i = m + 1
    <3>1. Script(t)[k].nonce = i - 2 /\ r.log[i] = e
      BY <1>1, <1>2, <1>3, <2>1
    <3> QED
      BY <3>1
  <2>2. CASE i # m + 1
    <3>1. i \in 2 .. m /\ i \in 1 .. m
      BY <1>2, <2>2
    <3> QED
      BY <1>2, <1>3, <3>1
  <2> QED
    BY <2>1, <2>2
<1>6. ASSUME r.delivered # <<>>
      PROVE  Succeeded(r) # {}
  <2>1. CASE r.delivered = s.delivered
    <3>1. PICK i \in Succeeded(s) : TRUE
      BY <1>6, <2>1 DEF OnScript
    <3>2. i \in 1 .. m /\ s.log[i].type = "Executed" /\ s.log[i].success
      BY <1>2, <3>1 DEF Succeeded
    <3>3. i \in DOMAIN r.log /\ r.log[i] = s.log[i]
      BY <1>2, <3>2
    <3> QED
      BY <3>2, <3>3 DEF Succeeded
  <2>2. CASE e.type = "Executed" /\ e.success
    <3>1. m + 1 \in DOMAIN r.log
      BY <1>2
    <3> QED
      BY <1>2, <2>2, <3>1 DEF Succeeded
  <2> QED
    BY <2>1, <2>2
<1>7. Len(r.log) = r.nonce + 1 /\ m <= Len(r.log)
  BY <1>1, <1>2, <1>3
<1> QED
  BY <1>2, <1>4, <1>5, <1>6, <1>7 DEF OnScript, m

\* Whatever happens to one account leaves the others on their scripts.
LEMMA OnlyHere ==
    ASSUME NEW w, ChainOnScript(w), NEW t \in TestNames, NEW r,
           [w EXCEPT ![AccountOf(t)] = r] \in ChainState, OnScript(t, r)
    PROVE  LET v == [w EXCEPT ![AccountOf(t)] = r] IN
           /\ ChainOnScript(v)
           /\ v[AccountOf(t)] = r
           /\ \A u \in TestNames \ {t} : v[AccountOf(u)] = w[AccountOf(u)]
<1> DEFINE v == [w EXCEPT ![AccountOf(t)] = r]
<1>1. \A u \in TestNames : AccountOf(u) \in Accounts /\ (AccountOf(u) = AccountOf(t) => u = t)
  BY TestPlace DEF AccountOf
<1>2. w \in [Accounts -> AccountState]
  BY DEF ChainOnScript, ChainState
<1>3. v[AccountOf(t)] = r /\ \A u \in TestNames \ {t} : v[AccountOf(u)] = w[AccountOf(u)]
  BY <1>1, <1>2
<1>4. v \in ChainState
  OBVIOUS
<1> HIDE DEF v
<1>5. \A u \in TestNames : OnScript(u, v[AccountOf(u)])
  BY <1>3 DEF ChainOnScript
<1>6. ChainOnScript(v)
  BY <1>4, <1>5 DEF ChainOnScript
<1> QED
  BY <1>3, <1>6 DEF v

\* The account the harness holds is the current test's.
LEMMA HeldAccount ==
    ASSUME Control, Bookkeeping, plan # <<>>
    PROVE  /\ Here = AccountOf(Test)
           /\ Here \in Accounts
           /\ HasCode => Acct = Here /\ acct = Test
<1>1. Test \in TestNames
  BY CurrentTest
<1>2. acct \in {"none", "deployer"} => acct \notin TestNames
  BY NamedTests
<1>3. HasCode => acct = Test
  BY <1>2 DEF Bookkeeping, HasCode
<1> QED
  BY <1>1, <1>3, TestPlace DEF Here, AccountOf, Acct

\* The frames of a call, one on the other.
LEMMA StackedOne ==
    ASSUME NEW x
    PROVE  <<x>> # <<>> /\ Len(<<x>>) = 1 /\ Last(<<x>>) = x /\ <<x>>[1] = x
BY DEF Last

LEMMA FrontOfAppend ==
    ASSUME NEW S, NEW s \in Seq(S), NEW e \in S
    PROVE  Front(Append(s, e)) = s
<1> DEFINE a == Append(s, e)
           m == Len(s)
<1>1. /\ m \in Nat
      /\ a \in Seq(S) /\ Len(a) = m + 1
      /\ \A i \in 1 .. m : a[i] = s[i]
      /\ \A i \in 1 .. m : s[i] \in S
  BY AppendProperties, ElementOfSeq
<1> HIDE DEF a, m
<1>2. \A i \in 1 .. m : a[i] \in S
  BY <1>1
<1>3. /\ SubSeq(a, 1, m) \in Seq(S)
      /\ Len(SubSeq(a, 1, m)) = IF 1 <= m THEN m - 1 + 1 ELSE 0
      /\ \A i \in 1 .. m - 1 + 1 : SubSeq(a, 1, m)[i] = a[1 + i - 1]
  BY <1>1, <1>2, SubSeqProperties
<1>4. Len(SubSeq(a, 1, m)) = m
  BY <1>1, <1>3
<1>5. \A i \in 1 .. m : SubSeq(a, 1, m)[i] = s[i]
  <2>1. \A i \in 1 .. m : 1 + i - 1 = i /\ i \in 1 .. m - 1 + 1
    BY <1>1
  <2> QED
    BY <1>1, <1>3, <2>1
<1>6. SubSeq(a, 1, m) = s
  BY <1>3, <1>4, <1>5, SeqEqual DEF m
<1>7. Len(a) - 1 = m
  BY <1>1
<1> QED
  BY <1>6, <1>7 DEF Front, a

LEMMA StackedTwo ==
    ASSUME NEW x, NEW y
    PROVE  /\ <<x, y>> # <<>> /\ Len(<<x, y>>) = 2 /\ Last(<<x, y>>) = y
           /\ Append(<<x>>, y) = <<x, y>> /\ Front(<<x, y>>) = <<x>>
<1> DEFINE S == {x, y}
           a == Append(<<x>>, y)
<1>1. <<x, y>> # <<>> /\ Len(<<x, y>>) = 2 /\ Last(<<x, y>>) = y
  BY DEF Last
<1>2. /\ <<x>> \in Seq(S) /\ Len(<<x>>) = 1 /\ <<x>>[1] = x
      /\ <<x, y>> \in Seq(S) /\ <<x, y>>[1] = x /\ <<x, y>>[2] = y
      /\ y \in S
  OBVIOUS
<1> HIDE DEF S
<1>3. a \in Seq(S) /\ Len(a) = 2 /\ a[1] = x /\ a[2] = y
  BY <1>2, AppendProperties
<1>4. Front(a) = <<x>>
  BY ONLY <1>2, FrontOfAppend
<1> HIDE DEF a
<1>5. \A i \in 1 .. 2 : a[i] = <<x, y>>[i]
  BY <1>2, <1>3
<1>6. a = <<x, y>>
  BY <1>1, <1>2, <1>3, <1>5, SeqEqual
<1> QED
  BY <1>1, <1>4, <1>6 DEF a

LEMMA StackedThree ==
    ASSUME NEW x, NEW y, NEW z
    PROVE  /\ Last(<<x, y, z>>) = z /\ Len(<<x, y, z>>) = 3
           /\ Append(<<x, y>>, z) = <<x, y, z>> /\ Front(<<x, y, z>>) = <<x, y>>
<1> DEFINE S == {x, y, z}
           a == Append(<<x, y>>, z)
<1>1. Len(<<x, y, z>>) = 3 /\ Last(<<x, y, z>>) = z
  BY DEF Last
<1>2. /\ <<x, y>> \in Seq(S) /\ Len(<<x, y>>) = 2 /\ <<x, y>>[1] = x /\ <<x, y>>[2] = y
      /\ <<x, y, z>> \in Seq(S)
      /\ <<x, y, z>>[1] = x /\ <<x, y, z>>[2] = y /\ <<x, y, z>>[3] = z
      /\ z \in S
  OBVIOUS
<1> HIDE DEF S
<1>3. a \in Seq(S) /\ Len(a) = 3 /\ a[1] = x /\ a[2] = y /\ a[3] = z
  BY <1>2, AppendProperties
<1>4. Front(a) = <<x, y>>
  BY ONLY <1>2, FrontOfAppend
<1> HIDE DEF a
<1>5. \A i \in 1 .. 3 : a[i] = <<x, y, z>>[i]
  BY <1>2, <1>3
<1>6. a = <<x, y, z>>
  BY <1>1, <1>2, <1>3, <1>5, SeqEqual
<1> QED
  BY <1>1, <1>4, <1>6 DEF a

-----------------------------------------------------------------------------
(* The phases of a command. *)

\* A transaction in its target keeps what it found.
LEMMA EnteredPhases ==
    ASSUME NEW base, ChainOnScript(base), tx' = "entered",
           Back(base)' \/ InAccountCall(base)' \/ InCallee(base)'
    PROVE  Phases' /\ Committed' = base
<1>1. stack' # <<>> /\ stack'[1] = ExtFrame(Devnode, base)
  BY DEF Back, InAccountCall, InCallee
<1>2. Committed' = base
  BY <1>1 DEF Committed, ExtFrame
<1>3. Back(Committed)' \/ InAccountCall(Committed)' \/ InCallee(Committed)'
  BY <1>2 DEF Back, InAccountCall, InCallee, Calling, Waiting, Started
<1> QED
  BY <1>2, <1>3 DEF Phases

LEMMA RestingPhases ==
    ASSUME ChainOnScript(chain'), stack' = <<>>, tx' \in {"none", "mined", "reverted"}
    PROVE  Phases' /\ Committed' = chain'
<1>1. Committed' = chain'
  BY DEF Committed
<1> QED
  BY <1>1 DEF Phases

LEMMA EnterPhases ==
    ASSUME HarnessIInv, Phases, IInv', Enter
    PROVE  Phases' /\ Committed' = Committed
<1> USE DEF HarnessIInv
<1>1. /\ tx = "sent" /\ tx' = "entered"
      /\ UNCHANGED <<plan, step>>
      /\ stack = <<ExtFrame(Devnode, chain)>>
      /\ ChainOnScript(Committed)
  BY DEF Enter, Phases
<1>2. Test' = Test /\ Here' = Here /\ Step' = Step
  BY <1>1 DEF Test, Here, Step
<1>3. Committed = chain
  BY <1>1 DEF Committed, ExtFrame
<1>4. chain' \in ChainState
  BY DEF IInv, RunOK
<1>5. /\ Doing(Commands)
      /\ plan # <<>>
  BY <1>1 DEF Bookkeeping, Doing
<1>6. /\ Test \in TestNames
      /\ KeyPair(Test, 1) \in Keys
      /\ Step.do \in {"execute", "rotate"} => Step.nonce \in Nat
      /\ Step.do = "execute" => Step.call \in Calls
      /\ Step.do = "rotate" => KeyPair(Test, Step.new) \in Keys
  BY <1>1, CommandTypes
<1>7. /\ Here = AccountOf(Test)
      /\ Here \in Accounts
      /\ HasCode => Acct = Here
  BY <1>5, HeldAccount
<1>8. /\ step \in DOMAIN Script(Test)
      /\ Step = Script(Test)[step]
  BY <1>5, CurrentStep
<1>9. PICK base : base = chain
  OBVIOUS
<1>10. /\ ChainOnScript(base)
       /\ base[Here] \in AccountState
       /\ OnScript(Test, base[Here])
       /\ chain \in [Accounts -> AccountState]
  BY <1>1, <1>3, <1>6, <1>7, <1>9 DEF ChainOnScript, ChainState
<1> DEFINE s == base[Here]
<1>11. ASSUME NEW r, chain' = [chain EXCEPT ![Here] = r], UNCHANGED stack,
              OnScript(Test, r), Len(s.log) <= Len(r.log)
       PROVE  Back(base)'
  <2>1. chain' = [base EXCEPT ![AccountOf(Test)] = r]
    BY <1>7, <1>9, <1>11
  <2>2. /\ ChainOnScript(chain')
        /\ chain'[AccountOf(Test)] = r
        /\ \A u \in TestNames \ {Test} : chain'[AccountOf(u)] = base[AccountOf(u)]
    <3> DEFINE v == [base EXCEPT ![AccountOf(Test)] = r]
    <3>1. v \in ChainState
      BY ONLY <1>4, <2>1
    <3>2. /\ ChainOnScript(v)
          /\ v[AccountOf(Test)] = r
          /\ \A u \in TestNames \ {Test} : v[AccountOf(u)] = base[AccountOf(u)]
      BY ONLY <1>6, <1>10, <1>11, <3>1, OnlyHere
    <3> QED
      BY ONLY <2>1, <3>2
  <2> QED
    BY <1>1, <1>2, <1>7, <1>9, <1>11, <2>2 DEF Back
<1>12. ASSUME UNCHANGED <<chain, stack>>
       PROVE  Back(base)'
  <2>1. Len(s.log) \in Nat
    BY <1>10, LenProperties DEF AccountState
  <2> QED
    BY <1>1, <1>2, <1>9, <1>10, <1>12, <2>1 DEF Back
<1>13. ASSUME Constructor(Here, KeyPair(Test, 1))
       PROVE  Back(base)'
  <2> DEFINE p == KeyPair(Test, 1)
             r == Emit([s EXCEPT !.owner = p], FirstEvent(Test))
  <2>1. chain' = [chain EXCEPT ![Here] = r] /\ UNCHANGED stack /\ s.owner = NoOwner
    BY <1>9, <1>13 DEF Constructor, FirstEvent
  <2>2. r \in AccountState
    BY <1>4, <1>7, <1>10, <2>1 DEF ChainState
  <2>3. /\ r.owner = p /\ r.nonce = s.nonce
        /\ r.log = Append(s.log, FirstEvent(Test))
        /\ r.delivered = s.delivered
    BY <1>10 DEF Emit, AccountState
  <2> HIDE DEF r
  <2>4. r.owner # NoOwner
    BY <1>6, <2>3, ConstantsAssumption
  <2>5. OnScript(Test, r) /\ Len(s.log) <= Len(r.log)
    BY <1>6, <1>10, <2>1, <2>2, <2>3, <2>4, DeployOnScript
  <2> QED
    BY <1>11, <2>1, <2>5
<1>14. ASSUME Step.do = "execute", HasCode,
              Execute(Acct, Step.call, Step.nonce, Signature(Step))
       PROVE  InAccountCall(base)'
  <2>1. Execute(Here, Step.call, Step.nonce, Signature(Step))
    BY <1>7, <1>14
  <2>2. /\ chain' = [chain EXCEPT ![Here] = Begin(@, Step.nonce)]
        /\ stack' = Append(stack, AccountFrame("execute", Here, <<Step.call>>, Step.nonce, chain))
        /\ chain[Here].nonce = Step.nonce
    BY <2>1 DEF Execute, Accepts, ValidateAuthorisedHash
  <2>3. base[Here].owner # NoOwner
    BY <1>7, <1>9, <1>14 DEF HasCode
  <2>4. stack' = <<ExtFrame(Devnode, base), Waiting(base)>>
    BY <1>1, <1>9, <2>2, StackedTwo DEF Waiting
  <2> QED
    BY <1>2, <1>9, <1>14, <2>2, <2>3, <2>4 DEF InAccountCall, Calling, Waiting, Started
<1>15. ASSUME Step.do = "rotate", HasCode,
              RotateOwner(Acct, KeyPair(Test, Step.new), Step.nonce, Signature(Step))
       PROVE  Back(base)'
  <2> DEFINE p == KeyPair(Test, Step.new)
             n == Step.nonce
             e == OwnerRotated(s.owner, p, n)
             r == Exit(Emit([Begin(s, n) EXCEPT !.owner = p], e))
  <2>1. RotateOwner(Here, p, n, Signature(Step))
    BY <1>7, <1>15
  <2>2. /\ chain' = [chain EXCEPT ![Here] = r]
        /\ UNCHANGED stack
        /\ s.nonce = n
        /\ s.owner = Signature(Step).key
    BY <1>9, <2>1 DEF RotateOwner, Accepts, ValidateAuthorisedHash, ValidSignature,
                      PrecompileVerifies
  <2>3. s.owner = KeyPair(Test, Step.key)
    BY <2>2 DEF Signature
  <2>4. s.owner # NoOwner
    BY <1>7, <1>9, <1>15 DEF HasCode
  <2>5. r \in AccountState
    BY <1>4, <1>7, <1>10, <2>2 DEF ChainState
  <2>6. /\ r.owner = p /\ r.nonce = n + 1
        /\ r.log = Append(s.log, e)
        /\ r.delivered = s.delivered
    BY <1>10 DEF Exit, Emit, Begin, AccountState
  <2> HIDE DEF r
  <2>7. p # NoOwner
    BY <1>6, <1>15, ConstantsAssumption
  <2>8. /\ step \in Asked(Test)
        /\ Script(Test)[step].nonce = s.nonce
        /\ Tells(Test, e, Script(Test)[step])
    BY <1>8, <1>15, <2>2, <2>3 DEF Asked, Tells, OwnerRotated
  <2>9. e \in Events
    BY <1>6, <1>10, <1>15, <2>4 DEF OwnerRotated, Events, AccountState
  <2>10. OnScript(Test, r) /\ Len(s.log) <= Len(r.log)
    BY <1>6, <1>10, <2>2, <2>4, <2>5, <2>6, <2>7, <2>8, <2>9, SettleOnScript
  <2> QED
    BY <1>11, <2>2, <2>10
<1>16. Back(base)' \/ InAccountCall(base)'
  BY <1>12, <1>13, <1>14, <1>15 DEF Enter
<1> QED
  BY <1>1, <1>3, <1>9, <1>10, <1>16, EnteredPhases

\* The account comes back from its inner call.
LEMMA ResumePhases ==
    ASSUME HarnessIInv, Phases, IInv', tx = "entered", UNCHANGED <<plan, step>>,
           NEW base, base = Committed, Calling(base),
           NEW w, NEW result,
           w = Started(base)
               \/ (w = Deliver(Started(base), Here, Step.call, Step.nonce) /\ result = "ok"),
           Resume(<<ExtFrame(Devnode, base), Waiting(base)>>, w, result)
    PROVE  Back(base)' /\ Settled(base[Here], chain'[Here], result = "ok")
<1> USE DEF HarnessIInv
<1> DEFINE s == base[Here]
           e == [type |-> "Executed", call |-> Step.call, nonce |-> Step.nonce,
                 success |-> ExecuteOutcome(result)]
           r == Exit(Emit(w[Here], e))
           f == Waiting(base)
<1>1. Test' = Test /\ Here' = Here /\ Step' = Step
  BY DEF Test, Here, Step
<1>2. /\ Doing(Commands)
      /\ plan # <<>>
  BY DEF Bookkeeping, Doing
<1>3. /\ Test \in TestNames
      /\ Here = AccountOf(Test)
      /\ Here \in Accounts
      /\ step \in DOMAIN Script(Test)
      /\ Step = Script(Test)[step]
  BY <1>2, CurrentStep, HeldAccount
<1>4. Step.do = "execute" /\ s.owner # NoOwner /\ s.nonce = Step.nonce
  BY DEF Calling
<1>5. Step.nonce \in Nat /\ Step.call \in Calls
  <2>1. Step.nonce \in 0 .. Cardinality(Asked(Test)) - 1
    BY <1>3, <1>4, Scripts DEF WellScripted
  <2> QED
    BY <1>3, <1>4, <2>1, ScriptAssumption
<1>6. /\ ChainOnScript(base)
      /\ s \in AccountState
      /\ OnScript(Test, s)
      /\ base \in [Accounts -> AccountState]
      /\ chain' \in ChainState
  BY <1>3 DEF Phases, ChainOnScript, ChainState, IInv, RunOK
<1>7. /\ Last(<<ExtFrame(Devnode, base), f>>) = f
      /\ Front(<<ExtFrame(Devnode, base), f>>) = <<ExtFrame(Devnode, base)>>
  BY StackedTwo
<1>8. /\ f.kind = "execute" /\ f.acct = Here /\ f.nonce = Step.nonce
      /\ f.calls[f.next] = Step.call
  BY DEF Waiting, AccountFrame
<1>9. chain' = [w EXCEPT ![Here] = r] /\ stack' = <<ExtFrame(Devnode, base)>>
  BY <1>7, <1>8 DEF Resume
<1>10. /\ Started(base) = [base EXCEPT ![Here] = Begin(s, Step.nonce)]
       /\ Started(base)[Here] = Begin(s, Step.nonce)
  BY <1>3, <1>6 DEF Started
<1>11. PICK d : /\ w = [base EXCEPT ![Here] = [Begin(s, Step.nonce) EXCEPT !.delivered = d]]
                /\ d = s.delivered \/ result = "ok"
  <2>1. CASE w = Started(base)
    <3>1. [Begin(s, Step.nonce) EXCEPT !.delivered = s.delivered] = Begin(s, Step.nonce)
      BY <1>6 DEF Begin, AccountState
    <3>2. w = [base EXCEPT ![Here] = [Begin(s, Step.nonce) EXCEPT !.delivered = s.delivered]]
      BY ONLY <1>10, <2>1, <3>1
    <3> QED
      BY ONLY <3>2
  <2>2. CASE w = Deliver(Started(base), Here, Step.call, Step.nonce) /\ result = "ok"
    <3> DEFINE d == Append(Started(base)[Here].delivered,
                           [call |-> Step.call, nonce |-> Step.nonce])
    <3>1. w = [Started(base) EXCEPT ![Here] =
                  [Started(base)[Here] EXCEPT !.delivered = d]]
      BY <2>2 DEF Deliver
    <3> HIDE DEF d
    <3>2. w = [base EXCEPT ![Here] = [Begin(s, Step.nonce) EXCEPT !.delivered = d]]
      BY <1>10, <3>1
    <3> QED
      BY <2>2, <3>2
  <2> QED
    BY <2>1, <2>2
<1>12. w[Here] = [Begin(s, Step.nonce) EXCEPT !.delivered = d]
  BY <1>3, <1>6, <1>11
<1>13. /\ r.owner = s.owner /\ r.nonce = s.nonce + 1
       /\ r.log = Append(s.log, e)
       /\ r.delivered = d
  BY <1>4, <1>6, <1>12 DEF Exit, Emit, Begin, AccountState
<1> HIDE DEF r
<1>14. chain' = [base EXCEPT ![Here] = r]
  BY <1>9, <1>11
<1>15. r \in AccountState
  BY <1>3, <1>6, <1>14 DEF ChainState
<1>16. e \in Events /\ e.type = "Executed" /\ (e.success <=> result = "ok")
  BY <1>5 DEF Events, ExecuteOutcome
<1>17. /\ step \in Asked(Test)
       /\ Script(Test)[step].nonce = s.nonce
       /\ Tells(Test, e, Script(Test)[step])
  BY <1>3, <1>4 DEF Asked, Tells
<1> HIDE DEF e
<1>18. Settled(s, r, result = "ok")
  <2>1. s.log \in Seq(Events)
    BY <1>6 DEF AccountState
  <2>2. Len(r.log) = Len(s.log) + 1 /\ r.log[Len(r.log)] = e
    BY <1>13, <1>16, <2>1, AppendProperties
  <2> QED
    BY <1>11, <1>13, <1>16, <2>2 DEF Settled
<1>19. OnScript(Test, r) /\ Len(s.log) <= Len(r.log)
  BY ONLY <1>3, <1>4, <1>6, <1>11, <1>13, <1>15, <1>16, <1>17, SettleOnScript
<1>20. chain' = [base EXCEPT ![AccountOf(Test)] = r]
  BY <1>3, <1>14
<1>21. /\ ChainOnScript(chain')
       /\ chain'[AccountOf(Test)] = r
       /\ \A u \in TestNames \ {Test} : chain'[AccountOf(u)] = base[AccountOf(u)]
  <2>0. PICK q : q = r
    OBVIOUS
  <2> DEFINE v == [base EXCEPT ![AccountOf(Test)] = q]
  <2>1. /\ Test \in TestNames /\ ChainOnScript(base)
        /\ v \in ChainState /\ OnScript(Test, q)
    BY ONLY <1>3, <1>6, <1>19, <1>20, <2>0
  <2>2. /\ ChainOnScript(v)
        /\ v[AccountOf(Test)] = q
        /\ \A u \in TestNames \ {Test} : v[AccountOf(u)] = base[AccountOf(u)]
    BY ONLY <2>1, OnlyHere
  <2> QED
    BY ONLY <1>20, <2>0, <2>2
<1> QED
  BY <1>1, <1>3, <1>9, <1>19, <1>21, <1>18 DEF Back

\* What InnerCall does: it enters the contract called, or the account comes back.
LEMMA InnerCallWays ==
    ASSUME HarnessIInv, Phases, InnerCall, NEW base, base = Committed
    PROVE  \/ InCallee(base)'
           \/ /\ Calling(base)
              /\ \E w, result :
                    /\ w = Started(base)
                       \/ (w = Deliver(Started(base), Here, Step.call, Step.nonce)
                           /\ result = "ok")
                    /\ Resume(<<ExtFrame(Devnode, base), Waiting(base)>>, w, result)
                    /\ result = "ok" => Honoured(base)
<1> DEFINE mid == Started(base)
           f == Waiting(base)
           frames == <<ExtFrame(Devnode, base), f>>
           w == Deliver(mid, Here, Step.call, Step.nonce)
<1>1. /\ tx = "entered" /\ UNCHANGED <<plan, step>>
      /\ Back(base) \/ InAccountCall(base) \/ InCallee(base)
  BY DEF InnerCall, Phases
<1>2. Test' = Test /\ Here' = Here /\ Step' = Step
  BY <1>1 DEF Test, Here, Step
<1>3. /\ f.kind = "execute" /\ f.acct = Here /\ f.nonce = Step.nonce
      /\ f.calls[f.next] = Step.call
  BY DEF Waiting, AccountFrame
<1>4. \/ CallExternal
      \/ CallSelf
      \/ CalleeReturns /\ Balance(Top.saved, Here) >= Step.call.value
      \/ CalleeReverts
      \/ InExt /\ Len(stack) > 1 /\ Resume(Front(stack), Top.saved, "ok") /\ Strike
  BY DEF InnerCall, CanPay
<1>5. ASSUME Back(base)
      PROVE  FALSE
  <2>1. Last(stack) = ExtFrame(Devnode, base) /\ Len(stack) = 1
    BY <1>5, StackedOne DEF Back
  <2>2. ~InAccount /\ ~(Len(stack) > 1)
    BY <2>1 DEF InAccount, Top, ExtFrame
  <2> QED
    BY <1>4, <2>2 DEF CallExternal, CallSelf, CalleeReturns, CalleeReverts
<1>6. CASE InAccountCall(base)
  <2>1. Calling(base) /\ stack = frames /\ chain = mid
    BY <1>6 DEF InAccountCall
  <2>2. Top = f
    BY <2>1, StackedTwo DEF Top
  <2>3. ~InExt
    BY <1>3, <2>2 DEF InExt
  <2>4. ASSUME CallExternal
        PROVE  InCallee(base)'
    <3>1. /\ chain' = w
          /\ Step.call.to = "ext"
          /\ stack' = Append(stack, ExtFrame(Here.chain, mid))
      BY <1>3, <2>1, <2>2, <2>4 DEF CallExternal
    <3>2. Here.chain = Devnode
      BY DEF Here
    <3>3. stack' = <<ExtFrame(Devnode, base), f, ExtFrame(Devnode, mid)>>
      BY <2>1, <3>1, <3>2, StackedThree
    <3>4. Calling(base)' /\ Step'.call.to = "ext"
      BY <1>2, <2>1, <3>1 DEF Calling
    <3>5. chain' = Deliver(Started(base)', Here', Step'.call, Step'.nonce)
      BY <1>2, <3>1 DEF Started
    <3>6. stack' = <<ExtFrame(Devnode, base), Waiting(base)', ExtFrame(Devnode, Started(base)')>>
      BY <1>2, <3>3 DEF Waiting, Started
    <3> QED
      BY <3>4, <3>5, <3>6 DEF InCallee
  <2>5. CASE CallSelf
    <3>1. \/ Resume(frames, w, "ok") /\ Step.call.to = "self" /\ Step.call.data # "unknown"
          \/ Resume(frames, mid, "revert")
      BY <1>3, <2>1, <2>2, <2>5 DEF CallSelf, SelfCallAccepted
    <3>2. CASE Resume(frames, mid, "revert")
      BY <2>1, <3>2
    <3>3. CASE Resume(frames, w, "ok") /\ Honoured(base)
      BY <2>1, <3>3
    <3> QED
      BY <3>1, <3>2, <3>3 DEF Honoured
  <2> QED
    BY <1>4, <2>3, <2>4, <2>5 DEF CalleeReturns, CalleeReverts
<1>7. CASE InCallee(base)
  <2>1. /\ Calling(base)
        /\ Step.call.to = "ext"
        /\ stack = <<ExtFrame(Devnode, base), f, ExtFrame(Devnode, mid)>>
        /\ chain = w
    BY <1>7 DEF InCallee
  <2>2. Top = ExtFrame(Devnode, mid) /\ Front(stack) = frames
    <3>1. PICK z : z = ExtFrame(Devnode, mid)
      OBVIOUS
    <3>2. stack = <<ExtFrame(Devnode, base), f, z>>
      BY ONLY <2>1, <3>1
    <3>3. Last(stack) = z /\ Front(stack) = <<ExtFrame(Devnode, base), f>>
      BY ONLY <3>2, StackedThree
    <3> QED
      BY <3>1, <3>3 DEF Top
  <2>3. ~InAccount /\ Top.saved = mid
    BY <2>2 DEF InAccount, ExtFrame
  <2>4. \/ Resume(frames, w, "ok") /\ Balance(mid, Here) >= Step.call.value
        \/ Resume(frames, mid, "revert")
        \/ Resume(frames, mid, "ok") /\ Strike
    BY <1>4, <2>1, <2>2, <2>3 DEF CallExternal, CallSelf, CalleeReturns, CalleeReverts
  <2>5. CASE Resume(frames, mid, "revert")
    BY <2>1, <2>5
  <2>6. CASE Resume(frames, w, "ok") /\ Honoured(base)
    BY <2>1, <2>6
  <2>7. CASE Resume(frames, mid, "ok") /\ Honoured(base)
    BY <2>1, <2>7
  <2> QED
    BY <2>1, <2>4, <2>5, <2>6, <2>7 DEF Honoured
<1> QED
  BY <1>1, <1>5, <1>6, <1>7

LEMMA InnerCallPhases ==
    ASSUME HarnessIInv, Phases, IInv', InnerCall
    PROVE  Phases' /\ Committed' = Committed
<1>1. /\ tx = "entered" /\ tx' = "entered" /\ UNCHANGED <<plan, step>>
      /\ ChainOnScript(Committed)
  BY DEF InnerCall, Phases
<1>2. PICK base : base = Committed
  OBVIOUS
<1>3. Back(base)' \/ InCallee(base)'
  BY <1>1, <1>2, InnerCallWays, ResumePhases
<1> QED
  BY <1>1, <1>2, <1>3, EnteredPhases

\* The transaction is mined: what the account holds now is settled.
LEMMA MinePhases ==
    ASSUME HarnessIInv, Phases, Mine
    PROVE  /\ Phases'
           /\ Committed' = chain
           /\ Back(Committed)
           /\ \E returned \in {0, 4} : receipt' = NewLogs(Committed, returned)
<1>1. /\ tx = "entered" /\ tx' = "mined" /\ stack' = <<>> /\ chain' = chain /\ Len(stack) = 1
      /\ Back(Committed) \/ InAccountCall(Committed) \/ InCallee(Committed)
      /\ \E returned \in {0, 4} : receipt' = NewLogs(Top.saved, returned)
  BY DEF Mine, EndTx, Phases
<1>2. Back(Committed)
  <2>1. InAccountCall(Committed) => Len(stack) = 2
    BY StackedTwo DEF InAccountCall
  <2>2. InCallee(Committed) => Len(stack) = 3
    BY StackedThree DEF InCallee
  <2> QED
    BY <1>1, <2>1, <2>2
<1>3. ChainOnScript(chain) /\ Top.saved = Committed
  <2>1. Last(stack) = ExtFrame(Devnode, Committed) /\ ChainOnScript(chain)
    BY <1>2, StackedOne DEF Back
  <2> QED
    BY <2>1 DEF Top, ExtFrame
<1> QED
  BY <1>1, <1>2, <1>3, RestingPhases

\* Outside its transactions, the harness leaves the chain alone.
LEMMA HarnessIdle ==
    ASSUME HarnessIInv, Phases,
           \/ Main \/ MakeCtxFails \/ CommandReturns \/ DeployReturns \/ CommandFails
           \/ CheckHolds \/ CheckFails \/ TestPasses
    PROVE  Phases' /\ Committed' = Committed /\ Committed = chain /\ stack = <<>>
<1> USE DEF HarnessIInv
<1>1. UNCHANGED <<chain, stack>>
  BY DEF Main, MakeCtxFails, CommandReturns, DeployReturns, CommandFails, CheckHolds,
         CheckFails, TestPasses
<1>2. tx' = tx \/ tx' = "none"
  BY DEF Main, MakeCtxFails, CommandReturns, DeployReturns, CommandFails, CheckHolds,
         CheckFails, TestPasses, NextStep, EndTest, FreshStart
<1>3. tx \in {"none", "mined", "reverted"}
  <2>1. CASE CommandReturns \/ DeployReturns \/ CommandFails
    BY <2>1 DEF CommandReturns, DeployReturns, CommandFails
  <2>2. CASE Main \/ MakeCtxFails
    <3>1. plan = <<>>
      BY <2>2 DEF Main, MakeCtxFails, Control
    <3> QED
      BY <3>1 DEF Bookkeeping, Doing
  <2>3. CASE CheckHolds \/ CheckFails
    <3>1. Step.do \in Checks
      BY <2>3 DEF CheckHolds, CheckFails, Doing
    <3>2. Step.do \notin Commands
      BY <3>1 DEF Checks, Commands
    <3> QED
      BY <3>2 DEF Bookkeeping, Doing
  <2>4. CASE TestPasses
    <3>1. ~(step <= Len(Script(Test)))
      <4>1. plan # <<>> /\ step > Len(Script(Test))
        BY <2>4 DEF TestPasses
      <4>2. Test \in TestNames
        BY <4>1, CurrentTest
      <4>3. Len(Script(Test)) \in Nat
        BY <4>2, Scripts DEF WellScripted
      <4>4. step \in Int
        BY <4>1, <4>3 DEF Bookkeeping, Positions
      <4> QED
        BY <4>1, <4>3, <4>4
    <3> QED
      BY <3>1 DEF Bookkeeping, Doing
  <2> QED
    BY <2>1, <2>2, <2>3, <2>4
<1>4. stack = <<>> /\ ChainOnScript(Committed) /\ Committed = chain
  BY <1>3 DEF Phases, Committed
<1>5. tx' \in {"none", "mined", "reverted"}
  BY <1>2, <1>3
<1> QED
  BY <1>1, <1>4, <1>5, RestingPhases

LEMMA PhasesStep ==
    ASSUME HarnessIInv, IInv', Phases, [HarnessNext]_allVars
    PROVE  Phases' /\ (Mine \/ Committed' = Committed)
<1>1. CASE Send
  <2>1. /\ tx = "none" /\ tx' = "sent" /\ stack = <<>>
        /\ stack' = <<ExtFrame(Devnode, chain)>> /\ chain' = chain
        /\ ChainOnScript(Committed)
    BY <1>1 DEF Send, BeginTx, Phases
  <2>2. stack' # <<>> /\ stack'[1].saved = chain
    BY <2>1 DEF ExtFrame
  <2>3. Committed' = Committed
    BY <2>1, <2>2 DEF Committed
  <2> QED
    BY <2>1, <2>3 DEF Phases
<1>2. CASE Enter
  BY <1>2, EnterPhases
<1>3. CASE Revert
  <2>1. /\ tx = "sent" /\ tx' = "reverted" /\ stack' = <<>> /\ chain' = Top.saved
        /\ stack = <<ExtFrame(Devnode, chain)>> /\ ChainOnScript(Committed)
    BY <1>3 DEF Revert, AbortTx, Phases
  <2>2. Top.saved = chain /\ stack # <<>> /\ stack[1].saved = chain
    <3>1. Last(stack) = ExtFrame(Devnode, chain) /\ stack # <<>> /\ stack[1] = ExtFrame(Devnode, chain)
      BY <2>1, StackedOne
    <3> QED
      BY <3>1 DEF Top, ExtFrame
  <2>3. chain' = Committed
    BY <2>1, <2>2 DEF Committed
  <2> QED
    BY <2>1, <2>3, RestingPhases
<1>4. CASE InnerCall
  BY <1>4, InnerCallPhases
<1>5. CASE Mine
  BY <1>5, MinePhases
<1>6. CASE \/ Main \/ MakeCtxFails \/ CommandReturns \/ DeployReturns \/ CommandFails
           \/ CheckHolds \/ CheckFails \/ TestPasses
  BY <1>6, HarnessIdle
<1>7. CASE Ended \/ UNCHANGED allVars
  <2>1. UNCHANGED allVars
    BY <1>7 DEF Ended
  <2>2. UNCHANGED <<chain, stack, plan, step, tx>>
    BY <2>1 DEF allVars, harnessVars
  <2> QED
    BY <2>2 DEF Phases, Committed, Back, InAccountCall, InCallee, Calling, Waiting,
                Started, Here, Step, Test
<1> QED
  BY <1>1, <1>2, <1>3, <1>4, <1>5, <1>6, <1>7 DEF HarnessNext

LEMMA PhasesInit == HarnessInit => Phases
<1> SUFFICES ASSUME HarnessInit PROVE Phases
  OBVIOUS
<1>1. /\ chain = [a \in Accounts |-> FreshAccount]
      /\ stack = <<>> /\ tx = "none"
  BY DEF HarnessInit, Init
<1>2. chain \in ChainState
  BY InitIInv DEF HarnessInit, IInv, RunOK
<1>3. \A t \in TestNames : chain[AccountOf(t)] = FreshAccount
  BY <1>1, TestPlace
<1>4. \A t \in TestNames : OnScript(t, FreshAccount)
  BY DEF OnScript, FreshAccount
<1>5. Committed = chain /\ ChainOnScript(chain)
  BY <1>1, <1>2, <1>3, <1>4 DEF Committed, ChainOnScript
<1> QED
  BY <1>1, <1>5 DEF Phases


-----------------------------------------------------------------------------
(* What the checks tell. *)

\* The script of the current test, and where it is.
LEMMA ScriptFacts ==
    ASSUME HarnessIInv, plan # <<>>
    PROVE  /\ Test \in TestNames
           /\ results[Test] = "none"
           /\ Here = AccountOf(Test)
           /\ WellScripted(Script(Test), Cardinality(Asked(Test)))
           /\ Len(Script(Test)) \in Nat \ {0}
           /\ DOMAIN Script(Test) = 1 .. Len(Script(Test))
           /\ step \in Nat
<1>1. Test \in TestNames /\ results[Test] = "none"
  BY CurrentTest DEF HarnessIInv
<1>2. WellScripted(Script(Test), Cardinality(Asked(Test)))
  BY <1>1, Scripts
<1>3. Len(Script(Test)) \in Nat \ {0} /\ DOMAIN Script(Test) = 1 .. Len(Script(Test))
  BY <1>2 DEF WellScripted
<1>4. step \in Nat
  BY <1>3 DEF HarnessIInv, Bookkeeping, Positions
<1> QED
  BY <1>1, <1>2, <1>3, <1>4 DEF Here, AccountOf

\* A step that settles nothing and ends no command.
LEMMA SameLearned ==
    ASSUME Learned, Committed' = Committed, UNCHANGED <<plan, step, receipt, results>>
    PROVE  Learned'
<1>1. Test' = Test /\ Here' = Here
  BY DEF Test, Here
<1> QED
  BY <1>1 DEF Learned

\* The receipt of a mined transaction is of the test's own account.
LEMMA MineLearned ==
    ASSUME HarnessIInv, Phases, Learned, Mine
    PROVE  Learned'
<1>1. /\ Phases'
      /\ Committed' = chain
      /\ Back(Committed)
      /\ \E returned \in {0, 4} : receipt' = NewLogs(Committed, returned)
  BY MinePhases
<1>2. /\ UNCHANGED <<plan, step, results>>
      /\ tx # "none"
  BY DEF Mine
<1>3. Doing(Commands)
  BY <1>2 DEF HarnessIInv, Bookkeeping
<1>4. /\ plan # <<>>
      /\ step \in DOMAIN Script(Test)
      /\ step <= Len(Script(Test))
      /\ Script(Test)[step].do \in Commands
  BY <1>3, CurrentStep DEF HarnessIInv
<1>5. /\ Test \in TestNames
      /\ results[Test] = "none"
      /\ Here = AccountOf(Test)
      /\ WellScripted(Script(Test), Cardinality(Asked(Test)))
      /\ Len(Script(Test)) \in Nat
      /\ step \in Nat
      /\ DOMAIN Script(Test) = 1 .. Len(Script(Test))
  BY <1>4, ScriptFacts
<1>6. Test' = Test /\ Here' = Here
  BY <1>2 DEF Test, Here
<1> DEFINE s == chain[Here]
           old == Committed[Here]
           m == Len(s.log) - Len(old.log)
<1>7. /\ OnScript(Test, s)
      /\ s \in AccountState
      /\ old \in AccountState
      /\ Len(old.log) <= Len(s.log)
  BY <1>1, <1>5, TestPlace DEF Back, ChainOnScript, ChainState, Phases
<1>8. m \in Nat /\ Len(old.log) \in Nat /\ Len(s.log) \in Nat /\ DOMAIN s.log = 1 .. Len(s.log)
  BY <1>7, LenProperties DEF AccountState
<1>9. PICK returned \in {0, 4} : receipt' = NewLogs(Committed, returned)
  BY <1>1
<1>10. /\ Len(receipt') = m
       /\ \A i \in 1 .. m :
             LET event == s.log[Len(old.log) + i]
             IN  receipt'[i] = IF event.type = "Executed"
                               THEN ExecutedLog(event.call.value, event.nonce, event.success, returned)
                               ELSE [topic |-> event.type, data |-> <<>>, bytes |-> 0]
  BY <1>8, <1>9 DEF NewLogs
<1>11. \A t \in TestNames : results'[t] = "pass" => Done(t, Committed'[AccountOf(t)])
  <2>1. \A t \in TestNames \ {Test} : chain[AccountOf(t)] = Committed[AccountOf(t)]
    BY <1>1 DEF Back
  <2> QED
    BY <1>1, <1>2, <1>5, <2>1 DEF Learned
<1>12. ASSUME NEW k \in DOMAIN Script(Test), Script(Test)[k].do = "outcome"
       PROVE  ~(k < step) /\ Cardinality(Asked(Test)) = 1
  <2>1. /\ Cardinality(Asked(Test)) = 1
        /\ \A j \in DOMAIN Script(Test) : j > k => Script(Test)[j].do \in Checks
    BY <1>5, <1>12 DEF WellScripted
  <2>2. Commands \cap Checks = {}
    BY DEF Commands, Checks
  <2> QED
    BY <1>4, <1>5, <2>1, <2>2
<1>13. ASSUME Cardinality(Asked(Test)) = 1,
              NEW i \in 1 .. m, receipt'[i].topic = "Executed", ~SuccessOf(receipt'[i].data)
       PROVE  Failed(s)
  <2> DEFINE j == Len(old.log) + i
             e == s.log[j]
  <2>1. j \in 1 .. Len(s.log)
    BY <1>8
  <2>2. e.type = "Executed" /\ ~e.success
    <3>1. receipt'[i] = IF e.type = "Executed"
                        THEN ExecutedLog(e.call.value, e.nonce, e.success, returned)
                        ELSE [topic |-> e.type, data |-> <<>>, bytes |-> 0]
      BY <1>10
    <3> HIDE DEF e
    <3>2. e.type = "Executed"
      BY <1>13, <3>1
    <3>3. receipt'[i].data[3] = IF e.success THEN 1 ELSE 0
      BY <3>1, <3>2 DEF ExecutedLog
    <3> QED
      BY <1>13, <3>2, <3>3 DEF SuccessOf
  <2>3. /\ s.log[1] = FirstEvent(Test)
        /\ \A x \in 2 .. Len(s.log) : \E k \in Asked(Test) : Script(Test)[k].nonce = x - 2
    <3>1. s.owner # NoOwner
      <4>1. s.log # <<>>
        BY <1>7, <2>1, EmptySeq DEF AccountState
      <4> QED
        BY <1>7, <4>1 DEF OnScript
    <3> QED
      BY <1>7, <3>1 DEF OnScript
  <2>4. j # 1
    BY <2>2, <2>3 DEF FirstEvent
  <2>5. PICK k \in Asked(Test) : Script(Test)[k].nonce = j - 2
    BY <1>8, <2>1, <2>3, <2>4
  <2>6. Script(Test)[k].nonce \in 0 .. 1 - 1
    BY <1>5, <1>13, <2>5 DEF WellScripted, Asked
  <2>7. j = 2
    BY <1>8, <2>1, <2>5, <2>6
  <2> HIDE DEF j
  <2>8. Len(s.log) >= 2 /\ 2 \notin Succeeded(s)
    BY <1>8, <2>1, <2>2, <2>7 DEF Succeeded
  <2> QED
    BY <2>8 DEF Failed
<1> HIDE DEF s, old, m
<1>14. /\ Committed'[Here'] = s
       /\ ~(step > Len(Script(Test)))
       /\ Len(receipt') \in Nat
  BY <1>1, <1>4, <1>5, <1>6, <1>8, <1>10 DEF s
<1> QED
  BY <1>2, <1>4, <1>6, <1>10, <1>11, <1>12, <1>13, <1>14 DEF Learned

\* On to the next step of the script, with what the last one told.
LEMMA NextLearned ==
    ASSUME HarnessIInv, Learned, Committed' = Committed, NextStep, UNCHANGED receipt,
           NEW kinds, Doing(kinds),
           step = Len(Script(Test)) =>
               /\ Committed[Here].owner # NoOwner
               /\ Committed[Here].nonce = Cardinality(Asked(Test)),
           Step.do = "outcome" => Failed(Committed[Here])
    PROVE  Learned'
<1>1. step' = step + 1 /\ UNCHANGED <<plan, results>>
  BY DEF NextStep
<1>2. Test' = Test /\ Here' = Here
  BY <1>1 DEF Test, Here
<1>3. plan # <<>> /\ Step = Script(Test)[step] /\ step <= Len(Script(Test))
  BY DEF Doing, Step
<1>4. /\ Len(Script(Test)) \in Nat /\ step \in Nat
      /\ DOMAIN Script(Test) = 1 .. Len(Script(Test))
  <2>1. Len(Script(Test)) \in Nat \ {0} /\ step \in Nat
    BY <1>3, ScriptFacts
  <2>2. DOMAIN Script(Test) = 1 .. Len(Script(Test))
    BY <1>3, ScriptFacts
  <2> QED
    BY <2>1, <2>2
<1> DEFINE l == Len(Script(Test))
<1>5. l \in Nat /\ step \in Nat /\ step <= l /\ step' = step + 1 /\ DOMAIN Script(Test) = 1 .. l
  BY <1>1, <1>3, <1>4
<1> HIDE DEF l
<1>6. /\ step' > l => step = l
      /\ \A k \in 1 .. l : k < step' => k < step \/ k = step
  BY ONLY <1>5
<1> QED
  BY <1>1, <1>2, <1>3, <1>5, <1>6 DEF Learned, l

\* The step of a command is neither the last of its script nor a look at an outcome.
LEMMA CommandLearned ==
    ASSUME HarnessIInv, Learned, Committed' = Committed, NextStep, UNCHANGED receipt,
           NEW kinds, kinds \subseteq Commands, Doing(kinds)
    PROVE  Learned'
<1>1. plan # <<>> /\ Step = Script(Test)[step] /\ Step.do \in Commands
  BY CurrentStep DEF HarnessIInv
<1>2. "nonce" \notin Commands /\ "outcome" \notin Commands
  BY DEF Commands
<1>3. Script(Test)[Len(Script(Test))].do = "nonce"
  BY <1>1, ScriptFacts DEF WellScripted
<1> QED
  BY <1>1, <1>2, <1>3, NextLearned

\* The parser found a failed call in the receipt.
LEMMA ParsedFailure ==
    ASSUME NEW logs, Len(logs) \in Nat, ParseExecutedOutcome(logs) = "failure"
    PROVE  \E i \in 1 .. Len(logs) : logs[i].topic = "Executed" /\ ~SuccessOf(logs[i].data)
<1> DEFINE I == {i \in 1 .. Len(logs) : logs[i].topic = "Executed"}
           first == IF I # {} THEN Min(I) ELSE 0
<1>1. SelectInSeq(logs, LAMBDA log : log.topic = "Executed") = first
  BY DEF SelectInSeq
<1>2. first # 0 /\ ~SuccessOf(logs[first].data)
  BY <1>1 DEF ParseExecutedOutcome
<1>3. I # {} /\ I \in SUBSET (1 .. Len(logs))
  BY <1>2
<1>4. first \in I
  BY <1>3, Extremes
<1> QED
  BY <1>2, <1>4

\* The account of the current test, as its checks read it.
LEMMA CheckLearned ==
    ASSUME HarnessIInv, Phases, Learned, CheckHolds
    PROVE  Learned'
<1>1. /\ Committed' = Committed /\ Committed = chain
      /\ Doing(Checks) /\ AsExpected(Step) /\ NextStep /\ UNCHANGED receipt
  BY HarnessIdle DEF CheckHolds
<1>2. plan # <<>> /\ Step = Script(Test)[step] /\ step \in DOMAIN Script(Test)
  BY <1>1, CurrentStep DEF HarnessIInv
<1>3. WellScripted(Script(Test), Cardinality(Asked(Test)))
  BY <1>2, ScriptFacts
<1>4. ASSUME step = Len(Script(Test))
      PROVE  /\ Committed[Here].owner # NoOwner
             /\ Committed[Here].nonce = Cardinality(Asked(Test))
  <2>1. /\ Step.do = "nonce" /\ Step.nonce = Cardinality(Asked(Test))
        /\ Step.nonce \in Nat \ {0}
    BY <1>2, <1>3, <1>4 DEF WellScripted
  <2>2. NonceRead = Step.nonce
    BY <1>1, <2>1 DEF AsExpected, NonceAsExpected
  <2>3. HasCode /\ chain[Acct].nonce = Step.nonce
    BY <2>1, <2>2 DEF NonceRead
  <2>4. Acct = Here
    BY <1>2, <2>3, HeldAccount DEF HarnessIInv
  <2> QED
    BY <1>1, <2>1, <2>3, <2>4 DEF HasCode
<1>5. ASSUME Step.do = "outcome"
      PROVE  Failed(Committed[Here])
  <2>1. Step.outcome = "failure"
    BY <1>2, <1>3, <1>5 DEF WellScripted, ExpectFailure
  <2>2. ParseExecutedOutcome(receipt) = "failure"
    BY <1>1, <1>5, <2>1 DEF AsExpected
  <2>3. \E i \in 1 .. Len(receipt) :
            receipt[i].topic = "Executed" /\ ~SuccessOf(receipt[i].data)
    BY <2>2, ParsedFailure DEF Learned
  <2> QED
    BY <1>2, <1>5, <2>3 DEF Learned
<1> QED
  BY <1>1, <1>4, <1>5, NextLearned

\* A test ends: its verdict is all that is kept.
LEMMA EndTestLearned ==
    ASSUME HarnessIInv, Control', Learned, Committed' = Committed, plan # <<>>,
           NEW verdict, EndTest(verdict),
           verdict = "pass" => Done(Test, Committed[Here])
    PROVE  Learned'
<1>1. /\ results' = [results EXCEPT ![Test] = verdict]
      /\ step' = 1 /\ receipt' = <<>>
  BY DEF EndTest, FreshStart
<1>2. Test \in TestNames /\ Here = AccountOf(Test)
  BY ScriptFacts
<1>3. results \in [TestNames -> {"none", "pass", "fail"}]
  BY DEF HarnessIInv, Control
<1>4. \A t \in TestNames : results'[t] = "pass" => Done(t, Committed'[AccountOf(t)])
  BY <1>1, <1>2, <1>3 DEF Learned
<1>5. ASSUME plan' # <<>>
      PROVE  /\ Len(Script(Test')) \in Nat \ {0}
             /\ DOMAIN Script(Test') = 1 .. Len(Script(Test'))
  BY <1>5, ComingTest
<1>6. Len(receipt') = 0 /\ receipt' = <<>>
  BY <1>1
<1>7. plan' # <<>> => ~(step' > Len(Script(Test')))
  BY <1>1, <1>5
<1>8. plan' # <<>> => \A k \in DOMAIN Script(Test') : ~(k < step')
  BY <1>1, <1>5
<1> QED
  BY <1>4, <1>6, <1>7, <1>8 DEF Learned

\* A test that came to the end of its script has done all of it.
LEMMA PassedDone ==
    ASSUME HarnessIInv, Phases, Learned, TestPasses
    PROVE  Done(Test, Committed[Here])
<1> DEFINE s == Committed[Here]
           n == Cardinality(Asked(Test))
<1>1. plan # <<>> /\ step > Len(Script(Test))
  BY DEF TestPasses
<1>2. /\ Test \in TestNames
      /\ Here = AccountOf(Test)
      /\ WellScripted(Script(Test), n)
      /\ Len(Script(Test)) \in Nat \ {0} /\ step \in Nat
      /\ DOMAIN Script(Test) = 1 .. Len(Script(Test))
  BY <1>1, ScriptFacts
<1>3. /\ s.owner # NoOwner
      /\ s.nonce = n
      /\ \A k \in DOMAIN Script(Test) :
            k < step /\ Script(Test)[k].do = "outcome" => Failed(s)
  BY <1>1 DEF Learned
<1>4. OnScript(Test, s) /\ s \in AccountState
  BY <1>2, TestPlace DEF Phases, ChainOnScript, ChainState
<1>5. /\ Len(s.log) = n + 1
      /\ s.log[1] = FirstEvent(Test)
      /\ \A i \in 2 .. Len(s.log) : \E k \in Asked(Test) :
            Script(Test)[k].nonce = i - 2 /\ Tells(Test, s.log[i], Script(Test)[k])
      /\ s.delivered # <<>> => Succeeded(s) # {}
  BY <1>3, <1>4 DEF OnScript
<1>6. n \in Nat /\ DOMAIN s.log = 1 .. n + 1
  <2>1. s.log \in Seq(Events)
    BY <1>4 DEF AccountState
  <2> QED
    BY <1>2, <1>5, <2>1, LenProperties DEF WellScripted
<1> HIDE DEF s
<1>7. ASSUME ExpectFailure \in ToSet(Script(Test))
      PROVE  n = 1 /\ Failed(s)
  <2>1. PICK k \in DOMAIN Script(Test) : Script(Test)[k] = ExpectFailure
    BY <1>7 DEF ToSet
  <2>2. Script(Test)[k].do = "outcome" /\ n = 1
    BY <1>2, <2>1 DEF WellScripted
  <2>3. k < step
    BY <1>1, <1>2
  <2> QED
    BY <1>3, <2>2, <2>3
<1>8. ASSUME NEW k \in Asked(Test)
      PROVE  Answers(Test, s.log[Script(Test)[k].nonce + 2], Script(Test)[k])
  <2> DEFINE i == Script(Test)[k].nonce + 2
  <2>1. Script(Test)[k].nonce \in 0 .. n - 1
    BY <1>2 DEF WellScripted, Asked
  <2>2. i \in 2 .. n + 1 /\ i - 2 = Script(Test)[k].nonce
    BY <1>6, <2>1
  <2>3. PICK j \in Asked(Test) : Script(Test)[j].nonce = i - 2 /\ Tells(Test, s.log[i], Script(Test)[j])
    BY <1>5, <1>6, <2>2
  <2>4. j = k
    BY <1>2, <2>2, <2>3 DEF WellScripted, Asked
  <2>5. Tells(Test, s.log[i], Script(Test)[k])
    BY <2>3, <2>4
  <2>6. ASSUME ExpectFailure \in ToSet(Script(Test)), s.log[i].type = "Executed"
        PROVE  ~s.log[i].success
    <3>1. n = 1 /\ 2 \notin Succeeded(s)
      BY <1>7, <2>6 DEF Failed
    <3>2. i = 2 /\ i \in DOMAIN s.log
      BY <1>6, <2>1, <3>1
    <3> QED
      BY <2>6, <3>1, <3>2 DEF Succeeded
  <2> HIDE DEF i
  <2>7. Answers(Test, s.log[i], Script(Test)[k])
    BY <2>5, <2>6 DEF Answers, Tells
  <2> QED
    BY <2>7 DEF i
<1>9. ASSUME ExpectFailure \in ToSet(Script(Test))
      PROVE  s.delivered = <<>>
  <2>1. n = 1 /\ 2 \notin Succeeded(s)
    BY <1>7, <1>9 DEF Failed
  <2>2. 1 \notin Succeeded(s)
    BY <1>5 DEF Succeeded, FirstEvent
  <2>3. Succeeded(s) \subseteq {1, 2}
    BY <1>6, <2>1 DEF Succeeded
  <2>4. Succeeded(s) = {}
    BY <2>1, <2>2, <2>3
  <2> QED
    BY <1>5, <2>4
<1>10. Len(s.log) = 1 + n
  BY <1>5, <1>6
<1>11. Done(Test, s)
  BY <1>5, <1>8, <1>9, <1>10 DEF Done
<1> QED
  BY <1>11 DEF s

LEMMA LearnedStep ==
    ASSUME HarnessIInv, HarnessIInv', Phases, Learned, [HarnessNext]_allVars
    PROVE  Learned'
<1>1. Control'
  BY DEF HarnessIInv
<1>2. CASE Mine
  BY <1>2, MineLearned
<1>3. CASE Send \/ Enter \/ Revert \/ InnerCall \/ Ended \/ UNCHANGED allVars
  <2>1. ~Mine
    <3>1. Mine => tx = "entered" /\ tx' = "mined"
      BY DEF Mine
    <3>2. Send \/ Enter \/ Revert \/ InnerCall => tx' # "mined"
      BY DEF Send, Enter, Revert, InnerCall
    <3>3. Ended \/ UNCHANGED allVars => tx' = tx
      BY DEF Ended, allVars, harnessVars
    <3> QED
      BY <1>3, <3>1, <3>2, <3>3
  <2>2. Committed' = Committed
    BY <2>1, PhasesStep DEF HarnessIInv
  <2>3. UNCHANGED <<plan, step, receipt, results>>
    BY <1>3 DEF Send, Enter, Revert, InnerCall, Ended, allVars, harnessVars
  <2> QED
    BY <2>2, <2>3, SameLearned
<1>4. CASE CommandReturns
  <2>1. /\ Committed' = Committed
        /\ Doing(Commands \ {"deploy"}) /\ NextStep /\ UNCHANGED receipt
    BY <1>4, HarnessIdle DEF CommandReturns
  <2> QED
    BY <2>1, CommandLearned
<1>5. CASE DeployReturns
  <2>1. /\ Committed' = Committed
        /\ Doing({"deploy"}) /\ plan # <<>>
        /\ EndTest("fail") \/ (NextStep /\ UNCHANGED receipt)
    BY <1>5, HarnessIdle DEF DeployReturns, Doing
  <2>2. {"deploy"} \subseteq Commands
    BY DEF Commands
  <2> QED
    BY <1>1, <2>1, <2>2, CommandLearned, EndTestLearned
<1>6. CASE CommandFails \/ CheckFails
  <2>1. Committed' = Committed /\ plan # <<>> /\ EndTest("fail")
    BY <1>6, HarnessIdle DEF CommandFails, CheckFails, Doing
  <2> QED
    BY <1>1, <2>1, EndTestLearned
<1>7. CASE TestPasses
  <2>1. /\ Committed' = Committed /\ plan # <<>> /\ EndTest("pass")
        /\ Done(Test, Committed[Here])
    BY <1>7, HarnessIdle, PassedDone DEF TestPasses
  <2> QED
    BY <1>1, <2>1, EndTestLearned
<1>8. CASE CheckHolds
  BY <1>8, CheckLearned
<1>9. CASE MakeCtxFails
  <2>1. Committed' = Committed /\ UNCHANGED <<plan, step, receipt, results>>
    BY <1>9, HarnessIdle DEF MakeCtxFails
  <2> QED
    BY <2>1, SameLearned
<1>10. CASE Main
  <2>1. Committed' = Committed /\ UNCHANGED <<step, receipt, results>> /\ exit = "starting"
    BY <1>10, HarnessIdle DEF Main
  <2>2. plan = <<>>
    BY <2>1 DEF HarnessIInv, Control
  <2>3. step' = 1 /\ receipt' = <<>> /\ Len(receipt') \in Nat
    BY <2>1, <2>2 DEF HarnessIInv, Bookkeeping, Positions, Learned
  <2>4. ASSUME plan' # <<>>
        PROVE  /\ Len(Script(Test')) \in Nat \ {0}
               /\ DOMAIN Script(Test') = 1 .. Len(Script(Test'))
    BY <1>1, <2>4, ComingTest
  <2>5. plan' # <<>> =>
            /\ ~(step' > Len(Script(Test')))
            /\ \A k \in DOMAIN Script(Test') : ~(k < step')
    BY <2>3, <2>4
  <2>6. Len(receipt') = 0
    BY <2>3
  <2>7. \A t \in TestNames : results'[t] = "pass" => Done(t, Committed'[AccountOf(t)])
    BY <2>1 DEF Learned
  <2> QED
    BY <2>3, <2>5, <2>6, <2>7 DEF Learned
<1> QED
  BY <1>2, <1>3, <1>4, <1>5, <1>6, <1>7, <1>8, <1>9, <1>10 DEF HarnessNext

LEMMA PassInit == HarnessInit => PassIInv
<1> SUFFICES ASSUME HarnessInit PROVE PassIInv
  OBVIOUS
<1>1. HarnessIInv
  BY ControlInit, BookkeepingInit, InitIInv DEF HarnessInit, HarnessIInv
<1>2. plan = <<>> /\ receipt = <<>> /\ results = [t \in TestNames |-> "none"]
  BY DEF HarnessInit
<1>3. Len(receipt) \in Nat
  BY <1>2
<1>4. Learned
  BY <1>2, <1>3 DEF Learned
<1> QED
  BY <1>1, <1>4, PhasesInit DEF PassIInv

\* An account with a verdict on its test is out of the running transaction's reach.
LEMMA SettledVerdicts ==
    ASSUME HarnessIInv, Phases, NEW t \in TestNames, results[t] # "none"
    PROVE  chain[AccountOf(t)] = Committed[AccountOf(t)]
<1>1. CASE tx \in {"none", "mined", "reverted", "sent"}
  <2>1. stack = <<>> \/ stack = <<ExtFrame(Devnode, chain)>>
    BY <1>1 DEF Phases
  <2> QED
    BY <2>1 DEF Committed, ExtFrame
<1>2. CASE tx = "entered"
  <2>1. PICK base : base = Committed
    OBVIOUS
  <2>2. plan # <<>>
    BY <1>2 DEF HarnessIInv, Bookkeeping, Doing
  <2>3. Test \in TestNames /\ results[Test] = "none" /\ Here = AccountOf(Test)
    BY <2>2, ScriptFacts
  <2>4. t # Test /\ AccountOf(t) # Here /\ AccountOf(t) \in Accounts /\ Here \in Accounts
    BY <2>3, TestPlace DEF AccountOf
  <2>5. base \in [Accounts -> AccountState]
    BY <2>1 DEF Phases, ChainOnScript, ChainState
  <2>6. Started(base) = [base EXCEPT ![Here] = Begin(base[Here], Step.nonce)]
    BY DEF Started
  <2>7. CASE Back(base)
    BY <2>1, <2>4, <2>7 DEF Back
  <2>8. CASE InAccountCall(base)
    BY <2>1, <2>4, <2>5, <2>6, <2>8 DEF InAccountCall
  <2>9. CASE InCallee(base)
    <3>1. chain = Deliver(Started(base), Here, Step.call, Step.nonce)
      BY <2>9 DEF InCallee
    <3> QED
      BY <2>1, <2>4, <2>5, <2>6, <3>1 DEF Deliver
  <2> QED
    BY <1>2, <2>1, <2>7, <2>8, <2>9 DEF Phases
<1> QED
  BY <1>1, <1>2 DEF HarnessIInv, Bookkeeping

\* A test that passes has done on chain what it is about: no failed, lost or
\* reverted command, misread deploy output or silent success passes for that,
\* whatever cargo stylus prints and however many tests meet a fault.
THEOREM PassAlwaysMeansDone == HarnessSpec => []PassMeansDone
<1>1. PassIInv /\ [HarnessNext]_allVars => PassIInv'
  <2> SUFFICES ASSUME PassIInv, [HarnessNext]_allVars
               PROVE  PassIInv'
    OBVIOUS
  <2>1. HarnessIInv'
    BY ControlStep, BookkeepingStep, HarnessNextIInv DEF PassIInv, HarnessIInv
  <2>2. Phases' /\ Learned'
    BY <2>1, PhasesStep, LearnedStep DEF PassIInv, HarnessIInv
  <2> QED
    BY <2>1, <2>2 DEF PassIInv
<1>2. PassIInv => PassMeansDone
  <2> SUFFICES ASSUME PassIInv, NEW t \in TestNames, results[t] = "pass"
               PROVE  Done(t, chain[AccountOf(t)])
    BY DEF PassMeansDone, Done, Log, FirstEvent
  <2> QED
    BY SettledVerdicts DEF PassIInv, Learned
<1> QED
  BY PassInit, <1>1, <1>2, PTL DEF HarnessSpec

-----------------------------------------------------------------------------
(***************************************************************************)
(* What a test without a fault of its own runs into: nothing but its       *)
(* script.  Before each step, its timetable tells what the account's nonce *)
(* and owner are and how much it was sent.                                 *)
(***************************************************************************)

Timetable(t) ==
    CASE t = "happy_path" ->
            [nonce |-> <<0, 0, 0, 1, 1>>,
             key |-> <<1, 1, 1, 1, 1>>,
             money |-> <<0, 0, Ether, Ether, Ether>>]
      [] t = "reverting_target_consumes_nonce" ->
            [nonce |-> <<0, 0, 1, 1, 1>>,
             key |-> <<1, 1, 1, 1, 1>>,
             money |-> <<0, 0, 0, 0, 0>>]
      [] t = "value_exceeds_balance" ->
            [nonce |-> <<0, 0, 0, 0, 1, 1, 1, 1>>,
             key |-> <<1, 1, 1, 1, 1, 1, 1, 1>>,
             money |-> <<0, 0, 1, 1, 1, 1, 1, 1>>]
      [] t = "rotate_owner" ->
            [nonce |-> <<0, 0, 1, 1, 1>>,
             key |-> <<1, 1, 2, 2, 2>>,
             money |-> <<0, 0, 0, 0, 0>>]
      [] t = "nonce_monotonicity" ->
            [nonce |-> <<0, 0, 0, 1, 1, 2, 2, 3, 3>>,
             key |-> <<1, 1, 1, 1, 1, 2, 2, 2, 2>>,
             money |-> <<0, 0, Ether, Ether, Ether, Ether, Ether, Ether, Ether>>]

MustFail(t) == ExpectFailure \in ToSet(Script(t))

\* Timetable tt has step k of test t right, before and after it.
InTime(t, tt, k) ==
    LET s == Script(t)[k]
    IN  /\ s.do = "deploy" <=> k = 1
        /\ s.do \in {"execute", "rotate"} => s.nonce = tt.nonce[k] /\ s.key = tt.key[k]
        /\ s.do = "nonce" => s.nonce = tt.nonce[k]
        /\ s.do = "owner" => s.key = tt.key[k]
        /\ s.do = "balance" => MustFail(t) /\ s.value = tt.money[k]
        /\ s.do = "outcome" => Script(t)[k - 1].do = "execute"
        /\ s.do = "execute" /\ MustFail(t) =>
              \/ s.call.to = "ext" /\ s.call.value \in Nat /\ s.call.value > tt.money[k]
              \/ s.call.to = "self" /\ s.call.data = "unknown"
        /\ tt.nonce[k + 1] =
              IF s.do \in {"execute", "rotate"} THEN tt.nonce[k] + 1 ELSE tt.nonce[k]
        /\ tt.key[k + 1] = IF s.do = "rotate" THEN s.new ELSE tt.key[k]
        /\ tt.money[k + 1] = IF s.do = "fund" THEN tt.money[k] + s.value ELSE tt.money[k]

Timed(t, tt) ==
    /\ tt.nonce[1] = 0 /\ tt.key[1] = 1 /\ tt.money[1] = 0
    /\ \A k \in DOMAIN Script(t) :
          tt.nonce[k] \in Nat /\ tt.key[k] \in {1, 2} /\ tt.money[k] \in Nat /\ InTime(t, tt, k)

\* State s of t's account is as it has to be before step k.
At(t, s, k) ==
    /\ k = 1 => s.owner = NoOwner
    /\ k # 1 => /\ s.owner = KeyPair(t, Timetable(t).key[k])
                /\ s.nonce = Timetable(t).nonce[k]
    /\ MustFail(t) => s.delivered = <<>>

\* The account logged one event more, of a call that failed.
LoggedFailure(before, s) ==
    /\ Len(s.log) = Len(before.log) + 1
    /\ s.log[Len(s.log)].type = "Executed"
    /\ ~s.log[Len(s.log)].success

\* The current test is where its timetable says.
OnTime ==
    plan # <<>> /\ Test \notin faulty =>
        /\ tx # "reverted"
        /\ step > 1 => acct = Test
        /\ At(Test, Committed[Here], IF tx = "mined" THEN step + 1 ELSE step)
        /\ funded[Test] =
              Timetable(Test).money[IF tx \in {"entered", "mined"} THEN step + 1 ELSE step]
        /\ tx = "entered" /\ stack = <<ExtFrame(Devnode, Committed)>> =>
              /\ At(Test, chain[Here], step + 1)
              /\ Step.do = "execute" /\ MustFail(Test) =>
                    LoggedFailure(Committed[Here], chain[Here])
        /\ tx = "mined" /\ Step.do = "execute" /\ MustFail(Test) =>
              ParseExecutedOutcome(receipt) = "failure"
        /\ Doing({"outcome"}) => ParseExecutedOutcome(receipt) = "failure"

\* Tests to come find nothing of theirs on the chain.
Untouched ==
    \A t \in TestNames :
        results[t] = "none" /\ (plan # <<>> => t # Test) =>
            Committed[AccountOf(t)].owner = NoOwner /\ funded[t] = 0

IsolatedIInv == HarnessIInv /\ Phases /\ OnTime /\ Untouched /\ Isolated

-----------------------------------------------------------------------------
(* The timetables. *)

LEMMA HappyPathTimes ==
    ASSUME NEW t, t = "happy_path"
    PROVE  Timed(t, Timetable(t))
<1> DEFINE tt == Timetable(t)
<1>1. Script(t) = HappyPath
  BY DEF Script
<1>2. DOMAIN HappyPath = {1, 2, 3, 4}
  BY DEF HappyPath
<1>3. /\ HappyPath[1].do = "deploy"
      /\ HappyPath[2].do = "fund" /\ HappyPath[2].value = Ether
      /\ HappyPath[3].do = "execute" /\ HappyPath[3].nonce = 0 /\ HappyPath[3].key = 1
      /\ HappyPath[4].do = "nonce" /\ HappyPath[4].nonce = 1
  BY DEF HappyPath, Deploy, Fund, SendExecute, SendRotate, ExpectNonce, ExpectOwner,
         ExpectBalance, ExpectFailure, ToDevWallet, ToFallback
<1>4. /\ tt.nonce[1] = 0 /\ tt.nonce[2] = 0 /\ tt.nonce[3] = 0 /\ tt.nonce[4] = 1
      /\ tt.nonce[5] = 1
      /\ tt.key[1] = 1 /\ tt.key[2] = 1 /\ tt.key[3] = 1 /\ tt.key[4] = 1
      /\ tt.key[5] = 1
      /\ tt.money[1] = 0 /\ tt.money[2] = 0 /\ tt.money[3] = 10 /\ tt.money[4] = 10
      /\ tt.money[5] = 10
  BY DEF Timetable, Ether
<1> HIDE DEF tt
<1>5. ~MustFail(t)
  BY <1>1, <1>2, <1>3 DEF MustFail, ToSet, ExpectFailure
<1>6. ASSUME NEW k \in {1, 2, 3, 4}
      PROVE  /\ tt.nonce[k] \in Nat /\ tt.key[k] \in {1, 2} /\ tt.money[k] \in Nat
             /\ InTime(t, tt, k)
  <2>1. CASE k = 1
    BY <1>1, <1>3, <1>4, <1>5, <2>1 DEF InTime
  <2>2. CASE k = 2
    BY <1>1, <1>3, <1>4, <1>5, <2>2 DEF InTime, Ether
  <2>3. CASE k = 3
    BY <1>1, <1>3, <1>4, <1>5, <2>3 DEF InTime
  <2>4. CASE k = 4
    BY <1>1, <1>3, <1>4, <1>5, <2>4 DEF InTime
  <2> QED
    BY <2>1, <2>2, <2>3, <2>4
<1> QED
  BY <1>1, <1>2, <1>4, <1>6 DEF Timed, tt

LEMMA RevertingTargetTimes ==
    ASSUME NEW t, t = "reverting_target_consumes_nonce"
    PROVE  Timed(t, Timetable(t))
<1> DEFINE tt == Timetable(t)
<1>1. Script(t) = RevertingTarget
  BY DEF Script
<1>2. DOMAIN RevertingTarget = {1, 2, 3, 4}
  BY DEF RevertingTarget
<1>3. /\ RevertingTarget[1].do = "deploy"
      /\ RevertingTarget[2].do = "execute" /\ RevertingTarget[2].nonce = 0 /\ RevertingTarget[2].key = 1
      /\ RevertingTarget[2].call.to = "self" /\ RevertingTarget[2].call.data = "unknown"
      /\ RevertingTarget[3].do = "outcome" /\ RevertingTarget[3] = ExpectFailure
      /\ RevertingTarget[4].do = "nonce" /\ RevertingTarget[4].nonce = 1
  BY DEF RevertingTarget, Deploy, Fund, SendExecute, SendRotate, ExpectNonce, ExpectOwner,
         ExpectBalance, ExpectFailure, ToDevWallet, ToFallback
<1>4. /\ tt.nonce[1] = 0 /\ tt.nonce[2] = 0 /\ tt.nonce[3] = 1 /\ tt.nonce[4] = 1
      /\ tt.nonce[5] = 1
      /\ tt.key[1] = 1 /\ tt.key[2] = 1 /\ tt.key[3] = 1 /\ tt.key[4] = 1
      /\ tt.key[5] = 1
      /\ tt.money[1] = 0 /\ tt.money[2] = 0 /\ tt.money[3] = 0 /\ tt.money[4] = 0
      /\ tt.money[5] = 0
  BY DEF Timetable, Ether
<1> HIDE DEF tt
<1>5. MustFail(t)
  BY <1>1, <1>2, <1>3 DEF MustFail, ToSet
<1>6. ASSUME NEW k \in {1, 2, 3, 4}
      PROVE  /\ tt.nonce[k] \in Nat /\ tt.key[k] \in {1, 2} /\ tt.money[k] \in Nat
             /\ InTime(t, tt, k)
  <2>1. CASE k = 1
    BY <1>1, <1>3, <1>4, <1>5, <2>1 DEF InTime
  <2>2. CASE k = 2
    BY <1>1, <1>3, <1>4, <1>5, <2>2 DEF InTime
  <2>3. CASE k = 3
    BY <1>1, <1>3, <1>4, <1>5, <2>3 DEF InTime
  <2>4. CASE k = 4
    BY <1>1, <1>3, <1>4, <1>5, <2>4 DEF InTime
  <2> QED
    BY <2>1, <2>2, <2>3, <2>4
<1> QED
  BY <1>1, <1>2, <1>4, <1>6 DEF Timed, tt

LEMMA ValueExceedsBalanceTimes ==
    ASSUME NEW t, t = "value_exceeds_balance"
    PROVE  Timed(t, Timetable(t))
<1> DEFINE tt == Timetable(t)
<1>1. Script(t) = ValueExceedsBalance
  BY DEF Script
<1>2. DOMAIN ValueExceedsBalance = {1, 2, 3, 4, 5, 6, 7}
  BY DEF ValueExceedsBalance
<1>3. /\ ValueExceedsBalance[1].do = "deploy"
      /\ ValueExceedsBalance[2].do = "fund" /\ ValueExceedsBalance[2].value = 1
      /\ ValueExceedsBalance[3].do = "balance" /\ ValueExceedsBalance[3].value = 1
      /\ ValueExceedsBalance[4].do = "execute" /\ ValueExceedsBalance[4].nonce = 0 /\ ValueExceedsBalance[4].key = 1
      /\ ValueExceedsBalance[4].call.to = "ext" /\ ValueExceedsBalance[4].call.value = 2
      /\ ValueExceedsBalance[5].do = "outcome" /\ ValueExceedsBalance[5] = ExpectFailure
      /\ ValueExceedsBalance[6].do = "balance" /\ ValueExceedsBalance[6].value = 1
      /\ ValueExceedsBalance[7].do = "nonce" /\ ValueExceedsBalance[7].nonce = 1
  BY DEF ValueExceedsBalance, Deploy, Fund, SendExecute, SendRotate, ExpectNonce, ExpectOwner,
         ExpectBalance, ExpectFailure, ToDevWallet, ToFallback
<1>4. /\ tt.nonce[1] = 0 /\ tt.nonce[2] = 0 /\ tt.nonce[3] = 0 /\ tt.nonce[4] = 0
      /\ tt.nonce[5] = 1 /\ tt.nonce[6] = 1 /\ tt.nonce[7] = 1 /\ tt.nonce[8] = 1
      /\ tt.key[1] = 1 /\ tt.key[2] = 1 /\ tt.key[3] = 1 /\ tt.key[4] = 1
      /\ tt.key[5] = 1 /\ tt.key[6] = 1 /\ tt.key[7] = 1 /\ tt.key[8] = 1
      /\ tt.money[1] = 0 /\ tt.money[2] = 0 /\ tt.money[3] = 1 /\ tt.money[4] = 1
      /\ tt.money[5] = 1 /\ tt.money[6] = 1 /\ tt.money[7] = 1 /\ tt.money[8] = 1
  BY DEF Timetable, Ether
<1> HIDE DEF tt
<1>5. MustFail(t)
  BY <1>1, <1>2, <1>3 DEF MustFail, ToSet
<1>6. ASSUME NEW k \in {1, 2, 3, 4, 5, 6, 7}
      PROVE  /\ tt.nonce[k] \in Nat /\ tt.key[k] \in {1, 2} /\ tt.money[k] \in Nat
             /\ InTime(t, tt, k)
  <2>1. CASE k = 1
    BY <1>1, <1>3, <1>4, <1>5, <2>1 DEF InTime
  <2>2. CASE k = 2
    BY <1>1, <1>3, <1>4, <1>5, <2>2 DEF InTime
  <2>3. CASE k = 3
    BY <1>1, <1>3, <1>4, <1>5, <2>3 DEF InTime
  <2>4. CASE k = 4
    BY <1>1, <1>3, <1>4, <1>5, <2>4 DEF InTime
  <2>5. CASE k = 5
    BY <1>1, <1>3, <1>4, <1>5, <2>5 DEF InTime
  <2>6. CASE k = 6
    BY <1>1, <1>3, <1>4, <1>5, <2>6 DEF InTime
  <2>7. CASE k = 7
    BY <1>1, <1>3, <1>4, <1>5, <2>7 DEF InTime
  <2> QED
    BY <2>1, <2>2, <2>3, <2>4, <2>5, <2>6, <2>7
<1> QED
  BY <1>1, <1>2, <1>4, <1>6 DEF Timed, tt

LEMMA RotateOwnerTestTimes ==
    ASSUME NEW t, t = "rotate_owner"
    PROVE  Timed(t, Timetable(t))
<1> DEFINE tt == Timetable(t)
<1>1. Script(t) = RotateOwnerTest
  BY DEF Script
<1>2. DOMAIN RotateOwnerTest = {1, 2, 3, 4}
  BY DEF RotateOwnerTest
<1>3. /\ RotateOwnerTest[1].do = "deploy"
      /\ RotateOwnerTest[2].do = "rotate"
      /\ RotateOwnerTest[2].new = 2 /\ RotateOwnerTest[2].nonce = 0 /\ RotateOwnerTest[2].key = 1
      /\ RotateOwnerTest[3].do = "owner" /\ RotateOwnerTest[3].key = 2
      /\ RotateOwnerTest[4].do = "nonce" /\ RotateOwnerTest[4].nonce = 1
  BY DEF RotateOwnerTest, Deploy, Fund, SendExecute, SendRotate, ExpectNonce, ExpectOwner,
         ExpectBalance, ExpectFailure, ToDevWallet, ToFallback
<1>4. /\ tt.nonce[1] = 0 /\ tt.nonce[2] = 0 /\ tt.nonce[3] = 1 /\ tt.nonce[4] = 1
      /\ tt.nonce[5] = 1
      /\ tt.key[1] = 1 /\ tt.key[2] = 1 /\ tt.key[3] = 2 /\ tt.key[4] = 2
      /\ tt.key[5] = 2
      /\ tt.money[1] = 0 /\ tt.money[2] = 0 /\ tt.money[3] = 0 /\ tt.money[4] = 0
      /\ tt.money[5] = 0
  BY DEF Timetable, Ether
<1> HIDE DEF tt
<1>5. ~MustFail(t)
  BY <1>1, <1>2, <1>3 DEF MustFail, ToSet, ExpectFailure
<1>6. ASSUME NEW k \in {1, 2, 3, 4}
      PROVE  /\ tt.nonce[k] \in Nat /\ tt.key[k] \in {1, 2} /\ tt.money[k] \in Nat
             /\ InTime(t, tt, k)
  <2>1. CASE k = 1
    BY <1>1, <1>3, <1>4, <1>5, <2>1 DEF InTime
  <2>2. CASE k = 2
    BY <1>1, <1>3, <1>4, <1>5, <2>2 DEF InTime
  <2>3. CASE k = 3
    BY <1>1, <1>3, <1>4, <1>5, <2>3 DEF InTime
  <2>4. CASE k = 4
    BY <1>1, <1>3, <1>4, <1>5, <2>4 DEF InTime
  <2> QED
    BY <2>1, <2>2, <2>3, <2>4
<1> QED
  BY <1>1, <1>2, <1>4, <1>6 DEF Timed, tt

LEMMA NonceMonotonicityTimes ==
    ASSUME NEW t, t = "nonce_monotonicity"
    PROVE  Timed(t, Timetable(t))
<1> DEFINE tt == Timetable(t)
<1>1. Script(t) = NonceMonotonicity
  BY DEF Script
<1>2. DOMAIN NonceMonotonicity = {1, 2, 3, 4, 5, 6, 7, 8}
  BY DEF NonceMonotonicity
<1>3. /\ NonceMonotonicity[1].do = "deploy"
      /\ NonceMonotonicity[2].do = "fund" /\ NonceMonotonicity[2].value = Ether
      /\ NonceMonotonicity[3].do = "execute" /\ NonceMonotonicity[3].nonce = 0 /\ NonceMonotonicity[3].key = 1
      /\ NonceMonotonicity[4].do = "nonce" /\ NonceMonotonicity[4].nonce = 1
      /\ NonceMonotonicity[5].do = "rotate"
      /\ NonceMonotonicity[5].new = 2 /\ NonceMonotonicity[5].nonce = 1 /\ NonceMonotonicity[5].key = 1
      /\ NonceMonotonicity[6].do = "nonce" /\ NonceMonotonicity[6].nonce = 2
      /\ NonceMonotonicity[7].do = "execute" /\ NonceMonotonicity[7].nonce = 2 /\ NonceMonotonicity[7].key = 2
      /\ NonceMonotonicity[8].do = "nonce" /\ NonceMonotonicity[8].nonce = 3
  BY DEF NonceMonotonicity, Deploy, Fund, SendExecute, SendRotate, ExpectNonce, ExpectOwner,
         ExpectBalance, ExpectFailure, ToDevWallet, ToFallback
<1>4. /\ tt.nonce[1] = 0 /\ tt.nonce[2] = 0 /\ tt.nonce[3] = 0 /\ tt.nonce[4] = 1
      /\ tt.nonce[5] = 1 /\ tt.nonce[6] = 2 /\ tt.nonce[7] = 2 /\ tt.nonce[8] = 3
      /\ tt.nonce[9] = 3
      /\ tt.key[1] = 1 /\ tt.key[2] = 1 /\ tt.key[3] = 1 /\ tt.key[4] = 1
      /\ tt.key[5] = 1 /\ tt.key[6] = 2 /\ tt.key[7] = 2 /\ tt.key[8] = 2
      /\ tt.key[9] = 2
      /\ tt.money[1] = 0 /\ tt.money[2] = 0 /\ tt.money[3] = 10 /\ tt.money[4] = 10
      /\ tt.money[5] = 10 /\ tt.money[6] = 10 /\ tt.money[7] = 10 /\ tt.money[8] = 10
      /\ tt.money[9] = 10
  BY DEF Timetable, Ether
<1> HIDE DEF tt
<1>5. ~MustFail(t)
  BY <1>1, <1>2, <1>3 DEF MustFail, ToSet, ExpectFailure
<1>6. ASSUME NEW k \in {1, 2, 3, 4, 5, 6, 7, 8}
      PROVE  /\ tt.nonce[k] \in Nat /\ tt.key[k] \in {1, 2} /\ tt.money[k] \in Nat
             /\ InTime(t, tt, k)
  <2>1. CASE k = 1
    BY <1>1, <1>3, <1>4, <1>5, <2>1 DEF InTime
  <2>2. CASE k = 2
    BY <1>1, <1>3, <1>4, <1>5, <2>2 DEF InTime, Ether
  <2>3. CASE k = 3
    BY <1>1, <1>3, <1>4, <1>5, <2>3 DEF InTime
  <2>4. CASE k = 4
    BY <1>1, <1>3, <1>4, <1>5, <2>4 DEF InTime
  <2>5. CASE k = 5
    BY <1>1, <1>3, <1>4, <1>5, <2>5 DEF InTime
  <2>6. CASE k = 6
    BY <1>1, <1>3, <1>4, <1>5, <2>6 DEF InTime
  <2>7. CASE k = 7
    BY <1>1, <1>3, <1>4, <1>5, <2>7 DEF InTime
  <2>8. CASE k = 8
    BY <1>1, <1>3, <1>4, <1>5, <2>8 DEF InTime
  <2> QED
    BY <2>1, <2>2, <2>3, <2>4, <2>5, <2>6, <2>7, <2>8
<1> QED
  BY <1>1, <1>2, <1>4, <1>6 DEF Timed, tt

LEMMA Timetables ==
    ASSUME NEW t \in TestNames
    PROVE  Timed(t, Timetable(t))
BY NamedTests, HappyPathTimes, RevertingTargetTimes, ValueExceedsBalanceTimes,
   RotateOwnerTestTimes, NonceMonotonicityTimes

-----------------------------------------------------------------------------
(* What the harness reads: printed text, receipts, balances. *)

LEMMA BoundedIsSeq ==
    ASSUME NEW S, NEW n \in Nat, NEW s \in BoundedSeq(S, n)
    PROVE  s \in Seq(S) /\ Len(s) \in Nat /\ DOMAIN s = 1 .. Len(s)
<1>1. PICK m \in 0 .. n : s \in [1 .. m -> S]
  BY DEF BoundedSeq, SeqOf
<1>2. s \in Seq(S)
  BY <1>1, SeqDef
<1> QED
  BY <1>2, LenProperties

LEMMA FirstWord ==
    ASSUME NEW line \in Line
    PROVE  FirstAddressToken(line) \in {"none", "account", "deployer"}
<1> DEFINE I == {i \in 1 .. Len(line.words) : IsAddress(line.words[i])}
           first == IF I # {} THEN Min(I) ELSE 0
<1>1. line.words \in BoundedSeq({"account", "deployer", "hash"}, MaxWords)
  BY DEF Line
<1>2. Len(line.words) \in Nat
  BY <1>1, OutputAssumption, BoundedIsSeq
<1>3. first # 0 => first \in I
  BY <1>2, Extremes
<1>4. SelectInSeq(line.words, IsAddress) = first
  BY DEF SelectInSeq
<1>5. FirstAddressToken(line) = IF line.coloured \/ first = 0 THEN "none" ELSE line.words[first]
  BY <1>4 DEF FirstAddressToken
<1> QED
  BY <1>3, <1>5 DEF IsAddress

\* From any output that can be read, deploy_fresh takes the account's address.
LEMMA ReadableAddress ==
    ASSUME NEW output \in Outputs, Readable(output)
    PROVE  DeployedAddress(output) = "account"
<1> DEFINE n == Len(output)
           lines == [i \in DOMAIN output |-> StripAnsi(output[i])]
           word(i) == FirstAddressToken(lines[i])
           A == {i \in 1 .. Len(lines) : lines[i].announces /\ word(i) # "none"}
           B == {i \in 1 .. Len(lines) : NotDeployer(word(i))}
           announced == IF A # {} THEN Min(A) ELSE 0
           other == IF B # {} THEN Min(B) ELSE 0
<1>1. /\ n \in Nat /\ DOMAIN output = 1 .. n
      /\ \A i \in 1 .. n : output[i] \in Line
  <2>1. output \in Seq(Line) /\ n \in Nat /\ DOMAIN output = 1 .. n
    BY OutputAssumption, BoundedIsSeq DEF Outputs
  <2> QED
    BY <2>1, ElementOfSeq
<1>2. /\ Len(lines) = n
      /\ \A i \in 1 .. n : lines[i] = StripAnsi(output[i])
  BY <1>1
<1> HIDE DEF lines
<1>3. \A i \in 1 .. n : /\ lines[i] \in Line
                        /\ lines[i].announces = output[i].announces
  BY <1>1, <1>2 DEF StripAnsi, Line
<1>4. \A i \in 1 .. n : word(i) \in {"none", "account", "deployer"}
  BY <1>3, FirstWord
<1>5. /\ \A i \in 1 .. n : lines[i].announces => word(i) \in {"account", "none"}
      /\ \E i \in 1 .. n : word(i) = "account"
  BY <1>1, <1>2, <1>3 DEF Readable, StripAnsi
<1>6. DeployedAddress(output) = ExtractDeployedAddress(lines)
  BY DEF DeployedAddress, lines
<1>7. /\ SelectInSeq(lines, LAMBDA l : l.announces /\ FirstAddressToken(l) # "none") = announced
      /\ SelectInSeq(lines, LAMBDA l : NotDeployer(FirstAddressToken(l))) = other
  BY DEF SelectInSeq
<1>8. ExtractDeployedAddress(lines) =
          CASE announced # 0 -> word(announced)
            [] announced = 0 /\ other # 0 -> word(other)
            [] announced = 0 /\ other = 0 -> "none"
  BY <1>7 DEF ExtractDeployedAddress
<1>9. A \in SUBSET (1 .. n) /\ B \in SUBSET (1 .. n) /\ B # {}
  BY <1>2, <1>5 DEF NotDeployer
<1>10. /\ announced # 0 => announced \in A
       /\ other \in B /\ other # 0
  <2>1. A # {} => Min(A) \in A
    BY <1>1, <1>9, Extremes
  <2>2. Min(B) \in B
    BY <1>1, <1>9, Extremes
  <2>3. Min(B) # 0
    BY <1>1, <1>9, <2>2
  <2> QED
    BY <1>9, <2>1, <2>2, <2>3
<1> HIDE DEF announced, other
<1>11. CASE announced # 0
  <2>1. announced \in 1 .. n /\ lines[announced].announces /\ word(announced) # "none"
    BY <1>2, <1>10, <1>11
  <2> HIDE DEF word
  <2> QED
    BY <1>5, <1>6, <1>8, <1>11, <2>1
<1>12. CASE announced = 0
  <2>1. other \in 1 .. n /\ NotDeployer(word(other))
    BY <1>2, <1>10
  <2> HIDE DEF word
  <2> QED
    BY <1>4, <1>6, <1>8, <1>10, <1>12, <2>1 DEF NotDeployer
<1> QED
  BY <1>11, <1>12

\* A receipt with one event, of a call that failed.
LEMMA ParsedOne ==
    ASSUME NEW logs, Len(logs) = 1, NEW value, NEW n, NEW success, ~success,
           NEW returned \in {0, 4}, logs[1] = ExecutedLog(value, n, success, returned)
    PROVE  ParseExecutedOutcome(logs) = "failure"
<1> DEFINE I == {i \in 1 .. Len(logs) : logs[i].topic = "Executed"}
           first == IF I # {} THEN Min(I) ELSE 0
           pad == ((returned + 32 - 1) \div 32) * 32
<1>1. PICK entry : entry = logs[1]
  OBVIOUS
<1>2. returned \in {0, 4} /\ pad \in {0, 32} /\ returned <= pad
  <2>1. (0 + 32 - 1) \div 32 = 0 /\ (4 + 32 - 1) \div 32 = 1
    OBVIOUS
  <2>2. CASE returned = 0
    BY <2>1, <2>2
  <2>3. CASE returned = 4
    BY <2>1, <2>3
  <2> QED
    BY <2>2, <2>3
<1>3. /\ entry.topic = "Executed"
      /\ entry.data = <<value, n, 0, 128, returned>>
      /\ entry.bytes = 160 + pad
  BY <1>1 DEF ExecutedLog, HeaderBytes, OffsetWord, AbiWord
<1> HIDE DEF pad
<1>4. WellShaped(entry) /\ ~SuccessOf(entry.data)
  <2>1. entry.data[3] = 0 /\ entry.data[4] = 128 /\ entry.data[5] = returned
    BY <1>3
  <2>2. entry.bytes >= 160 /\ 160 + returned <= entry.bytes
    BY <1>2, <1>3
  <2> QED
    BY <2>1, <2>2 DEF WellShaped, SuccessOf, HeaderBytes, OffsetWord, AbiWord
<1>5. I = {1}
  <2>1. \A i : i \in 1 .. 1 <=> i = 1
    OBVIOUS
  <2>2. I = {i \in 1 .. 1 : logs[i].topic = "Executed"}
    OBVIOUS
  <2>3. logs[1].topic = "Executed"
    BY <1>1, <1>3
  <2> QED
    BY ONLY <2>1, <2>2, <2>3
<1>6. Min(I) \in I
  BY <1>5, Extremes
<1>7. first = 1
  BY <1>5, <1>6
<1>8. SelectInSeq(logs, LAMBDA log : log.topic = "Executed") = first
  BY DEF SelectInSeq
<1>9. ParseExecutedOutcome(logs) =
          IF first # 0 /\ WellShaped(logs[first])
          THEN IF SuccessOf(logs[first].data) THEN "success" ELSE "failure"
          ELSE "error"
  BY <1>8 DEF ParseExecutedOutcome
<1> HIDE DEF first
<1> QED
  BY <1>1, <1>4, <1>7, <1>9

\* An account none of whose calls took effect still has all that it was sent.
LEMMA NothingPaid ==
    ASSUME NEW w, NEW a, w[a].delivered = <<>>, funded[a.addr] \in Nat
    PROVE  Balance(w, a) = funded[a.addr]
<1> DEFINE paid == w[a].delivered
           any(s) == CHOOSE x \in s : TRUE
           Sums(g) == g = [s \in SUBSET (DOMAIN paid) |->
                             IF s = {} THEN 0 ELSE paid[any(s)].call.value + g[s \ {any(s)}]]
           sums == CHOOSE g : Sums(g)
<1>1. Balance(w, a) = funded[a.addr] - sums[DOMAIN paid]
  BY DEF Balance, FoldSeq, FoldFunction, FoldFunctionOnSet, MapThenFoldSet
<1>2. DOMAIN paid = {}
  OBVIOUS
<1> HIDE DEF paid, any
<1>3. SUBSET (DOMAIN paid) = {{}}
  BY <1>2
<1>4. Sums([s \in {{}} |-> 0])
  BY <1>3
<1>5. Sums(sums)
  <2> HIDE DEF Sums
  <2> QED
    BY <1>4
<1>6. sums[{}] = 0
  <2> HIDE DEF sums
  <2> QED
    BY <1>3, <1>5
<1> HIDE DEF sums
<1>7. Balance(w, a) = funded[a.addr] - 0
  BY <1>1, <1>2, <1>6
<1> QED
  BY <1>7

-----------------------------------------------------------------------------
(* The current test, as its timetable has it. *)

LEMMA NowTimes ==
    ASSUME HarnessIInv, NEW kinds, Doing(kinds)
    PROVE  /\ Test \in TestNames /\ plan # <<>>
           /\ step \in Nat \ {0} /\ step \in DOMAIN Script(Test)
           /\ Step = Script(Test)[step] /\ Step.do \in kinds
           /\ Timetable(Test).nonce[step] \in Nat
           /\ Timetable(Test).key[step] \in {1, 2}
           /\ Timetable(Test).money[step] \in Nat
           /\ InTime(Test, Timetable(Test), step)
<1>1. /\ Test \in TestNames /\ plan # <<>>
      /\ step \in 1 .. Len(Script(Test)) /\ step \in DOMAIN Script(Test)
      /\ Step = Script(Test)[step] /\ Step.do \in kinds
      /\ Len(Script(Test)) \in Nat
  BY CurrentStep DEF HarnessIInv
<1>2. Timed(Test, Timetable(Test))
  BY <1>1, Timetables
<1> QED
  BY <1>1, <1>2 DEF Timed

\* A test without a fault holds its account from its second step on.
LEMMA AtHome ==
    ASSUME HarnessIInv, Phases, OnTime, NEW kinds, Doing(kinds), Test \notin faulty,
           tx \in {"none", "sent"}, Step.do # "deploy"
    PROVE  /\ Committed = chain
           /\ acct = Test /\ Acct = Here /\ HasCode
           /\ chain[Here].owner = KeyPair(Test, Timetable(Test).key[step])
           /\ chain[Here].nonce = Timetable(Test).nonce[step]
           /\ MustFail(Test) => chain[Here].delivered = <<>>
<1>1. /\ Test \in TestNames /\ plan # <<>> /\ step \in Nat /\ step # 0
      /\ Timetable(Test).key[step] \in {1, 2}
      /\ InTime(Test, Timetable(Test), step) /\ Step = Script(Test)[step]
  BY NowTimes
<1>2. step # 1 /\ step > 1
  BY <1>1 DEF InTime
<1>3. stack = <<>> \/ stack = <<ExtFrame(Devnode, chain)>>
  BY DEF Phases
<1>4. Committed = chain
  BY <1>3 DEF Committed, ExtFrame
<1>5. acct = Test /\ At(Test, chain[Here], step)
  BY <1>1, <1>2, <1>4 DEF OnTime
<1>6. /\ chain[Here].owner = KeyPair(Test, Timetable(Test).key[step])
      /\ chain[Here].nonce = Timetable(Test).nonce[step]
      /\ MustFail(Test) => chain[Here].delivered = <<>>
  BY <1>2, <1>5 DEF At
<1>7. KeyPair(Test, Timetable(Test).key[step]) # NoOwner
  BY <1>1, TestPlace, ConstantsAssumption
<1>8. Acct = Here /\ HasCode
  BY <1>1, <1>5, <1>6, <1>7 DEF Acct, Here, HasCode
<1> QED
  BY <1>4, <1>5, <1>6, <1>8

\* Its account accepts what it is sent: the harness's digests are the contract's.
LEMMA NotRejected ==
    ASSUME HarnessIInv, Phases, OnTime, tx = "sent", Test \notin faulty
    PROVE  ~Rejected(Step)
<1> SUFFICES ASSUME Step.do \in {"execute", "rotate"}
             PROVE  Accepts(chain[Acct], AccountDigest(Step), Step.nonce, Signature(Step))
  BY DEF Rejected
<1>1. Doing(Commands)
  BY DEF HarnessIInv, Bookkeeping
<1>2. /\ acct = Test /\ Acct = Here
      /\ chain[Here].owner = KeyPair(Test, Timetable(Test).key[step])
      /\ chain[Here].nonce = Timetable(Test).nonce[step]
  BY <1>1, AtHome
<1>3. Step.nonce = Timetable(Test).nonce[step] /\ Step.key = Timetable(Test).key[step]
  BY <1>1, NowTimes DEF InTime
<1>4. AccountDigest(Step) = Digest(Step)
  BY <1>2 DEF AccountDigest, Digest, HarnessExecuteHash, HarnessRotateHash, HarnessEnvelope,
              ExecuteHash, RotateHash, Envelope, DomainSeparator, Here
<1>5. ~chain[Here].inCall
  <2>1. stack = <<ExtFrame(Devnode, chain)>> /\ GuardBelow(chain, stack, Len(stack))
    BY DEF Phases, HarnessIInv, IInv, RunOK
  <2>2. Len(stack) = 1 /\ stack[1] = ExtFrame(Devnode, chain)
    BY <2>1, StackedOne
  <2>3. Here \in Accounts
    BY <1>1, HeldAccount DEF HarnessIInv, Doing
  <2>4. \A i \in 1 .. 1 : ~Owns(stack[i], Here)
    BY <2>2 DEF Owns, ExtFrame
  <2> QED
    BY <2>1, <2>2, <2>3, <2>4 DEF GuardBelow
<1> QED
  BY <1>2, <1>3, <1>4, <1>5 DEF Accepts, Unlocked, ValidateAuthorisedHash, ValidSignature,
                                PrecompileVerifies, Signature

\* Within a step of a script the test, its account and its command stay what they are.
LEMMA SameStep ==
    ASSUME UNCHANGED <<plan, step>>
    PROVE  Test' = Test /\ Here' = Here /\ Step' = Step
BY DEF Test, Here, Step

\* What is to be shown of a transaction under way.
LEMMA EnteredOnTime ==
    ASSUME HarnessIInv, OnTime, Test \notin faulty, Doing(Commands),
           UNCHANGED <<exit, plan, step, acct>>, Committed' = Committed,
           tx \in {"sent", "entered"}, tx' = "entered",
           funded'[Test] = Timetable(Test).money[step + 1],
           stack' = <<ExtFrame(Devnode, Committed)>> =>
               /\ At(Test, chain'[Here], step + 1)
               /\ Step.do = "execute" /\ MustFail(Test) =>
                     LoggedFailure(Committed[Here], chain'[Here])
    PROVE  OnTime'
<1>1. Test' = Test /\ Here' = Here /\ Step' = Step
  BY SameStep
<1>2. plan # <<>> /\ Step.do \in Commands
  BY DEF Doing
<1>3. ~Doing({"outcome"})'
  BY <1>1, <1>2 DEF Doing, Commands
<1> QED
  BY <1>1, <1>2, <1>3 DEF OnTime

LEMMA EnterOnTime ==
    ASSUME HarnessIInv, IInv', Phases, OnTime, Test \notin faulty, Enter
    PROVE  OnTime'
<1> DEFINE tt == Timetable(Test)
           s == chain[Here]
<1>1. /\ tx = "sent" /\ tx' = "entered" /\ UNCHANGED <<exit, plan, step, acct>>
      /\ stack = <<ExtFrame(Devnode, chain)>>
      /\ Committed' = Committed
  BY EnterPhases DEF Enter, Phases
<1>2. Doing(Commands)
  BY <1>1 DEF HarnessIInv, Bookkeeping
<1>3. /\ Test \in TestNames /\ plan # <<>>
      /\ step \in Nat \ {0}
      /\ tt.nonce[step] \in Nat /\ tt.key[step] \in {1, 2} /\ tt.money[step] \in Nat
      /\ InTime(Test, tt, step)
      /\ Step = Script(Test)[step]
  BY <1>2, NowTimes
<1>4. /\ Step.do = "deploy" <=> step = 1
      /\ Step.do \in {"execute", "rotate"} =>
            Step.nonce = tt.nonce[step] /\ Step.key = tt.key[step]
      /\ tt.nonce[step + 1] =
            IF Step.do \in {"execute", "rotate"} THEN tt.nonce[step] + 1 ELSE tt.nonce[step]
      /\ tt.key[step + 1] = IF Step.do = "rotate" THEN Step.new ELSE tt.key[step]
      /\ tt.money[step + 1] = IF Step.do = "fund" THEN tt.money[step] + Step.value
                              ELSE tt.money[step]
      /\ step = 1 => tt.nonce[step] = 0 /\ tt.key[step] = 1
  BY <1>3, Timetables DEF InTime, Timed
<1>5. funded[Test] = tt.money[step] /\ funded \in [TestNames -> Nat]
  BY <1>1, <1>3 DEF OnTime, HarnessIInv, Bookkeeping
<1>6. Committed = chain
  BY <1>1 DEF Committed, ExtFrame
<1>7. /\ Here = AccountOf(Test) /\ Here \in Accounts
      /\ chain \in [Accounts -> AccountState]
      /\ s \in AccountState
      /\ OnScript(Test, s)
      /\ At(Test, s, step)
  BY <1>1, <1>3, <1>6, HeldAccount
     DEF OnTime, HarnessIInv, Phases, ChainOnScript, ChainState
<1>8. Step.do # "deploy" =>
          /\ acct = Test /\ Acct = Here /\ HasCode
          /\ s.owner = KeyPair(Test, tt.key[step])
          /\ s.nonce = tt.nonce[step]
          /\ MustFail(Test) => s.delivered = <<>>
  BY <1>1, <1>2, AtHome
<1> HIDE DEF tt
<1>9. CASE Step.do = "deploy" /\ Constructor(Here, KeyPair(Test, 1)) /\ UNCHANGED funded
  <2> DEFINE r == Emit([s EXCEPT !.owner = KeyPair(Test, 1)],
                       [type |-> "OwnerInitialized", key |-> KeyPair(Test, 1)])
  <2>1. chain' = [chain EXCEPT ![Here] = r]
    BY <1>9 DEF Constructor
  <2>2. chain'[Here] = r
    BY <1>7, <2>1
  <2>3. s.nonce = 0 /\ s.delivered = <<>>
    BY <1>4, <1>7, <1>9 DEF At, OnScript
  <2>4. r.owner = KeyPair(Test, 1) /\ r.nonce = s.nonce /\ r.delivered = s.delivered
    BY <1>7 DEF Emit, AccountState
  <2> HIDE DEF r
  <2>5. At(Test, r, step + 1)
    BY <1>3, <1>4, <1>9, <2>3, <2>4 DEF At, tt
  <2>6. funded'[Test] = tt.money[step + 1]
    BY <1>4, <1>5, <1>9
  <2> QED
    BY <1>1, <1>2, <1>9, <2>2, <2>5, <2>6, EnteredOnTime DEF tt
<1>10. CASE /\ Step.do = "fund"
            /\ funded' = IF acct \in TestNames
                         THEN [funded EXCEPT ![acct] = @ + Step.value] ELSE funded
            /\ UNCHANGED <<chain, stack>>
  <2>1. funded'[Test] = tt.money[step + 1]
    BY <1>3, <1>4, <1>5, <1>8, <1>10
  <2>2. At(Test, chain'[Here], step + 1)
    BY <1>3, <1>4, <1>8, <1>10 DEF At, tt
  <2> QED
    BY <1>1, <1>2, <1>10, <2>1, <2>2, EnteredOnTime DEF tt
<1>11. CASE /\ Step.do = "execute" /\ UNCHANGED funded
            /\ Execute(Acct, Step.call, Step.nonce, Signature(Step))
  <2>1. stack' = Append(stack, AccountFrame("execute", Here, <<Step.call>>, Step.nonce, chain))
    BY <1>8, <1>11 DEF Execute
  <2>2. stack' = <<ExtFrame(Devnode, chain),
                   AccountFrame("execute", Here, <<Step.call>>, Step.nonce, chain)>>
    BY <1>1, <2>1, StackedTwo
  <2>3. Len(stack') = 2
    BY <2>2
  <2>4. stack' # <<ExtFrame(Devnode, Committed)>>
    BY <2>3, StackedOne
  <2>5. funded'[Test] = tt.money[step + 1]
    BY <1>4, <1>5, <1>11
  <2> QED
    BY <1>1, <1>2, <2>4, <2>5, EnteredOnTime DEF tt
<1>12. CASE /\ Step.do = "rotate" /\ UNCHANGED funded
            /\ RotateOwner(Acct, KeyPair(Test, Step.new), Step.nonce, Signature(Step))
  <2> DEFINE p == KeyPair(Test, Step.new)
             r == Exit(Emit([Begin(s, Step.nonce) EXCEPT !.owner = p],
                            OwnerRotated(s.owner, p, Step.nonce)))
  <2>1. chain' = [chain EXCEPT ![Here] = r]
    BY <1>8, <1>12 DEF RotateOwner
  <2>2. chain'[Here] = r
    BY <1>7, <2>1
  <2>3. r.owner = p /\ r.nonce = Step.nonce + 1 /\ r.delivered = s.delivered
    BY <1>7 DEF Exit, Emit, Begin, AccountState
  <2> HIDE DEF r
  <2>4. At(Test, r, step + 1)
    BY <1>3, <1>4, <1>8, <1>12, <2>3 DEF At, tt
  <2>5. funded'[Test] = tt.money[step + 1]
    BY <1>4, <1>5, <1>12
  <2> QED
    BY <1>1, <1>2, <1>12, <2>2, <2>4, <2>5, EnteredOnTime DEF tt
<1> QED
  BY <1>8, <1>9, <1>10, <1>11, <1>12 DEF Enter

LEMMA InnerOnTime ==
    ASSUME HarnessIInv, IInv', Phases, OnTime, Test \notin faulty, Test \notin faulty',
           InnerCall
    PROVE  OnTime'
<1> DEFINE tt == Timetable(Test)
<1>1. /\ tx = "entered" /\ tx' = "entered" /\ UNCHANGED <<exit, plan, step, acct, funded>>
      /\ Committed' = Committed
  BY InnerCallPhases DEF InnerCall
<1>2. Doing(Commands)
  BY <1>1 DEF HarnessIInv, Bookkeeping
<1>3. /\ Test \in TestNames /\ plan # <<>>
      /\ step \in Nat \ {0}
      /\ tt.nonce[step] \in Nat /\ tt.key[step] \in {1, 2} /\ tt.money[step] \in Nat
      /\ InTime(Test, tt, step)
      /\ Step = Script(Test)[step]
  BY <1>2, NowTimes
<1>4. PICK base : base = Committed
  OBVIOUS
<1>5. At(Test, base[Here], step) /\ funded[Test] = tt.money[step + 1]
  BY <1>1, <1>3, <1>4 DEF OnTime
<1>6. /\ Here \in Accounts /\ Here.addr = Test
      /\ base \in [Accounts -> AccountState]
  BY <1>3, <1>4, HeldAccount DEF HarnessIInv, Phases, ChainOnScript, ChainState, Here
<1> HIDE DEF tt
<1>7. CASE InCallee(base)'
  <2>1. Len(stack') = 3
    BY <1>7, StackedThree DEF InCallee
  <2>2. stack' # <<ExtFrame(Devnode, Committed)>>
    BY <2>1, StackedOne
  <2> QED
    BY <1>1, <1>2, <1>5, <2>2, EnteredOnTime DEF tt
<1>8. CASE ~InCallee(base)'
  <2>1. PICK w, result :
            /\ w = Started(base)
               \/ (w = Deliver(Started(base), Here, Step.call, Step.nonce) /\ result = "ok")
            /\ Resume(<<ExtFrame(Devnode, base), Waiting(base)>>, w, result)
            /\ result = "ok" => Honoured(base)
    BY <1>4, <1>8, InnerCallWays
  <2>2. Calling(base)
    BY <1>4, <1>8, InnerCallWays
  <2>3. Settled(base[Here], chain'[Here], result = "ok")
    BY <1>1, <1>4, <2>1, <2>2, ResumePhases
  <2>4. /\ Step.do = "execute" /\ step # 1
        /\ tt.nonce[step + 1] = tt.nonce[step] + 1
        /\ tt.key[step + 1] = tt.key[step]
        /\ tt.money[step + 1] = tt.money[step]
        /\ MustFail(Test) => \/ /\ Step.call.to = "ext" /\ Step.call.value \in Nat
                                /\ Step.call.value > tt.money[step]
                             \/ Step.call.to = "self" /\ Step.call.data = "unknown"
    BY <1>3, <2>2 DEF InTime, Calling
  <2>5. /\ base[Here].owner = KeyPair(Test, tt.key[step])
        /\ base[Here].nonce = tt.nonce[step]
        /\ MustFail(Test) => base[Here].delivered = <<>>
    BY <1>5, <2>4 DEF At, tt
  <2>6. MustFail(Test) => ~Honoured(base)
    <3> SUFFICES ASSUME MustFail(Test), Honoured(base) PROVE FALSE
      OBVIOUS
    <3>1. ~Strike
      BY DEF Strike
    <3>2. Balance(Started(base), Here) = tt.money[step]
      <4>1. Started(base)[Here].delivered = <<>>
        BY <1>6, <2>5 DEF Started, Begin, AccountState
      <4> QED
        BY <1>3, <1>5, <1>6, <2>4, <4>1, NothingPaid
    <3> QED
      BY <1>3, <2>4, <3>1, <3>2 DEF Honoured
  <2>7. MustFail(Test) => ~(result = "ok")
    BY <2>1, <2>6
  <2>8. At(Test, chain'[Here], step + 1)
    BY <1>3, <2>3, <2>4, <2>5, <2>7 DEF At, Settled, tt
  <2>9. MustFail(Test) => LoggedFailure(Committed[Here], chain'[Here])
    BY <1>4, <2>3, <2>7 DEF LoggedFailure, Settled
  <2> QED
    BY <1>1, <1>2, <1>5, <2>8, <2>9, EnteredOnTime DEF tt
<1> QED
  BY <1>7, <1>8

LEMMA MineOnTime ==
    ASSUME HarnessIInv, Phases, OnTime, Test \notin faulty, Mine
    PROVE  OnTime'
<1>1. /\ tx = "entered" /\ tx' = "mined" /\ UNCHANGED <<exit, plan, step, acct, funded>>
  BY DEF Mine
<1>2. /\ Committed' = chain
      /\ Back(Committed)
      /\ \E returned \in {0, 4} : receipt' = NewLogs(Committed, returned)
  BY MinePhases
<1>3. Test' = Test /\ Here' = Here /\ Step' = Step
  BY <1>1, SameStep
<1>4. Doing(Commands)
  BY <1>1 DEF HarnessIInv, Bookkeeping
<1>5. plan # <<>> /\ ~Doing({"outcome"})'
  BY <1>3, <1>4 DEF Doing, Commands
<1>6. /\ step > 1 => acct = Test
      /\ funded[Test] = Timetable(Test).money[step + 1]
      /\ At(Test, chain[Here], step + 1)
      /\ Step.do = "execute" /\ MustFail(Test) => LoggedFailure(Committed[Here], chain[Here])
  BY <1>1, <1>2, <1>5 DEF OnTime, Back
<1>7. ASSUME Step.do = "execute", MustFail(Test)
      PROVE  ParseExecutedOutcome(receipt') = "failure"
  <2> DEFINE old == Committed[Here].log
             new == chain[Here].log
             event == new[Len(old) + 1]
             m == Len(new) - Len(old)
  <2>1. Len(old) \in Nat
    <3>1. Here \in Accounts /\ Committed \in [Accounts -> AccountState]
      BY <1>5, HeldAccount DEF HarnessIInv, Phases, ChainOnScript, ChainState
    <3> QED
      BY <3>1, LenProperties DEF AccountState
  <2>2. Len(new) = Len(old) + 1 /\ event.type = "Executed" /\ ~event.success
    BY <1>6, <1>7 DEF LoggedFailure
  <2>3. PICK returned \in {0, 4} : receipt' = NewLogs(Committed, returned)
    BY <1>2
  <2>4. m = 1 /\ m \in Nat
    BY <2>1, <2>2
  <2>5. /\ Len(receipt') = m
        /\ \A i \in 1 .. m :
              LET e == new[Len(old) + i]
              IN  receipt'[i] = IF e.type = "Executed"
                                THEN ExecutedLog(e.call.value, e.nonce, e.success, returned)
                                ELSE [topic |-> e.type, data |-> <<>>, bytes |-> 0]
    BY <2>3, <2>4 DEF NewLogs
  <2> HIDE DEF m
  <2>6. receipt'[1] = ExecutedLog(event.call.value, event.nonce, event.success, returned)
    BY <2>2, <2>4, <2>5
  <2> HIDE DEF event
  <2> QED
    BY <2>2, <2>4, <2>5, <2>6, ParsedOne
<1> QED
  BY <1>1, <1>2, <1>3, <1>5, <1>6, <1>7 DEF OnTime

\* On to the next step of the script.
LEMMA NextOnTime ==
    ASSUME HarnessIInv, OnTime, Test \notin faulty, NEW kinds, Doing(kinds),
           NextStep, Committed' = Committed, UNCHANGED receipt, acct' = Test,
           tx = "mined" \/ (tx = "none" /\ Step.do \in Checks)
    PROVE  OnTime'
<1> DEFINE tt == Timetable(Test)
           s == Committed[Here]
<1>1. step' = step + 1 /\ tx' = "none" /\ UNCHANGED <<exit, plan, funded>>
  BY DEF NextStep
<1>2. Test' = Test /\ Here' = Here /\ Step' = Script(Test)[step + 1]
  BY <1>1 DEF Test, Here, Step
<1>3. /\ Test \in TestNames /\ plan # <<>>
      /\ step \in Nat \ {0} /\ step \in DOMAIN Script(Test)
      /\ Step = Script(Test)[step]
      /\ InTime(Test, tt, step)
  BY NowTimes
<1>4. /\ Step.do = "deploy" <=> step = 1
      /\ Step.do \in Checks => /\ tt.nonce[step + 1] = tt.nonce[step]
                               /\ tt.key[step + 1] = tt.key[step]
                               /\ tt.money[step + 1] = tt.money[step]
  BY <1>3 DEF InTime, Checks
<1>5. /\ At(Test, s, IF tx = "mined" THEN step + 1 ELSE step)
      /\ funded[Test] = tt.money[IF tx \in {"entered", "mined"} THEN step + 1 ELSE step]
      /\ tx = "mined" /\ Step.do = "execute" /\ MustFail(Test) =>
            ParseExecutedOutcome(receipt) = "failure"
  BY <1>3 DEF OnTime
<1>6. At(Test, s, step + 1) /\ funded[Test] = tt.money[step + 1]
  <2>1. CASE tx = "mined"
    BY <1>5, <2>1
  <2>2. CASE tx = "none" /\ Step.do \in Checks
    <3>1. At(Test, s, step) /\ funded[Test] = tt.money[step]
      BY <1>5, <2>2
    <3>2. step # 1 /\ step + 1 # 1
      BY <1>3, <1>4, <2>2 DEF Checks
    <3> QED
      BY <1>4, <2>2, <3>1, <3>2 DEF At
  <2> QED
    BY <2>1, <2>2
<1>7. ASSUME Doing({"outcome"})'
      PROVE  ParseExecutedOutcome(receipt) = "failure"
  <2>1. step + 1 <= Len(Script(Test)) /\ Script(Test)[step + 1].do = "outcome"
    BY <1>1, <1>2, <1>7 DEF Doing
  <2>2. WellScripted(Script(Test), Cardinality(Asked(Test)))
    BY <1>3, Scripts
  <2>3. step + 1 \in DOMAIN Script(Test)
    BY <1>3, <2>1, <2>2 DEF WellScripted
  <2>4. Script(Test)[step + 1] = ExpectFailure /\ MustFail(Test)
    BY <2>1, <2>2, <2>3 DEF WellScripted, MustFail, ToSet
  <2>5. InTime(Test, tt, step + 1) /\ step + 1 - 1 = step
    BY <1>3, <2>3, Timetables DEF Timed
  <2>6. Step.do = "execute"
    BY <1>3, <2>1, <2>5 DEF InTime
  <2> QED
    BY <1>5, <2>4, <2>6 DEF Checks
<1> QED
  BY <1>1, <1>2, <1>5, <1>6, <1>7 DEF OnTime

LEMMA RunningTest == Control /\ plan # <<>> => Test \in TestNames /\ results[Test] = "none"
BY CurrentTest

LEMMA ComingTestRuns == (Control /\ plan # <<>> => Test \in TestNames /\ results[Test] = "none")'
BY RunningTest, PTL

\* A test starts, and finds nothing of its own on the chain.
LEMMA FreshOnTime ==
    ASSUME Control', Phases', step' = 1, tx' = "none",
           plan' # <<>> =>
               Committed'[AccountOf(Test')].owner = NoOwner /\ funded'[Test'] = 0
    PROVE  OnTime'
<1> SUFFICES ASSUME plan' # <<>> PROVE OnTime'
  BY DEF OnTime
<1>1. Test' \in TestNames /\ Here' = AccountOf(Test')
  BY ComingTestRuns DEF Here, AccountOf
<1>2. Committed'[Here'].owner = NoOwner /\ Committed'[Here'].delivered = <<>>
  BY <1>1 DEF Phases, ChainOnScript, OnScript
<1>3. At(Test', Committed'[Here'], 1)
  BY <1>2 DEF At
<1>4. Timed(Test', Timetable(Test'))
  BY <1>1, Timetables
<1>5. 1 \in DOMAIN Script(Test')
  BY ComingTest
<1>6. InTime(Test', Timetable(Test'), 1) /\ Timetable(Test').money[1] = 0
  BY <1>4, <1>5 DEF Timed
<1>7. ~Doing({"outcome"})'
  BY <1>6 DEF Doing, Step, InTime
<1> QED
  BY <1>1, <1>3, <1>6, <1>7 DEF OnTime

-----------------------------------------------------------------------------
(* Each test has the chain for itself. *)

\* A test keeps its faults.
LEMMA FaultsStay ==
    ASSUME [HarnessNext]_allVars
    PROVE  faulty \subseteq faulty'
<1>1. Strike => faulty \subseteq faulty'
  BY DEF Strike
<1>2. Main \/ MakeCtxFails \/ Send \/ Enter \/ Mine => faulty' = faulty
  BY DEF Main, MakeCtxFails, Send, Enter, Mine
<1>3. Revert \/ InnerCall => Strike \/ faulty' = faulty
  BY DEF Revert, InnerCall
<1>4. CommandReturns \/ CheckHolds \/ TestPasses \/ Ended \/ UNCHANGED allVars => faulty' = faulty
  BY DEF CommandReturns, CheckHolds, TestPasses, Ended, allVars, harnessVars
<1>5. DeployReturns \/ CommandFails \/ CheckFails => Strike \/ faulty' = faulty
  BY DEF DeployReturns, CommandFails, CheckFails
<1> QED
  BY <1>1, <1>2, <1>3, <1>4, <1>5 DEF HarnessNext

\* A verdict is given once, on the current test, and it stays.
LEMMA VerdictsStay ==
    ASSUME HarnessIInv, [HarnessNext]_allVars, NEW t \in TestNames
    PROVE  /\ results'[t] = "none" => results[t] = "none"
           /\ results'[t] = "none" /\ (plan' # <<>> => t # Test') => (plan # <<>> => t # Test)
           /\ results'[t] = "fail" /\ results[t] # "fail" =>
                 t = Test /\ plan # <<>> /\ EndTest("fail")
<1>1. CASE Main \/ MakeCtxFails
  <2>1. plan = <<>> /\ results' = results
    BY <1>1 DEF Main, MakeCtxFails, HarnessIInv, Control
  <2> QED
    BY <2>1
<1>2. ASSUME plan # <<>>, NEW verdict \in {"pass", "fail"}, EndTest(verdict)
      PROVE  /\ results'[t] = IF t = Test THEN verdict ELSE results[t]
             /\ results[Test] = "none"
  <2>1. results' = [results EXCEPT ![Test] = verdict]
    BY <1>2 DEF EndTest
  <2>2. results \in [TestNames -> {"none", "pass", "fail"}]
    BY DEF HarnessIInv, Control
  <2> QED
    BY <1>2, <2>1, <2>2, CurrentTest DEF HarnessIInv
<1>3. CASE UNCHANGED <<cmd, exit, plan, results>>
  BY <1>3 DEF Test
<1> QED
  BY <1>1, <1>2, <1>3, HarnessStepKinds

LEMMA UntouchedStep ==
    ASSUME HarnessIInv, IInv', Phases, Untouched, [HarnessNext]_allVars
    PROVE  Untouched'
<1> SUFFICES ASSUME NEW t \in TestNames, results'[t] = "none", plan' # <<>> => t # Test'
             PROVE  Committed'[AccountOf(t)].owner = NoOwner /\ funded'[t] = 0
  BY DEF Untouched
<1>1. results[t] = "none" /\ (plan # <<>> => t # Test)
  BY VerdictsStay
<1>2. Committed[AccountOf(t)].owner = NoOwner /\ funded[t] = 0
  BY <1>1 DEF Untouched
<1>3. Committed'[AccountOf(t)] = Committed[AccountOf(t)]
  <2>1. CASE Mine
    <3>1. plan # <<>>
      BY <2>1 DEF Mine, HarnessIInv, Bookkeeping, Doing
    <3>2. Committed' = chain /\ Back(Committed)
      BY <2>1, MinePhases
    <3> QED
      BY <1>1, <3>1, <3>2 DEF Back
  <2>2. CASE ~Mine
    BY <2>2, PhasesStep
  <2> QED
    BY <2>1, <2>2
<1>4. funded'[t] = funded[t]
  <2>1. CASE Enter
    <3>1. plan # <<>> /\ funded \in [TestNames -> Nat]
      BY <2>1 DEF Enter, HarnessIInv, Bookkeeping, Doing
    <3>2. acct \in TestNames => acct = Test
      BY NamedTests DEF HarnessIInv, Bookkeeping
    <3>3. UNCHANGED funded
          \/ (acct \in TestNames /\ funded' = [funded EXCEPT ![acct] = @ + Step.value])
      BY <2>1 DEF Enter
    <3> QED
      BY <1>1, <3>1, <3>2, <3>3
  <2>2. CASE ~Enter
    <3>1. UNCHANGED funded
      BY <2>2 DEF HarnessNext, Main, MakeCtxFails, Send, Revert, InnerCall, Mine,
                  CommandReturns, DeployReturns, CommandFails, CheckHolds, CheckFails,
                  TestPasses, Ended, NextStep, EndTest, allVars, harnessVars
    <3> QED
      BY <3>1
  <2> QED
    BY <2>1, <2>2
<1> QED
  BY <1>2, <1>3, <1>4

\* The checks of a test without a fault hold.
LEMMA ChecksHold ==
    ASSUME HarnessIInv, Phases, OnTime, Test \notin faulty, Doing(Checks)
    PROVE  AsExpected(Step)
<1> DEFINE tt == Timetable(Test)
<1>1. /\ Test \in TestNames /\ plan # <<>>
      /\ step \in DOMAIN Script(Test) /\ Step = Script(Test)[step] /\ Step.do \in Checks
      /\ tt.money[step] \in Nat
      /\ InTime(Test, tt, step)
  BY NowTimes
<1>2. tx = "none"
  BY <1>1 DEF HarnessIInv, Bookkeeping, Doing, Commands, Checks
<1>3. /\ Committed = chain /\ acct = Test /\ Acct = Here /\ HasCode
      /\ chain[Here].owner = KeyPair(Test, tt.key[step])
      /\ chain[Here].nonce = tt.nonce[step]
      /\ MustFail(Test) => chain[Here].delivered = <<>>
  BY <1>1, <1>2, AtHome DEF Checks
<1> HIDE DEF tt
<1>4. CASE Step.do = "nonce"
  <2>1. Step.nonce = tt.nonce[step]
    BY <1>1, <1>4 DEF InTime
  <2> QED
    BY <1>3, <1>4, <2>1 DEF AsExpected, NonceAsExpected, NonceRead
<1>5. CASE Step.do = "owner"
  <2>1. Step.key = tt.key[step]
    BY <1>1, <1>5 DEF InTime
  <2> QED
    BY <1>3, <1>5, <2>1 DEF AsExpected
<1>6. CASE Step.do = "balance"
  <2>1. MustFail(Test) /\ Step.value = tt.money[step]
    BY <1>1, <1>6 DEF InTime
  <2>2. Here.addr = Test /\ funded[Test] = tt.money[step]
    BY <1>1, <1>2 DEF OnTime, Here, tt
  <2>3. Balance(chain, Here) = tt.money[step]
    BY <1>1, <1>3, <2>1, <2>2, NothingPaid
  <2> QED
    BY <1>3, <1>6, <2>1, <2>3 DEF AsExpected
<1>7. CASE Step.do = "outcome"
  <2>1. Step = ExpectFailure
    BY <1>1, <1>7, Scripts DEF WellScripted
  <2>2. ParseExecutedOutcome(receipt) = "failure"
    BY <1>1, <1>7 DEF OnTime, Doing
  <2> QED
    BY <1>7, <2>1, <2>2 DEF AsExpected, ExpectFailure
<1> QED
  BY <1>1, <1>4, <1>5, <1>6, <1>7 DEF Checks

\* Only a fault of its own fails a test.
LEMMA FailCause ==
    ASSUME HarnessIInv, Phases, OnTime, [HarnessNext]_allVars,
           plan # <<>>, Test \notin faulty, Test \notin faulty'
    PROVE  results'[Test] # "fail"
<1>1. results[Test] = "none" /\ Test \in TestNames
      /\ results \in [TestNames -> {"none", "pass", "fail"}]
  BY CurrentTest DEF HarnessIInv, Control
<1>2. ~Strike
  BY DEF Strike
<1>3. UNCHANGED results => results'[Test] # "fail"
  BY <1>1
<1>4. CASE CommandFails
  <2>1. tx = "reverted"
    BY <1>2, <1>4 DEF CommandFails
  <2> QED
    BY <2>1 DEF OnTime
<1>5. CASE CheckFails
  BY <1>2, <1>5, ChecksHold DEF CheckFails
<1>6. CASE DeployReturns
  <2>1. PICK output \in Outputs :
            /\ IF Readable(output) THEN UNCHANGED faulty ELSE Strike
            /\ DeployedAddress(output) = "account" => NextStep \/ EndTest("fail")
            /\ DeployedAddress(output) # "none" => NextStep
    BY <1>6 DEF DeployReturns
  <2>2. DeployedAddress(output) = "account"
    BY <1>2, <2>1, ReadableAddress
  <2>3. UNCHANGED results
    BY <2>1, <2>2 DEF NextStep
  <2> QED
    BY <1>3, <2>3
<1>7. CASE TestPasses
  BY <1>1, <1>7 DEF TestPasses, EndTest
<1>8. CASE ~(CommandFails \/ CheckFails \/ DeployReturns \/ TestPasses)
  <2>1. UNCHANGED results
    BY <1>8 DEF HarnessNext, Main, MakeCtxFails, Send, Enter, Revert, InnerCall, Mine,
                CommandReturns, CheckHolds, Ended, NextStep, allVars, harnessVars
  <2> QED
    BY <1>3, <2>1
<1> QED
  BY <1>4, <1>5, <1>6, <1>7, <1>8

LEMMA OnTimeStep ==
    ASSUME HarnessIInv, HarnessIInv', Phases, Phases', OnTime, Untouched,
           [HarnessNext]_allVars
    PROVE  OnTime'
<1> SUFFICES ASSUME plan' # <<>>, Test' \notin faulty' PROVE OnTime'
  BY DEF OnTime
<1>0. IInv' /\ (Mine \/ Committed' = Committed)
  BY PhasesStep DEF HarnessIInv
<1>1. plan' = plan => Test' = Test /\ plan # <<>> /\ Test \notin faulty /\ Test \notin faulty'
  BY FaultsStay DEF Test
<1>2. ~Strike \/ plan' # plan
  BY <1>1 DEF Strike
<1>3. ASSUME NEW verdict \in {"pass", "fail"}, plan # <<>>, EndTest(verdict),
             Committed' = Committed
      PROVE  OnTime'
  <2>1. step' = 1 /\ tx' = "none" /\ UNCHANGED funded
    BY <1>3 DEF EndTest, FreshStart
  <2>2. Test' \in TestNames /\ results'[Test'] = "none"
    BY ComingTestRuns DEF HarnessIInv
  <2>3. results[Test'] = "none"
    BY <2>2, VerdictsStay
  <2>4. Test' # Test
    <3>1. results'[Test] = verdict
      BY <1>3, CurrentTest DEF HarnessIInv, Control, EndTest
    <3> QED
      BY <2>2, <3>1
  <2>5. Committed[AccountOf(Test')].owner = NoOwner /\ funded[Test'] = 0
    BY <2>2, <2>3, <2>4 DEF Untouched
  <2> QED
    BY <1>3, <2>1, <2>5, FreshOnTime DEF HarnessIInv
<1>4. CASE Main
  <2>1. plan = <<>> /\ UNCHANGED <<step, tx, funded, chain, stack, results>>
    BY <1>4 DEF Main, HarnessIInv, Control
  <2>2. step = 1 /\ tx = "none"
    BY <2>1 DEF HarnessIInv, Bookkeeping, Positions, Doing
  <2>3. Committed' = Committed
    BY <2>1 DEF Committed
  <2>4. Test' \in TestNames /\ results'[Test'] = "none"
    BY ComingTestRuns DEF HarnessIInv
  <2>5. Committed[AccountOf(Test')].owner = NoOwner /\ funded[Test'] = 0
    BY <2>1, <2>4 DEF Untouched
  <2> QED
    BY <2>1, <2>2, <2>3, <2>5, FreshOnTime DEF HarnessIInv
<1>5. CASE MakeCtxFails
  BY <1>5 DEF MakeCtxFails, HarnessIInv, Control
<1>6. CASE Send
  <2>1. /\ Doing(Commands) /\ tx = "none" /\ tx' = "sent"
        /\ UNCHANGED <<exit, plan, step, acct, receipt, funded, faulty>>
        /\ ~Mine
    BY <1>6 DEF Send, Mine
  <2>2. Test' = Test /\ Here' = Here /\ Step' = Step /\ Committed' = Committed
    BY <1>0, <2>1, SameStep
  <2>3. ~Doing({"outcome"})'
    BY <2>1, <2>2 DEF Doing, Commands
  <2> QED
    BY <1>1, <2>1, <2>2, <2>3 DEF OnTime
<1>7. CASE Enter
  <2>1. plan' = plan
    BY <1>7 DEF Enter
  <2> QED
    BY <1>0, <1>1, <1>7, <2>1, EnterOnTime
<1>8. CASE Revert
  <2>1. tx = "sent" /\ plan' = plan /\ (Rejected(Step) \/ Strike)
    BY <1>8 DEF Revert
  <2> QED
    BY <1>1, <1>2, <2>1, NotRejected
<1>9. CASE InnerCall
  <2>1. plan' = plan
    BY <1>9 DEF InnerCall
  <2> QED
    BY <1>0, <1>1, <1>9, <2>1, InnerOnTime
<1>10. CASE Mine
  <2>1. plan' = plan
    BY <1>10 DEF Mine
  <2> QED
    BY <1>1, <1>10, <2>1, MineOnTime
<1>11. CASE CommandReturns
  <2>1. /\ Doing(Commands \ {"deploy"}) /\ NextStep /\ UNCHANGED <<acct, receipt>>
        /\ tx \in {"mined", "reverted"} /\ plan' = plan
        /\ Committed' = Committed
    BY <1>11, HarnessIdle DEF CommandReturns, NextStep
  <2>2. tx = "mined"
    BY <1>1, <2>1 DEF OnTime
  <2>3. acct = Test
    <3>1. step # 1 /\ step \in Nat \ {0}
      BY <2>1, NowTimes DEF InTime
    <3> QED
      BY <1>1, <2>1, <3>1 DEF OnTime
  <2> QED
    BY <1>1, <2>1, <2>2, <2>3, NextOnTime
<1>12. CASE DeployReturns
  <2>1. Doing({"deploy"}) /\ tx \in {"mined", "reverted"} /\ plan # <<>> /\ Committed' = Committed
    BY <1>12, HarnessIdle DEF DeployReturns, Doing
  <2>2. CASE EndTest("fail")
    BY <1>3, <2>1, <2>2
  <2>3. CASE ~EndTest("fail")
    <3>1. PICK output \in Outputs :
              /\ IF Readable(output) THEN UNCHANGED faulty ELSE Strike
              /\ NextStep /\ UNCHANGED receipt
              /\ DeployedAddress(output) = "account" => acct' = Test
      BY <1>12, <2>3 DEF DeployReturns
    <3>2. plan' = plan
      BY <3>1 DEF NextStep
    <3>3. Readable(output) /\ acct' = Test
      BY <1>2, <3>1, <3>2, ReadableAddress
    <3>4. tx = "mined"
      BY <1>1, <2>1, <3>2 DEF OnTime
    <3> QED
      BY <1>1, <2>1, <3>1, <3>2, <3>3, <3>4, NextOnTime
  <2> QED
    BY <2>2, <2>3
<1>13. CASE CommandFails \/ CheckFails \/ TestPasses
  <2>1. /\ plan # <<>> /\ Committed' = Committed
        /\ EndTest("fail") \/ EndTest("pass")
    BY <1>13, HarnessIdle DEF CommandFails, CheckFails, TestPasses, Doing
  <2> QED
    BY <1>3, <2>1
<1>14. CASE CheckHolds
  <2>1. /\ Doing(Checks) /\ NextStep /\ UNCHANGED <<acct, receipt>> /\ plan' = plan
        /\ Step.do \in Checks
        /\ Committed' = Committed
    BY <1>14, HarnessIdle DEF CheckHolds, NextStep, Doing
  <2>2. tx = "none"
    BY <2>1 DEF HarnessIInv, Bookkeeping, Doing, Commands, Checks
  <2>3. acct = Test
    BY <1>1, <2>1, <2>2, AtHome DEF Checks
  <2> QED
    BY <1>1, <2>1, <2>2, <2>3, NextOnTime
<1>15. CASE Ended \/ UNCHANGED allVars
  <2>1. UNCHANGED <<chain, stack, exit, plan, step, acct, tx, receipt, funded, faulty>>
    BY <1>15 DEF Ended, allVars, harnessVars
  <2>2. /\ Test' = Test /\ Here' = Here /\ Step' = Step /\ Committed' = Committed
        /\ Doing({"outcome"})' = Doing({"outcome"})
    BY <2>1 DEF Test, Here, Step, Committed, Doing
  <2> QED
    BY <2>1, <2>2 DEF OnTime
<1> QED
  BY <1>4, <1>5, <1>6, <1>7, <1>8, <1>9, <1>10, <1>11, <1>12, <1>13, <1>14, <1>15
     DEF HarnessNext

\* A test that fails met a fault of its own: no test undoes another, the digests
\* the harness signs are the contract's, and the address is read right from any
\* output cargo stylus is expected to print.
THEOREM IsolatedAlways == HarnessSpec => []Isolated
<1>1. HarnessInit => IsolatedIInv
  <2> SUFFICES ASSUME HarnessInit PROVE IsolatedIInv
    OBVIOUS
  <2>1. HarnessIInv
    BY ControlInit, BookkeepingInit, InitIInv DEF HarnessInit, HarnessIInv
  <2>2. /\ plan = <<>> /\ stack = <<>>
        /\ chain = [a \in Accounts |-> FreshAccount]
        /\ funded = [t \in TestNames |-> 0]
        /\ results = [t \in TestNames |-> "none"]
    BY DEF HarnessInit, Init
  <2>3. Untouched
    <3>1. \A t \in TestNames : AccountOf(t) \in Accounts
      BY TestPlace
    <3> QED
      BY <2>2, <3>1 DEF Untouched, Committed, FreshAccount
  <2>4. OnTime /\ Isolated
    BY <2>2 DEF OnTime, Isolated
  <2> QED
    BY <2>1, <2>3, <2>4, PhasesInit DEF IsolatedIInv
<1>2. IsolatedIInv /\ [HarnessNext]_allVars => IsolatedIInv'
  <2> SUFFICES ASSUME IsolatedIInv, [HarnessNext]_allVars
               PROVE  IsolatedIInv'
    OBVIOUS
  <2> USE DEF IsolatedIInv
  <2>1. HarnessIInv' /\ IInv'
    BY ControlStep, BookkeepingStep, HarnessNextIInv DEF HarnessIInv
  <2>2. Phases'
    BY <2>1, PhasesStep
  <2>3. OnTime' /\ Untouched'
    BY <2>1, <2>2, OnTimeStep, UntouchedStep
  <2>4. ASSUME NEW t \in TestNames, results'[t] = "fail"
        PROVE  t \in faulty'
    <3>1. CASE results[t] = "fail"
      BY <3>1, FaultsStay DEF Isolated
    <3>2. CASE results[t] # "fail"
      <4>1. t = Test /\ plan # <<>>
        BY <2>4, <3>2, VerdictsStay
      <4> QED
        BY <2>4, <4>1, FailCause, FaultsStay
    <3> QED
      BY <3>1, <3>2
  <2> QED
    BY <2>1, <2>2, <2>3, <2>4 DEF Isolated
<1> QED
  BY <1>1, <1>2, PTL DEF HarnessSpec, IsolatedIInv
=============================================================================
