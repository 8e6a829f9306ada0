# P-256 smart accounts in TLA+

This directory holds TLA+ models of the repository's P-256 smart account
system: the account contract, the relayer that pays for its transactions, and
the two mobile SDKs that sign for it. TLC checks the models on small instances
and TLAPS proves theorems about the contract, its signature checks, the relayer, the
clients, the Android signer and the devnode harness for every instance. Paths below are relative to the repository's root, `src/` here.

## 1. The system

A user's P-256 key sits in a phone's secure hardware. The **account contract**
(`contracts/stylus/p256-account/src/lib.rs`, Rust on Arbitrum Stylus) holds
assets and executes calls, batches of calls and owner rotations signed by that
key. The **Android** and **iOS SDKs** read the account's nonce, build an EIP-712
digest, have the hardware sign it behind a biometric prompt and POST the signed
action to the **relayer** (`sdk/tooling/src/relayer/`), which pays the gas.

| component | state it keeps | operations | talks to |
|---|---|---|---|
| account contract | owner key, nonce, `in_call` guard; its logs | constructor, `execute`, `executeBatch`, `rotateOwner`; `isValidSignature`, hooks, `receive`, `fallback` | any contract, itself included, from inside `execute` and `executeBatch`; the RIP-7212 precompile |
| digests | none | four typed digests, one domain | the contract and three SDK implementations compute the same |
| spend control (`guard.ts`) | reservations in a list per account and a global list | `admit`, `settle`, `release` | called by the server |
| relayer server (`server.ts`) | the broadcast promise chain | `POST /relay` | JSON-RPC node: nonce, estimate, price, send, receipt |
| Android client (`P256Account.kt`) | nonce reservation, mutex | `execute`, `executeBatch`, `rotateOwner`, `resetNonce`, `awaitExecuted`, `signHash` | node, signer, relay |
| iOS client (`P256Account.swift`) | nonce reservation; an actor | the same | the same |
| devnode harness (`contracts/stylus/devnode-tests/src/main.rs`) | the verdicts of its run | five tests: deploy, fund, send, check | `cargo stylus` and `cast`, as child processes; a devnode |
| hardware signers | key handle, one pending prompt | `sign` | platform callbacks |
| simulator, drivers, action templates, ABI, hex, keccak, arithmetic | none worth naming, but the simulator's copy of owner and nonce | | |

What is hard, and what makes each part correct:

* **Contract.** An inner call runs foreign code while the operation is still on
  the stack; that code may call any entry point, with any signature ever
  made, and everything may revert at any depth. Correct means: each nonce has
  exactly one outcome, signed by the owner of that moment for exactly this
  account; the logs tell the truth, in order; the guard is never left latched.
* **Signature checks.** Between a signature and the precompile stand comparisons
  with n, half of n and p, in 256-bit words. Off by one, they turn honest
  signatures away or let one signature pass in two encodings.
* **Digests.** A digest that binds too little lets a signature be used for what
  its owner never agreed to: on another chain, another account, or as an answer
  to a login prompt.
* **Relayer.** Handlers interleave at every await. Correct means: budgets and
  rate limit hold however they interleave, no own transaction is replaced, and
  every request is answered, also behind one that failed. All of that is in
  memory, and the process may be restarted at any point.
* **Clients.** `nonce()` reads the chain at *latest*, which does not know of
  actions under way. Calls overlap, replies get lost, actions are dropped, the
  reservation expires. Correct means: a client in step with the chain never signs a
  nonce that will not be next, gets back in step after trouble, and no call blocks the others.
* **Harness.** It learns everything from exit codes and printed text. Correct means:
  a test passes only if what it is about happened on chain, a failing test does not
  spoil another one, and the exit code tells.

`PROJECT.json` lists every component with its status, and under `hazards` each
of these difficulties at the line where it bites.

## 2. The modules

    Eip712                       what each digest binds
      P256Account                the contract and the EVM's call stack
        P256AccountProperties    its properties, over its logs
          MCP256Account          instances for TLC
          P256AccountProofs      theorems: types, the guard, log order, signatures
            P256LedgerProofs     theorems: logs, effects, the refinement of AccountLedger
    AccountLedger                what an account promises, abstractly
    SmallCurve                   ECDSA and the precompile, on any small curve
      P256Checks                 the contract's comparisons and curve equation
        P256ChecksProofs         theorems: keys, signatures, encodings
    HarnessOutput                what the devnode harness reads out of printed text
      DevnodeHarness             its tests, driving P256Account
        MCDevnode                instance for TLC
        HarnessProofs            theorems, over P256AccountProofs
    SpendController              guard.ts
      Relayer                    server.ts, the node, the relayer's EOA
        RelayerProperties, MCRelayer
          RelayerProofs          theorems
    ClientWorld                  chain, relay and clock a client works against
      AndroidClient
        AndroidHistory           what its comments promise over time
        AndroidClientProofs      theorems
      IosClient, MCIosClient
        IosClientProofs          theorems
    BiometricSign                the Android signer behind its prompt
      BiometricSignProofs        theorems

**P256Account.** `chain[a]` is the state of account `a`: the three storage
fields, the log, and the sequence of calls it made that took effect (the world
outside, as far as the account changed it). `stack` is the running transaction's
call stack. Frames of kind `ext` are foreign code; frames of kind `execute` and
`batch` are entry points waiting for their next inner call. Each frame keeps the chain
as it found it, and restores it when it fails. `signed` holds the signatures
made so far, as the intents their owners agreed to; a caller can present any
of them, re-encoded or not. `Execute` and `ExecuteBatch` run up to the first
external call, `CallExternal` makes a call to another contract, `CalleeReturns`,
`CalleeReverts` and `CallSelf` run the code after `call::call`, `AccountTraps` is
running out of gas, `RotateOwner` is the whole handler. Rejections change nothing
and are no steps. The build enables the SDK's `reentrant` feature (workspace
`Cargo.toml`), so a reentrant call really reaches the contract's own guard.
Keccak is injective: a digest is the record that was hashed.

**AccountLedger** knows no stack, guard or digest: an account is a genesis key
and a sequence of settled operations; the n-th operation is signed, for this
account and number n, by the key that the rotations before it leave in charge. The
refinement mapping in `P256AccountProperties` reads genesis and ledger off the
logs as of the last completed transaction (`Committed`).

**SmallCurve / P256Checks.** `P256Account` calls a signature strict or not and a key good or
bad; `P256Checks` is the code behind these words: `is_low_s`, the scalar and
coordinate ranges, the curve equation with its modular helpers, the call of the precompile,
and the low-S normalisation of the signers. Integers wrap at `WordSize`, as `U256` does.
`SmallCurve` is what is not in the repository: the group and ECDSA. P-256 itself is out
of TLC's reach, so the run takes a curve of the same shape, y² = x³ - 3x + b, of prime
order 17 over the field of 23 elements, in words of 5 bits: like P-256, n < p and both below the
word size.

**HarnessOutput / DevnodeHarness.** A test is a script of commands and checks, and a command is a
transaction on the chain of `P256Account`, so what a test sees is what the contract does.
Each test deploys an account of its own. `HarnessOutput` is the parser: lines with known
phrases, colours and 0x-words, from which the address is fished. A command may fail before or after
its transaction was mined, exit 0 though it reverted, or print what the parser does not
expect; `faulty` records which tests met such a fault, and the properties say what may be
relied on with and without one.

**SpendController / Relayer.** `pc[r]` names the await at which request `r`'s
handler is. Between awaits a handler is one step, so `Enqueue` is `admit`, its
check and its reservation, and joining the broadcast chain. `queue` is the
promise chain. The node holds the EOA's transactions by nonce; one with a
nonce already held replaces the holder. Estimates, prices and gas used are
chosen from small sets, subject to: a mined transaction uses at most its
gas limit. `Restart` ends the process at any point: lists, queue and handlers are gone, a
request without answer is cut off, and a transaction that was just being sent has reached
the node by then or never does. `forgotten` keeps what was admitted before, because
limits are a promise of one process: `guard.ts:85` says so.

**ClientWorld / AndroidClient / IosClient.** `pc[c]` names the suspension point
of call `c`. The Kotlin client holds a fair mutex from before the read of
the nonce to the relay's answer; the Swift client is an actor and holds
nothing across an await. The relay broadcasts in the order of arrival from one
EOA, so actions land in that order. An action that lands is the account's to judge, as `lib.rs` does:
`Applied` takes the nonce; `Mismatched` refuses it with `NonceMismatch`, the first thing that is looked at;
`RevertsInTurn` reverts in spite of the right nonce and leaves it unconsumed, as a batch with
a failing call, an action that runs out of gas, or one signed with a key that has been rotated away (`keyed`).
`GiveUp` is a call that runs into its HTTP timeout while the relay has the action; the relay may broadcast
it later (`BroadcastLate`) or not at all.

`trouble` is a history variable: what has happened since the client was last in step with the
chain that may make its next nonce the wrong one. `reverted` is an own action that reverted in its turn. `beyond` is
what the clients document as beyond them: a dropped action, another device, an answer lost or given up on, a reset
that nothing makes good (`Mended`), an expiry while an own action was still under way. The client is in
step (`calm`, no trouble) at the start, and again as soon as a call starts from the chain's nonce
with nothing on the way (`InStep`), because the reservation is spent or dropped. The properties of
the passing runs are about a client in step, so each of them also says that it recovers. `serial` records
whether calls were made one after the other. What a call returns to its caller is left out.

**AndroidHistory** remembers, besides, when the chain last moved, for what the comments say of the
reservation over time.

**BiometricSign.** `main` is what the main thread is in the middle of, `queue` its executor, `cont[s]`,
`settled[s]`, `handler[s]` and `prompt[s]` are one signature's continuation, latch, cancellation handler and prompt.
Cancelling and the handler run on another thread, between any two steps of the main thread. The
latch and the resumption of a callback are two steps. The prompt (external) delivers
its callbacks through the executor, and may deliver an error after a success.

The operators under "Variants with a planted mistake" in each module are used
by nothing but mutation runs: each property of a passing run is shown to fail
when one definition is replaced by its variant.

## 3. The runs

| run | shows | instance and why it is enough |
|---|---|---|
| `one_account` | guard, log order, own log first, one outcome per nonce, authorisation, effects, owner reconstruction, refinement of `AccountLedger` | one account, two keys and a bad point, two operations, batches of 0, 2 and 3 calls under a cap of 2, five frames: two nested levels of account code with foreign code above, between and below, which is where every reentrant pattern starts |
| `two_accounts` | authorisation across deployments, login, effects, refinement | two chains with two addresses under one key, accounts that call each other, challenges equal to each account's operation digest |
| `arithmetic` | owners are usable keys, honest signatures pass, no second encoding | all pairs of 5-bit words as keys and as signatures, all private keys, three hashes, one of them above n; so 0, half of n and one above, n, p and one below them all occur |
| `harness` | a test that passes has happened, tests do not disturb each other, the exit code is true | each test alone and all five together, two tests that meet a fault, outputs of up to two lines of two words |
| `relayer` | exact books, rate limit, both budgets, no replaced transaction | three requests, two sponsored accounts and one that is not, a window that moves past its length. Each check of `admit` refuses what the other two let pass: a limit of 2 the third request of an account when its requests cost nothing (a price of 0 occurs); an account's budget of 11 its second reservation of 6, unless the first is settled at 5; the global 16 then one of the other account. Without any one of the three the run fails |
| `relayer_live` | every posted request is answered or visibly cut off; rate limit and no replaced transaction across a restart | three requests behind each other, failed and lost broadcasts, one restart at any point, so that two of the three may be the new process's |
| `android` | no `NonceMismatch` and no nonce out of reach while in step with the chain; each waiting call returns or throws | three overlapping calls: one that reserves, one that builds on it, one that finds out; every outcome of each, a TTL that one tick of the clock passes (a reservation of the same tick still stands), one foreign action, any number of manual resets |
| `ios` | no `NonceMismatch` for calls made one after the other while in step | three calls and a longer clock |
| `biometric` | one resumption, no orphaned prompt, no waiting behind the latch | two signatures, so that callbacks of one are queued behind the other's |
| `relayer_lost_reply` `android_fallback` `ios_overlap` | statements of the sources that the code does not keep, see section 5 | small instances that show it |

Every bound is a CONSTANT in a guard: `MaxNonce`, `MaxDepth`, `MaxSigned`, `MaxTime`, `MaxForeign`, `MaxRestarts`, `MaxFaults`, `MaxLines` and `MaxWords`. Runs with `CHECK_DEADLOCK FALSE` model systems that may really stop: when
all requests or calls are over and the clock has reached its bound, nothing is left to
do. The contract's runs check deadlock: a transaction can always begin or end.

`SpendingBounded` holds while prices do not rise after the quote and no reply is
lost (`PriceRises`, `LostReplies` are FALSE in `relayer`); `relayer_lost_reply` shows
what a lost reply does. `relayer_live` sets both to TRUE; it has one price and one amount of gas, so
that only the former has an effect there.

**Symmetry.** Requests (`Posts`) and calls (`AnyOrder`) are interchangeable in the runs
that use it. These check invariants and box-action properties, no
liveness; the runs with liveness use none.

**Fairness.** `Relayer!FairSpec`: each handler moves on, because every read, send and
receipt wait of viem has a timeout; nothing is assumed of clients, clock or
miners. `AndroidClient!FairSpec`: RPC, prompt and relay answer or time out (weak fairness), and
the coroutine mutex is fair, so a waiting call gets it when it is free again and
again (strong fairness). `BiometricSign!FairSpec`: the main thread and a canceller's thread run; nothing is assumed of the user. A call need never be made and an action need never land.
The contract has no scheduling of its own and no liveness property.

## 4. The proofs

`P256AccountProofs` proves, for any number of chains, addresses, keys, calls, batches, signatures and
any nesting depth, assuming only `ConstantsAssumption` (the owner slot's initial value is no key, bad points are no keys,
calls go out or to the account itself, bounds are naturals):

* `TypeCorrect`: `Spec => []TypeOK`. Among the types is that a deployed account's owner
  is a usable key.
* `GuardAlwaysExact`: `Spec => []GuardExact`. The guard is latched exactly while one authorised
  call of the account is on the stack, and there is never a second.

`GuardExact` is not inductive: when a frame fails, the chain becomes what that frame saved, so
the invariant has to speak of every saved chain, too. The
strengthening `IInv` says that each frame's saved chain has its guards latched for exactly
the accounts with a frame *below* it (`Unwindable`), that the present chain has them for exactly the
accounts on the whole stack (`GuardBelow`), that no account has two frames, and that foreign and account frames
alternate from the sender up, so that a callee always returns to an account frame with a next call. `Resume`, where all exit paths of `execute` and `execute_batch` meet, then
has one case per exit path. The helper lemmas are about `Front`, `Last` and `Append` on stacks.

From the same assumption:

* `LogsAlwaysInNonceOrder`: `Spec => []LogInNonceOrder`.
* `OwnLogAlwaysFirst`: `Spec => []OwnLogFirst`, what `awaitExecuted` takes for granted of a receipt.

Both rest on what the guard buys. `LogInv` says: while an operation is on the stack, its account's nonce is one
above the operation's, and its log has grown by exactly the calls the operation has completed. As a failing frame
puts back an older chain, the same is required of each saved chain, for the frames below the one that saved it; and no
chain in force is behind one saved earlier (`NotBefore`).

Last, what a signature is good for. No two intents have one digest (a lemma per field, given
that keccak is injective and the domains and type hashes differ), from which follow:

* `ConsumedAsSigned`: `Spec => [][SignedStep]_vars`. A step that consumes a nonce consumes one, under a signature
  that the owner of that moment made for this account, chain and nonce, and what it starts, or for a rotation does, is what
  was signed.
* `LoginAlwaysMeansLogin`: `Spec => []LoginMeansLogin`.

`P256LedgerProofs` reads whole logs, from `ConstantsAssumption` again:

* `EffectsAlwaysMatchLog`: `Spec => []EffectsMatchLog`. The calls that took effect are the ones the log
  reports as successful, in its order.
* `OneOutcomeEach`, `EveryOutcomeAlwaysSigned`, `OwnerAlwaysRebuildable`: `EachNonceOneOutcome`, `EveryOutcomeSigned` and
  `OwnerRebuildable` always hold.
* `LedgerRefinement`: `Spec => LedgerImplemented`, the contract implements `AccountLedger`.

`EffectsInv` relates effects and log. The i-th logged success is the i-th effect (`Told`), and there are no more
effects than that (`Matched`); only an account waiting for a call is one effect ahead of its log (`Ahead`). `HistoryInv` is about
accounts at rest: the log is `OwnerInitialized` and then the outcome of each nonce, of the shape
of one operation, signed by the key that the rotations before it leave in charge (`Settled`). An account in the middle
of an operation is described against the account at rest that its frame saved: the same, plus the
events of the calls completed so far (`Running`), and no later log rewrites an earlier one (`Extends`). Both are required of each chain that a frame saved, too,
because a failing frame brings it back. For the refinement, the committed chain changes only when a transaction
ends (`CommittedStep`); then every account is at rest, and what it settled since is signed
and continues its ledger, whatever number of operations that is (`EndTxSettles`).

`P256ChecksProofs` is about the code behind the words strict and good:

* `OneEncodingAlways`: `Spec => []OneEncoding`, for every curve and whatever `SmallCurve`'s
  group is: accepted scalars are below n and s at most half of it, and of s and n - s only one is. It assumes `CurveAssumption`: n = 2 · HalfOrder + 1, and
  n and p fit in a word.
* `OwnerAlwaysUsable` and `HonestAlwaysPasses`: `OwnerUsable` and `OwnerSignaturesPass` always hold. They assume
  `GroupAssumption` as well, the facts about the curve that are P-256's and not the code's: private keys have inverses modulo n and different public
  keys, opposite ones share their x, and whatever satisfies the curve equation is a public key. TLC evaluates it on the small curve in `arithmetic`.

The arithmetic is modulo m without division (`Congruent`): the three modular helpers of the contract return the residue that
the curve equation needs without leaving the word, and replacing s by n - s keeps a signature valid.

`HarnessProofs` proves, for any number of faults and any outputs of `cargo stylus`, from `HarnessAssumption` (the keys of different
tests differ), `ScriptAssumption` (scripts call what the contract's model can call) and `ConstantsAssumption`:

* `ExitAlwaysTruthful`, `HarnessTypesCorrect`: `ExitTruthful` and `HarnessTypeOK` always hold.
* `PassAlwaysMeansDone`: `HarnessSpec => []PassMeansDone`.
* `IsolatedAlways`: `HarnessSpec => []Isolated`.

`Control` is the first one's invariant: what is left of the plan is what has no verdict. For the last one, every step of the harness is
shown to keep the contract's `IInv`, and the contract's state is followed through each phase of a command (`Phases`): between
two commands each account has settled operations of its own test's script only, with its nonces and keys (`OnScript`).
Which of them, the checks tell (`Learned`): the last check of every script reads the
nonce, which is only the number of operations in the script if all have settled, and a parsed failure is an event of this very account. What the scripts have
to be like for that is `WellScripted`, proved of each of the five.

For `IsolatedAlways` each script gets a `Timetable`: the nonce, the owner and the money of the account before each of its
steps, as the script itself has them (`Timed`, proved of each of the five). A test without a fault keeps to it (`OnTime`): its account
accepts every command, as the digests agree; the call that has to fail does fail, as the account has what it was sent and no more
(`NothingPaid`) or its own fallback reverts; its event is what the parser finds in the receipt (`ParsedOne`);
and a readable output yields the account's address (`ReadableAddress`). A test still to come has neither an account nor money (`Untouched`).

`RelayerProofs` proves, for any policy, prices, numbers of requests, accounts and restarts, with lost replies and rising prices,
from `PolicyAssumption` and `RelayerAssumption` (the requests are finite, sponsored accounts are accounts, amounts are naturals):

* `RelayerTypeCorrect`, `BooksAlwaysExact`, `RateAlwaysLimited` and `NothingEverReplaced`: TypeOK,
  `BooksExact`, `RateLimited` and `NothingReplaced` always hold.

* `SpendingAlwaysBounded`: `Spec => []SpendingBounded`, under the two conditions the property names, `~LostReplies` and `~PriceRises`. They are
  stated as hypotheses: `relayer_lost_reply` shows that it fails without the first.

The strengthening `RelayerInv` has three parts. `Phases`: at which await what is settled of a request (its account, price, answer). `Books`:
a list holds only live reservations and all of those in the window; it may hold older ones, which is
why exactness is stated of pruned lists. `Sends`: only the head of the queue is signing, its nonce is free in the node's pool, and the pool's
nonces differ. For the rate limit, a window that holds the present moment holds only what `admit` has just
counted, and the new reservation; any other window gains nothing.
For the budgets, a transaction costs at most what its reservation is worth, and there is none without a reservation (`Accounted`); the
reservations of every window are within the budgets (`Budgets`). A sum over a set is a fold, about which nothing can be proved by induction here; the lemmas
count coins instead: the sum of f over S is the cardinality of the pairs of an x in S and a number up to f[x].

`AndroidClientProofs` and `IosClientProofs` prove, for any number of calls, from `WorldAssumption` and
`ClientAssumption` (bounds are naturals, the placeholders for no call and no nonce are neither):

* `ClientTypeCorrect` for both.
* `CalmAlwaysApplied` and `NonceAlwaysReachable`: `CalmMeansApplied` and `NonceReachable` always hold of the Kotlin client.
* `SerialCallsAlwaysApplied`: `SerialCallsApplied` always holds of the Swift client.

`ClientInv` says of a client in step (`Calm`): the actions on the way carry, in their order, the nonces from the chain's on (`InARow`); the
reservation is the first after them, or there is nothing on the way and it counts for nothing (`Spent`: there is none, or the chain has overtaken it),
which is `Reserve`; except between a broadcast and its commit, when the one call that is
inside has signed the last of them (`NonceOf`). That there is only one is the mutex's doing in Kotlin (`Mutex`), and the
caller's in Swift (`Alone`): this is where the two clients differ. A call that starts from the chain's nonce with nothing on
the way establishes all of it whatever was before, which is the recovery. Types, `OnTheWay`, `HeldIsDone` and `SeenBehind` hold in and out of step.
An action that lands in step then has the chain's nonce (`NoneMismatches`).

`BiometricSignProofs` proves `ResumedAtMostOnce`, `FairSpec => []ResumedOnce`, and `SignerTypeCorrect`, for any number of signatures, from no
assumption. The strengthening `Latched` says what the latch is for: a callback past it finds its continuation
unresumed, and a resumed continuation has its latch set. `HandlerFirst`, a part of TypeOK, says that no prompt is put
up before its cancellation handler is registered.

Every safety property of a passing run has a theorem. Model-checked only: all liveness (fairness and ENABLED are beyond this
prover).

## 5. Where code and comments part

* `lib.rs:338` says a callee may call back into `execute` with a fresh signature; the guard at
  `lib.rs:707` refuses it. The code is the stricter of the two, and `GuardExact` is what it keeps.
* `roundtrip.ts:47` says a self-call with empty data reverts; it reaches `receive()` and
  succeeds (no run of its own: `CallSelf`, data `empty`).
* `server.ts:209` says nothing was broadcast when sending throws; when only the reply got lost,
  something was, and its reservation is gone (`relayer_lost_reply`). The Kotlin
  client says the same of its relay at `P256Account.kt:156`, with the same gap.
* `guard.ts:57` bounds what is spent within a window; what is bounded is what is admitted within
  it, as transactions of two windows may be mined in one. That is why `SpendingBounded` speaks of admission.
* `P256Account.swift:157` says actor isolation provides mutual exclusion; an actor takes
  up other calls at each await, and two overlapping calls sign the same nonce (`ios_overlap`). The Kotlin client's
  mutex does what is said here.
* `kt:56`, `kt:147` and `P256Account.swift:163` have a reservation fall back to the chain's nonce after the TTL without
  progress of the chain. What is measured is the time since the last relayed action, which may be a dead one: a client that is used once per TTL
  never falls back (`android_fallback`; the Swift code is the same). A relay that refuses unreachable nonces ends this, as a call that throws renews nothing;
  one that broadcasts and pays for the revert does not.

Some more, without a run of their own:

* `P256Account.kt:125` says that the reservation is what fixes two independent actions. It does while each
  takes its nonce. A batch that reverts on chain does not (`kt:207` and `lib.rs:482` say so themselves), and an action signed after
  it is refused with `NonceMismatch`: `calm` ends with `RevertsInTurn`, and the first steps of `android_fallback` show it. This repository's own relayer makes that rare: it
  estimates the action's gas first (`server.ts:167`) and refuses what would revert there. The Swift client is the same, `P256Account.swift:152`.
* `kt:165` and `P256Account.swift:194` say that after `resetNonce` the next call resynchronises with the chain; a call that was in front of the
  prompt meanwhile commits its own nonce over the reset. In step with the chain this does no harm (`Mended`); when it is done to get rid of
  a dead reservation, it has no effect.
* `devnode-tests/README.md:9` says `happy_path` asserts "ETH transferred", and `main.rs:5` "inner call succeeds", but the test reads
  the nonce alone: it passes also if the funding reverted and the call failed for want of money. `PassMeansDone` claims no more for it.

Other things the harness does not check, found while modelling it:

* The header of `rotate_owner` speaks of the `OwnerRotated` event (`main.rs:11`), which is not looked at, and nothing
  shows that the old key is refused afterwards.
* In `extract_deployed_address` the deployer is skipped in the second pass only: a line with an announcing phrase that starts with the deployer's
  address is taken for the account's. `Readable` states what is assumed of `cargo stylus`.

## 6. Not modelled

Keccak, hex, JSON and ABI encoding, the SDKs' own big-integer arithmetic, action templates, example apps, the
conformance runner and scripts: they keep no state, and golden vectors compare them byte for byte. Balances
are not tracked by the account: that a call fails for want of value is a choice (the harness, which is about one such
failure, tracks what it funded). Return data, calldata sizes and gas
amounts inside the contract are left out; running out of gas is a choice. The relayer's body reading is
a sequence of Node stream events before the handler starts. `awaitExecuted` is a bounded poll
that keeps no state. The simulator is a script's stand-in for the chain. The harness's version warnings
and its parsers' own unit tests are left out.

## 7. Plan

What would come next, in order:

1. `Pipeline`: clients, relayer and account in one model. A client that reserves ahead posts nonces the
   relayer refuses until they are next; lost replies lead to retries. At most once per
   call, and which refusals are final.
2. Reading the body: data after the limit, `end` after a reject.
3. `Simulator`: same verdicts as the contract on each sequence of submissions.
4. Pure algorithms against reference definitions: limb arithmetic of `U256.swift`, DER to `r||s`, ABI head and tail.
