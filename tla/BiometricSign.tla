--------------------------- MODULE BiometricSign ---------------------------
(***************************************************************************)
(* The biometric half of StrongBoxP256Signer.sign: a coroutine suspends on *)
(* the main thread, shows a BiometricPrompt and is resumed by the prompt's *)
(* callbacks or cancelled by whoever started it, on any thread.            *)
(*                                                                         *)
(* The main thread runs one thing at a time: the body of                   *)
(* suspendCancellableCoroutine, a callback, or a task posted to the main   *)
(* executor.  `main` says what it is in the middle of, and other threads   *)
(* run in between its steps.  Several signatures may be under way: signHash *)
(* does not wait for the nonce mutex that keeps executes apart.            *)
(***************************************************************************)
EXTENDS Sequences

CONSTANT Signs   \* calls of sign, made once each

VARIABLES
    main,       \* Idle, or [sign |-> s, at |-> the next step for s]
    queue,      \* what was posted to the main executor
    cont,       \* cont[s]: the continuation of s
    settled,    \* settled[s]: the latch
    handler,    \* handler[s]: the cancellation handler
    prompt,     \* prompt[s]: what the user sees
    crashed     \* a continuation was resumed twice: IllegalStateException

vars == <<main, queue, cont, settled, handler, prompt, crashed>>

Idle == [sign |-> "none", at |-> "idle"]
Task(s, what) == [sign |-> s, what |-> what]
At(s, step) == main = [sign |-> s, at |-> step]

(* Variants with a planted mistake.  Nothing uses them but the mutation    *)
(* runs, which put one in the place of the definition it varies.           *)
Unlatched(s) == TRUE
LatchOnly(s) == queue
ErrorIgnored(s) == Idle

-----------------------------------------------------------------------------
\* settled.compareAndSet(false, true) says yes.
Latch(s) == ~settled[s]

\* The cancellation handler hops to the main thread to dismiss the prompt.
HopToMain(s) == Append(queue, Task(s, "cancelPrompt"))

\* onAuthenticationError, past the latch.
OnAuthenticationError(s) == [sign |-> s, at |-> "fail"]

\* onAuthenticationSucceeded, past the latch: `at` is "return", or "fail" if the
\* result carries no Signature.
OnAuthenticationSucceeded(s, at) == [sign |-> s, at |-> at]

-----------------------------------------------------------------------------
(* The body of suspendCancellableCoroutine. *)

Start(s) ==
    /\ main = Idle
    /\ cont[s] = "none"
    /\ cont' = [cont EXCEPT ![s] = "active"]
    /\ main' = [sign |-> s, at |-> "register"]
    /\ UNCHANGED <<queue, settled, handler, prompt, crashed>>

\* A variant with a planted mistake, as above: invokeOnCancellation is forgotten.
RegisterForgotten(s) ==
    /\ At(s, "register")
    /\ main' = [sign |-> s, at |-> "authenticate"]
    /\ UNCHANGED <<queue, cont, settled, handler, prompt, crashed>>

\* invokeOnCancellation: of a coroutine that is cancelled already, the handler
\* runs on the spot.
Register(s) ==
    /\ At(s, "register")
    /\ main' = [sign |-> s, at |-> "authenticate"]
    /\ \/ /\ cont[s] = "cancelled"
          /\ settled' = [settled EXCEPT ![s] = TRUE]
          /\ queue' = HopToMain(s)
          /\ handler' = [handler EXCEPT ![s] = "done"]
       \/ /\ cont[s] # "cancelled"
          /\ handler' = [handler EXCEPT ![s] = "registered"]
          /\ UNCHANGED <<settled, queue>>
    /\ UNCHANGED <<cont, prompt, crashed>>

Authenticate(s) ==
    /\ At(s, "authenticate")
    /\ prompt' = [prompt EXCEPT ![s] = "shown"]
    /\ main' = Idle
    /\ UNCHANGED <<queue, cont, settled, handler, crashed>>

-----------------------------------------------------------------------------
(* Cancellation, on the canceller's thread. *)

Cancel(s) ==
    /\ cont[s] = "active"
    /\ cont' = [cont EXCEPT ![s] = "cancelled"]
    /\ handler' = [handler EXCEPT ![s] = IF @ = "registered" THEN "latching" ELSE @]
    /\ UNCHANGED <<main, queue, settled, prompt, crashed>>

HandlerLatches(s) ==
    /\ handler[s] = "latching"
    /\ settled' = [settled EXCEPT ![s] = TRUE]
    /\ handler' = [handler EXCEPT ![s] = "posting"]
    /\ UNCHANGED <<main, queue, cont, prompt, crashed>>

HandlerPosts(s) ==
    /\ handler[s] = "posting"
    /\ queue' = HopToMain(s)
    /\ handler' = [handler EXCEPT ![s] = "done"]
    /\ UNCHANGED <<main, cont, settled, prompt, crashed>>

-----------------------------------------------------------------------------
(* The prompt.  Its callbacks are delivered through the main executor. *)

\* The biometric matches.  An error may follow the success.
UserAuthenticates(s) ==
    /\ prompt[s] = "shown"
    /\ prompt' = [prompt EXCEPT ![s] = "closed"]
    /\ LET success == Append(queue, Task(s, "succeeded"))
       IN  queue' \in {success, Append(success, Task(s, "error"))}
    /\ UNCHANGED <<main, cont, settled, handler, crashed>>

\* The user dismisses the prompt, or it locks or times out.
PromptFails(s) ==
    /\ prompt[s] = "shown"
    /\ prompt' = [prompt EXCEPT ![s] = "closed"]
    /\ queue' = Append(queue, Task(s, "error"))
    /\ UNCHANGED <<main, cont, settled, handler, crashed>>

-----------------------------------------------------------------------------
(* The main thread takes the next task. *)

Takes(s, what) ==
    /\ main = Idle
    /\ queue # <<>>
    /\ Head(queue) = Task(s, what)

Succeeded(s) ==
    /\ Takes(s, "succeeded")
    /\ queue' = Tail(queue)
    /\ IF Latch(s)
       THEN \E at \in {"return", "fail"} : main' = OnAuthenticationSucceeded(s, at)
       ELSE UNCHANGED main
    /\ settled' = [settled EXCEPT ![s] = TRUE]
    /\ UNCHANGED <<cont, handler, prompt, crashed>>

Error(s) ==
    /\ Takes(s, "error")
    /\ queue' = Tail(queue)
    /\ main' = IF Latch(s) THEN OnAuthenticationError(s) ELSE Idle
    /\ settled' = [settled EXCEPT ![s] = TRUE]
    /\ UNCHANGED <<cont, handler, prompt, crashed>>

\* prompt.cancelAuthentication(): a prompt on screen goes, and reports an error.
CancelAuthentication(s) ==
    /\ Takes(s, "cancelPrompt")
    /\ queue' = IF prompt[s] = "shown"
                THEN Append(Tail(queue), Task(s, "error"))
                ELSE Tail(queue)
    /\ prompt' = [prompt EXCEPT ![s] = IF @ = "shown" THEN "closed" ELSE @]
    /\ UNCHANGED <<main, cont, settled, handler, crashed>>

\* cont.resume or cont.resumeWithException: a cancelled continuation ignores it,
\* one resumed before throws.
Resume(s, outcome) ==
    /\ cont' = [cont EXCEPT ![s] = IF @ = "active" THEN outcome ELSE @]
    /\ crashed' = (crashed \/ cont[s] \in {"signature", "exception"})
    /\ main' = Idle
    /\ UNCHANGED <<queue, settled, handler, prompt>>

ResumeAny(s) ==
    \/ At(s, "return") /\ Resume(s, "signature")
    \/ At(s, "fail") /\ Resume(s, "exception")

-----------------------------------------------------------------------------
Init ==
    /\ main = Idle
    /\ queue = <<>>
    /\ cont = [s \in Signs |-> "none"]
    /\ settled = [s \in Signs |-> FALSE]
    /\ handler = [s \in Signs |-> "none"]
    /\ prompt = [s \in Signs |-> "none"]
    /\ crashed = FALSE

MainThread(s) ==
    \/ Register(s)
    \/ Authenticate(s)
    \/ Succeeded(s)
    \/ Error(s)
    \/ CancelAuthentication(s)
    \/ ResumeAny(s)

Handler(s) == HandlerLatches(s) \/ HandlerPosts(s)

Next ==
    \E s \in Signs :
        \/ Start(s)
        \/ MainThread(s)
        \/ Cancel(s)
        \/ Handler(s)
        \/ UserAuthenticates(s)
        \/ PromptFails(s)

\* Threads run.  Nothing is assumed of the user or of who cancels.
FairSpec ==
    /\ Init
    /\ [][Next]_vars
    /\ WF_vars(\E s \in Signs : MainThread(s))
    /\ \A s \in Signs : WF_vars(Handler(s))

-----------------------------------------------------------------------------
Tasks == [sign : Signs, what : {"succeeded", "error", "cancelPrompt"}]

\* A prompt is put up only once the handler that can take it down is there.
HandlerFirst ==
    \A s \in Signs : At(s, "authenticate") \/ prompt[s] # "none" => handler[s] # "none"

TypeOK ==
    /\ main \in {Idle} \cup
            [sign : Signs, at : {"register", "authenticate", "return", "fail"}]
    /\ queue \in Seq(Tasks)
    /\ cont \in [Signs -> {"none", "active", "signature", "exception", "cancelled"}]
    /\ settled \in [Signs -> BOOLEAN]
    /\ handler \in [Signs -> {"none", "registered", "latching", "posting", "done"}]
    /\ prompt \in [Signs -> {"none", "shown", "closed"}]
    /\ crashed \in BOOLEAN
    /\ HandlerFirst

\* "resuming a continuation twice throws IllegalStateException": it never does,
\* whatever callbacks a prompt delivers and whenever the coroutine is cancelled.
ResumedOnce == ~crashed

\* A cancelled signature leaves no prompt on the screen, also when it was
\* cancelled before the prompt was there.
CancelledPromptCloses ==
    \A s \in Signs : cont[s] = "cancelled" ~> [](prompt[s] # "shown")

\* A prompt that is gone has told its coroutine: no signature, and with it no
\* holder of the nonce mutex, waits for ever behind the latch.
AnsweredPromptResumes ==
    \A s \in Signs : prompt[s] = "closed" ~> cont[s] # "active"
=============================================================================
