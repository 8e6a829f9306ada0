------------------------ MODULE BiometricSignProofs ------------------------
(***************************************************************************)
(* No continuation is resumed twice, for any number of signatures.         *)
(*                                                                         *)
(* ResumedOnce is not inductive: a callback that has passed the latch but  *)
(* not resumed yet must find its continuation unresumed, and a resumed     *)
(* continuation must have its latch set, so that no later callback passes. *)
(***************************************************************************)
EXTENDS BiometricSign, SequenceTheorems, TLAPS

\* The main thread is between a callback's latch and its resumption of s.
Resuming(s) == At(s, "return") \/ At(s, "fail")

Resumed(s) == cont[s] \in {"signature", "exception"}

Latched ==
    \A s \in Signs :
        /\ Resuming(s) => settled[s] /\ ~Resumed(s)
        /\ Resumed(s) => settled[s]

\* The inductive invariant.
IInv == TypeOK /\ Latched /\ ResumedOnce

\* Tasks are posted, and taken from the head.
LEMMA QueueType ==
    ASSUME NEW q \in Seq(Tasks), NEW s \in Signs,
           NEW what \in {"succeeded", "error", "cancelPrompt"}
    PROVE  Append(q, Task(s, what)) \in Seq(Tasks)
<1>1. Task(s, what) \in Tasks
  BY DEF Task, Tasks
<1> QED
  BY <1>1, AppendProperties

LEMMA TailType ==
    ASSUME NEW q \in Seq(Tasks), q # <<>>
    PROVE  Tail(q) \in Seq(Tasks)
BY HeadTailProperties

\* A step that leaves main, the latches and the continuations alone.
LEMMA SameLatches ==
    ASSUME IInv, UNCHANGED <<main, cont, settled, crashed>>
    PROVE  Latched' /\ ResumedOnce'
BY DEF IInv, Latched, ResumedOnce, Resuming, Resumed, At

LEMMA InitIInv == Init => IInv
<1> SUFFICES ASSUME Init PROVE IInv
  OBVIOUS
<1>1. TypeOK
  <2>1. queue \in Seq(Tasks)
    BY DEF Init
  <2>2. HandlerFirst
    BY DEF Init, HandlerFirst, At, Idle
  <2> QED
    BY <2>1, <2>2 DEF Init, TypeOK
<1>2. Latched
  BY DEF Init, Latched, Resuming, Resumed, At, Idle
<1> QED
  BY <1>1, <1>2 DEF Init, IInv, ResumedOnce

\* Every step that puts up a prompt finds its handler registered.
LEMMA HandlerStep ==
    ASSUME TypeOK, NEW s \in Signs,
           Start(s) \/ MainThread(s) \/ Cancel(s) \/ Handler(s)
               \/ UserAuthenticates(s) \/ PromptFails(s)
    PROVE  HandlerFirst'
<1> SUFFICES ASSUME NEW t \in Signs, At(t, "authenticate")' \/ prompt'[t] # "none"
             PROVE  handler'[t] # "none"
  BY DEF HandlerFirst
<1>0. /\ handler \in [Signs -> {"none", "registered", "latching", "posting", "done"}]
      /\ prompt \in [Signs -> {"none", "shown", "closed"}]
      /\ At(t, "authenticate") \/ prompt[t] # "none" => handler[t] # "none"
  BY DEF TypeOK, HandlerFirst
<1> USE DEF At, Idle
<1>1. CASE Register(s)
  BY <1>0, <1>1 DEF Register
<1>2. CASE Start(s) \/ Cancel(s) \/ HandlerLatches(s) \/ HandlerPosts(s)
  BY <1>0, <1>2 DEF Start, Cancel, HandlerLatches, HandlerPosts
<1>3. CASE Authenticate(s) \/ UserAuthenticates(s) \/ PromptFails(s)
  BY <1>0, <1>3 DEF Authenticate, UserAuthenticates, PromptFails
<1>4. CASE Succeeded(s) \/ Error(s)
  BY <1>0, <1>4 DEF Succeeded, Error, OnAuthenticationSucceeded, OnAuthenticationError
<1>5. CASE CancelAuthentication(s) \/ ResumeAny(s)
  BY <1>0, <1>5 DEF CancelAuthentication, ResumeAny, Resume
<1> QED
  BY <1>1, <1>2, <1>3, <1>4, <1>5 DEF MainThread, Handler

\* Every step keeps the types.
LEMMA TypeStep ==
    ASSUME TypeOK, NEW s \in Signs,
           Start(s) \/ MainThread(s) \/ Cancel(s) \/ Handler(s)
               \/ UserAuthenticates(s) \/ PromptFails(s)
    PROVE  TypeOK'
<1>0. HandlerFirst'
  BY HandlerStep
<1>1. CASE Start(s)
  BY <1>0, <1>1 DEF TypeOK, Start
<1>2. CASE Register(s)
  <2>1. HopToMain(s) \in Seq(Tasks)
    BY QueueType DEF HopToMain, TypeOK
  <2> QED
    BY <1>0, <1>2, <2>1 DEF TypeOK, Register
<1>3. CASE Authenticate(s)
  BY <1>0, <1>3 DEF TypeOK, Authenticate
<1>4. CASE Succeeded(s)
  <2>1. Tail(queue) \in Seq(Tasks)
    BY <1>4, TailType DEF Succeeded, Takes, TypeOK
  <2> QED
    BY <1>0, <1>4, <2>1 DEF TypeOK, Succeeded, OnAuthenticationSucceeded
<1>5. CASE Error(s)
  <2>1. Tail(queue) \in Seq(Tasks)
    BY <1>5, TailType DEF Error, Takes, TypeOK
  <2> QED
    BY <1>0, <1>5, <2>1 DEF TypeOK, Error, OnAuthenticationError
<1>6. CASE CancelAuthentication(s)
  <2>1. Tail(queue) \in Seq(Tasks)
    BY <1>6, TailType DEF CancelAuthentication, Takes, TypeOK
  <2>2. Append(Tail(queue), Task(s, "error")) \in Seq(Tasks)
    BY <2>1, QueueType
  <2> QED
    BY <1>0, <1>6, <2>1, <2>2 DEF TypeOK, CancelAuthentication
<1>7. CASE ResumeAny(s)
  <2>1. PICK outcome \in {"signature", "exception"} : Resume(s, outcome)
    BY <1>7 DEF ResumeAny
  <2>2. cont' \in [Signs -> {"none", "active", "signature", "exception", "cancelled"}]
    BY <2>1 DEF TypeOK, Resume
  <2>3. crashed' \in BOOLEAN
    BY <2>1 DEF Resume
  <2> QED
    BY <1>0, <2>1, <2>2, <2>3 DEF TypeOK, Resume
<1>8. CASE Cancel(s)
  BY <1>0, <1>8 DEF TypeOK, Cancel
<1>9. CASE HandlerLatches(s)
  BY <1>0, <1>9 DEF TypeOK, HandlerLatches
<1>10. CASE HandlerPosts(s)
  <2>1. HopToMain(s) \in Seq(Tasks)
    BY QueueType DEF HopToMain, TypeOK
  <2> QED
    BY <1>0, <1>10, <2>1 DEF TypeOK, HandlerPosts
<1>11. CASE UserAuthenticates(s)
  <2>1. Append(queue, Task(s, "succeeded")) \in Seq(Tasks)
    BY QueueType DEF TypeOK
  <2>2. Append(Append(queue, Task(s, "succeeded")), Task(s, "error")) \in Seq(Tasks)
    BY <2>1, QueueType
  <2> QED
    BY <1>0, <1>11, <2>1, <2>2 DEF TypeOK, UserAuthenticates
<1>12. CASE PromptFails(s)
  <2>1. Append(queue, Task(s, "error")) \in Seq(Tasks)
    BY QueueType DEF TypeOK
  <2> QED
    BY <1>0, <1>12, <2>1 DEF TypeOK, PromptFails
<1> QED
  BY <1>1, <1>2, <1>3, <1>4, <1>5, <1>6, <1>7, <1>8, <1>9, <1>10, <1>11, <1>12
  DEF MainThread, Handler

\* Every step keeps the latches in order and resumes no continuation again.
LEMMA LatchStep ==
    ASSUME IInv, NEW s \in Signs,
           Start(s) \/ MainThread(s) \/ Cancel(s) \/ Handler(s)
               \/ UserAuthenticates(s) \/ PromptFails(s)
    PROVE  Latched' /\ ResumedOnce'
<1> USE DEF IInv, TypeOK, Latched, ResumedOnce, Resuming, Resumed, At
<1>1. CASE Start(s)
  BY <1>1 DEF Start
<1>2. CASE Register(s)
  BY <1>2 DEF Register
<1>3. CASE Authenticate(s)
  BY <1>3 DEF Authenticate, Idle
<1>4. CASE Succeeded(s)
  BY <1>4 DEF Succeeded, OnAuthenticationSucceeded, Latch
<1>5. CASE Error(s)
  BY <1>5 DEF Error, OnAuthenticationError, Latch, Idle
<1>6. CASE ResumeAny(s)
  BY <1>6 DEF ResumeAny, Resume, Idle
<1>7. CASE Cancel(s)
  BY <1>7 DEF Cancel
<1>8. CASE HandlerLatches(s)
  BY <1>8 DEF HandlerLatches
<1>9. CASE \/ CancelAuthentication(s) \/ HandlerPosts(s)
           \/ UserAuthenticates(s) \/ PromptFails(s)
  BY <1>9, SameLatches
  DEF CancelAuthentication, HandlerPosts, UserAuthenticates, PromptFails
<1> QED
  BY <1>1, <1>2, <1>3, <1>4, <1>5, <1>6, <1>7, <1>8, <1>9 DEF MainThread, Handler

LEMMA Inductive == IInv /\ [Next]_vars => IInv'
<1> SUFFICES ASSUME IInv, [Next]_vars PROVE IInv'
  OBVIOUS
<1>1. CASE Next
  <2>1. PICK s \in Signs :
            Start(s) \/ MainThread(s) \/ Cancel(s) \/ Handler(s)
                \/ UserAuthenticates(s) \/ PromptFails(s)
    BY <1>1 DEF Next
  <2> QED
    BY <2>1, TypeStep, LatchStep DEF IInv
<1>2. CASE UNCHANGED vars
  <2>1. TypeOK'
    BY <1>2 DEF IInv, TypeOK, HandlerFirst, At, vars
  <2> QED
    BY <1>2, <2>1, SameLatches DEF IInv, vars
<1> QED
  BY <1>1, <1>2

-----------------------------------------------------------------------------
\* Whatever callbacks a prompt delivers, in whatever order, and whenever and from
\* whatever thread signatures are cancelled: no continuation is resumed twice.
THEOREM ResumedAtMostOnce == FairSpec => []ResumedOnce
<1>1. IInv => ResumedOnce
  BY DEF IInv
<1> QED
  BY <1>1, InitIInv, Inductive, PTL DEF FairSpec

\* Prompts, queue, latches and continuations stay well formed: each queued task
\* and each callback belongs to a signature and is of a kind the signer posts, and
\* no prompt is put up before its cancellation handler is registered.
THEOREM SignerTypeCorrect == FairSpec => []TypeOK
<1>1. IInv => TypeOK
  BY DEF IInv
<1> QED
  BY <1>1, InitIInv, Inductive, PTL DEF FairSpec
=============================================================================
