------------------------- MODULE P256AccountProofs -------------------------
(***************************************************************************)
(* The account, for every set of accounts, keys, calls, batches and        *)
(* challenges, every nonce and every depth of the call stack: its types    *)
(* and guards (TypeOK, GuardExact), the order of its logs                  *)
(* (LogInNonceOrder, OwnLogFirst) and what a signature is good for         *)
(* (SignedStep, LoginMeansLogin).                                          *)
(*                                                                         *)
(* GuardExact is not inductive: a frame that fails puts back the chain it  *)
(* saved, so the guards of every SAVED chain have to agree with the frames *)
(* below the one that saved it.                                            *)
(***************************************************************************)
EXTENDS P256AccountProperties, SequenceTheorems, WellFoundedInduction, TLAPS

-----------------------------------------------------------------------------
(* Numbers. *)

\* Min and Max are what they are called.
LEMMA Least ==
    ASSUME NEW T, T \subseteq Nat, T # {}
    PROVE  \E x \in T : \A y \in T : x <= y
<1> DEFINE R == OpToRel(<, Nat)
<1>1. IsWellFoundedOn(R, Nat)
  BY NatLessThanWellFounded
<1>2. \A x, y \in Nat : y < x => <<y, x>> \in R
  BY DEF OpToRel
<1> HIDE DEF R
<1>3. PICK x \in T : \A y \in T : ~ (<<y, x>> \in R)
  BY <1>1, WFMin
<1>4. ASSUME NEW y \in T PROVE x <= y
  <2>1. x \in Nat /\ y \in Nat
    OBVIOUS
  <2>2. ~(y < x)
    BY <1>2, <1>3, <2>1
  <2> QED
    BY <2>1, <2>2
<1> QED
  BY <1>4

LEMMA Extremes ==
    ASSUME NEW n \in Nat, NEW S \in SUBSET (1 .. n), S # {}
    PROVE  /\ Min(S) \in S /\ \A x \in S : Min(S) <= x
           /\ Max(S) \in S /\ \A x \in S : x <= Max(S)
<1>0. S \subseteq Nat
  OBVIOUS
<1>1. \E x \in S : \A y \in S : x <= y
  BY <1>0, Least
<1>2. \E x \in S : \A y \in S : x >= y
  <2> DEFINE T == {n - x : x \in S}
  <2>1. T \subseteq Nat /\ T # {}
    <3>1. \A x \in S : n - x \in Nat
      OBVIOUS
    <3> QED
      BY <3>1
  <2>2. PICK u \in T : \A y \in T : u <= y
    BY <2>1, Least
  <2>3. PICK x \in S : u = n - x
    OBVIOUS
  <2>4. ASSUME NEW y \in S PROVE x >= y
    <3>1. n - y \in T
      OBVIOUS
    <3>2. n - x <= n - y
      BY <2>2, <2>3, <3>1
    <3>3. x \in Nat /\ y \in Nat
      OBVIOUS
    <3> QED
      BY <3>2, <3>3
  <2> QED
    BY <2>4
<1> QED
  BY <1>1, <1>2 DEF Min, Max

-----------------------------------------------------------------------------
(* The stack and the guards. *)

\* The guards of w are latched by exactly the first k frames.
GuardBelow(w, frames, k) ==
    \A a \in Accounts : w[a].inCall <=> \E i \in 1 .. k : Owns(frames[i], a)

\* External and account frames alternate, from the transaction's sender up,
\* and an account frame always has a next call to make.
Alternating(frames) ==
    \A i \in DOMAIN frames :
        /\ i = 1 => frames[i].kind = "ext"
        /\ i > 1 => (frames[i].kind = "ext" <=> frames[i - 1].kind # "ext")
        /\ frames[i].kind # "ext" => frames[i].next \in 1 .. Len(frames[i].calls)

\* Unwinding any frame gives back the guards of the frames below it.
Unwindable(frames) ==
    \A i \in DOMAIN frames : GuardBelow(frames[i].saved, frames, i - 1)

OneFrameEach(frames) ==
    \A a \in Accounts : \A i, j \in DOMAIN frames :
        Owns(frames[i], a) /\ Owns(frames[j], a) => i = j

StackOK(frames) ==
    /\ frames \in Seq(Frames)
    /\ Alternating(frames)
    /\ Unwindable(frames)
    /\ OneFrameEach(frames)

\* A stack and the chain it is running on.
RunOK(w, frames) ==
    /\ w \in ChainState
    /\ StackOK(frames)
    /\ GuardBelow(w, frames, Len(frames))

\* The inductive invariant.
IInv ==
    /\ RunOK(chain, stack)
    /\ signed \subseteq [key : Keys, intent : Intents]

-----------------------------------------------------------------------------
(* The two kinds of frame. *)

LEMMA ExtFrameType ==
    ASSUME NEW c \in Chains, NEW w \in ChainState
    PROVE  /\ ExtFrame(c, w) \in Frames
           /\ ExtFrame(c, w).kind = "ext"
           /\ ExtFrame(c, w).saved = w
BY DEF ExtFrame, Frames

LEMMA AccountFrameType ==
    ASSUME NEW f \in Frames, f.kind # "ext"
    PROVE  /\ f.kind \in {"execute", "batch"}
           /\ f.acct \in Accounts
           /\ f.calls \in Seq(Calls)
           /\ f.nonce \in Nat
           /\ f.next \in Nat
           /\ f.saved \in ChainState
BY DEF Frames

LEMMA SavedType ==
    ASSUME NEW f \in Frames
    PROVE  f.saved \in ChainState
BY DEF Frames

-----------------------------------------------------------------------------
(* Updates of one account keep its type. *)

LEMMA EmitType ==
    ASSUME NEW s \in AccountState, NEW e \in Events
    PROVE  /\ Emit(s, e) \in AccountState
           /\ Emit(s, e).inCall = s.inCall
<1>1. Append(s.log, e) \in Seq(Events)
  BY AppendProperties DEF AccountState
<1>2. ASSUME NEW log \in Seq(Events)
      PROVE  /\ [s EXCEPT !.log = log] \in AccountState
             /\ [s EXCEPT !.log = log].inCall = s.inCall
  BY DEF AccountState
<1> QED
  BY <1>1, <1>2 DEF Emit

LEMMA ExitType ==
    ASSUME NEW s \in AccountState
    PROVE  Exit(s) \in AccountState /\ ~Exit(s).inCall
BY DEF Exit, AccountState

LEMMA BeginType ==
    ASSUME NEW s \in AccountState, NEW n \in Nat
    PROVE  Begin(s, n) \in AccountState /\ Begin(s, n).inCall
<1>1. ASSUME NEW m \in Nat
      PROVE  /\ [s EXCEPT !.inCall = TRUE, !.nonce = m] \in AccountState
             /\ [s EXCEPT !.inCall = TRUE, !.nonce = m].inCall
  BY DEF AccountState
<1>2. n + 1 \in Nat
  OBVIOUS
<1> QED
  BY <1>1, <1>2 DEF Begin

-----------------------------------------------------------------------------
(* Stacks. *)

LEMMA PopStackOK ==
    ASSUME NEW frames, StackOK(frames), frames # <<>>
    PROVE  /\ StackOK(Front(frames))
           /\ Len(frames) \in Nat \ {0}
           /\ Len(Front(frames)) = Len(frames) - 1
           /\ \A i \in 1 .. Len(frames) - 1 : Front(frames)[i] = frames[i]
<1>1. /\ frames \in Seq(Frames)
      /\ Len(frames) \in Nat \ {0}
  BY EmptySeq DEF StackOK
<1>2. /\ Front(frames) \in Seq(Frames)
      /\ Len(Front(frames)) = Len(frames) - 1
      /\ \A i \in 1 .. Len(frames) - 1 : Front(frames)[i] = frames[i]
      /\ DOMAIN Front(frames) = 1 .. Len(frames) - 1
      /\ DOMAIN frames = 1 .. Len(frames)
  <2> DEFINE m == Len(frames) - 1
  <2>1. /\ m \in Nat
        /\ \A i \in 1 .. m : frames[i] \in Frames
    BY <1>1, ElementOfSeq
  <2>2. /\ SubSeq(frames, 1, m) \in Seq(Frames)
        /\ Len(SubSeq(frames, 1, m)) = IF 1 <= m THEN m - 1 + 1 ELSE 0
        /\ \A i \in 1 .. m - 1 + 1 : SubSeq(frames, 1, m)[i] = frames[1 + i - 1]
    BY <2>1, SubSeqProperties
  <2>3. /\ Front(frames) \in Seq(Frames)
        /\ Len(Front(frames)) = Len(frames) - 1
        /\ \A i \in 1 .. Len(frames) - 1 : Front(frames)[i] = frames[i]
    <3>1. Front(frames) = SubSeq(frames, 1, m)
      BY DEF Front
    <3> HIDE DEF m
    <3>2. m - 1 + 1 = m /\ (IF 1 <= m THEN m - 1 + 1 ELSE 0) = m
      BY <2>1
    <3>3. \A i \in 1 .. m : 1 + i - 1 = i
      BY <2>1
    <3>4. /\ Front(frames) \in Seq(Frames)
          /\ Len(Front(frames)) = m
          /\ \A i \in 1 .. m : Front(frames)[i] = frames[i]
      BY <2>2, <3>1, <3>2, <3>3
    <3> QED
      BY <3>4 DEF m
  <2> QED
    BY <1>1, <2>3, LenProperties
<1>3. Alternating(Front(frames))
  BY <1>1, <1>2 DEF StackOK, Alternating
<1>4. Unwindable(Front(frames))
  <2> SUFFICES ASSUME NEW i \in 1 .. Len(frames) - 1
               PROVE  GuardBelow(Front(frames)[i].saved, Front(frames), i - 1)
    BY <1>2 DEF Unwindable
  <2>1. GuardBelow(frames[i].saved, frames, i - 1)
    BY <1>1, <1>2 DEF StackOK, Unwindable
  <2>2. \A j \in 1 .. i - 1 : Front(frames)[j] = frames[j]
    BY <1>1, <1>2
  <2> QED
    BY <1>2, <2>1, <2>2 DEF GuardBelow
<1>5. OneFrameEach(Front(frames))
  BY <1>1, <1>2 DEF StackOK, OneFrameEach
<1> QED
  BY <1>1, <1>2, <1>3, <1>4, <1>5 DEF StackOK

LEMMA PushStackOK ==
    ASSUME NEW frames, StackOK(frames), NEW f \in Frames,
           GuardBelow(f.saved, frames, Len(frames)),
           IF frames = <<>> THEN f.kind = "ext"
           ELSE f.kind = "ext" <=> Last(frames).kind # "ext",
           f.kind # "ext" => f.next \in 1 .. Len(f.calls),
           \A a \in Accounts :
               Owns(f, a) => \A i \in 1 .. Len(frames) : ~Owns(frames[i], a)
    PROVE  /\ StackOK(Append(frames, f))
           /\ Len(Append(frames, f)) = Len(frames) + 1
           /\ Append(frames, f)[Len(frames) + 1] = f
           /\ \A i \in 1 .. Len(frames) : Append(frames, f)[i] = frames[i]
<1> DEFINE g == Append(frames, f)
           k == Len(frames)
<1>1. /\ frames \in Seq(Frames)
      /\ k \in Nat
      /\ frames = <<>> <=> k = 0
      /\ DOMAIN frames = 1 .. k
  BY EmptySeq, LenProperties DEF StackOK
<1>2. /\ g \in Seq(Frames)
      /\ Len(g) = k + 1
      /\ DOMAIN g = 1 .. k + 1
      /\ g[k + 1] = f
      /\ \A i \in 1 .. k : g[i] = frames[i]
  BY <1>1, AppendProperties
<1>3. Alternating(g)
  <2> SUFFICES ASSUME NEW i \in 1 .. k + 1
               PROVE  /\ i = 1 => g[i].kind = "ext"
                      /\ i > 1 => (g[i].kind = "ext" <=> g[i - 1].kind # "ext")
                      /\ g[i].kind # "ext" => g[i].next \in 1 .. Len(g[i].calls)
    BY <1>2 DEF Alternating
  <2>1. CASE i \in 1 .. k
    <3>1. g[i] = frames[i]
      BY <1>2, <2>1
    <3>2. i > 1 => g[i - 1] = frames[i - 1]
      BY <1>1, <1>2, <2>1
    <3> QED
      BY <1>1, <2>1, <3>1, <3>2 DEF StackOK, Alternating
  <2>2. CASE i = k + 1
    <3>1. i > 1 => g[i - 1] = Last(frames) /\ frames # <<>>
      <4> SUFFICES ASSUME i > 1
                   PROVE  g[i - 1] = Last(frames) /\ frames # <<>>
        OBVIOUS
      <4>1. i - 1 = k /\ k \in 1 .. k
        BY <1>1, <2>2
      <4>2. g[k] = frames[k]
        BY <1>2, <4>1
      <4> QED
        BY <1>1, <4>1, <4>2 DEF Last
    <3>2. i = 1 => frames = <<>>
      BY <1>1, <2>2
    <3>3. g[i] = f
      BY <1>2, <2>2
    <3>4. i = 1 => f.kind = "ext"
      BY <3>2
    <3>5. i > 1 => (f.kind = "ext" <=> g[i - 1].kind # "ext")
      BY <3>1
    <3> QED
      BY <3>3, <3>4, <3>5
  <2> QED
    BY <1>1, <2>1, <2>2
<1>4. Unwindable(g)
  <2> SUFFICES ASSUME NEW i \in 1 .. k + 1
               PROVE  GuardBelow(g[i].saved, g, i - 1)
    BY <1>2 DEF Unwindable
  <2>1. /\ g[i].saved = IF i = k + 1 THEN f.saved ELSE frames[i].saved
        /\ \A j \in 1 .. i - 1 : g[j] = frames[j]
    BY <1>1, <1>2
  <2>2. GuardBelow(g[i].saved, frames, i - 1)
    BY <1>1, <2>1 DEF StackOK, Unwindable
  <2> QED
    BY <2>1, <2>2 DEF GuardBelow
<1>5. OneFrameEach(g)
  BY <1>1, <1>2 DEF StackOK, OneFrameEach
<1> QED
  BY <1>2, <1>3, <1>4, <1>5 DEF StackOK

-----------------------------------------------------------------------------
(* Chains. *)

\* A step that leaves the guard of a as it was leaves the run in order.
LEMMA SameGuard ==
    ASSUME NEW w, NEW frames, RunOK(w, frames), NEW a \in Accounts,
           NEW s \in AccountState, s.inCall = w[a].inCall
    PROVE  RunOK([w EXCEPT ![a] = s], frames)
<1>1. w \in [Accounts -> AccountState]
  BY DEF RunOK, ChainState
<1>2. [w EXCEPT ![a] = s] \in ChainState
  BY <1>1 DEF ChainState
<1>3. \A b \in Accounts : [w EXCEPT ![a] = s][b].inCall = w[b].inCall
  BY <1>1
<1> QED
  BY <1>2, <1>3 DEF RunOK, GuardBelow

\* What the top frame of a run is.
LEMMA TopFrame ==
    ASSUME NEW w, NEW frames, RunOK(w, frames), frames # <<>>
    PROVE  LET f == Last(frames) IN
           /\ f \in Frames
           /\ GuardBelow(f.saved, frames, Len(frames) - 1)
           /\ Len(frames) = 1 => f.kind = "ext"
           /\ Len(frames) > 1 =>
                /\ Front(frames) # <<>>
                /\ f.kind = "ext" <=> Last(Front(frames)).kind # "ext"
           /\ f.kind # "ext" => f.next \in 1 .. Len(f.calls)
<1> DEFINE k == Len(frames)
<1>1. /\ frames \in Seq(Frames)
      /\ k \in Nat \ {0}
      /\ DOMAIN frames = 1 .. k
      /\ StackOK(frames)
  BY EmptySeq, LenProperties DEF RunOK, StackOK
<1>2. k \in DOMAIN frames /\ Last(frames) = frames[k]
  BY <1>1 DEF Last
<1>3. frames[k] \in Frames
  BY <1>1, <1>2, ElementOfSeq
<1>4. GuardBelow(frames[k].saved, frames, k - 1)
  BY <1>1, <1>2 DEF StackOK, Unwindable
<1>5. /\ k = 1 => frames[k].kind = "ext"
      /\ k > 1 => (frames[k].kind = "ext" <=> frames[k - 1].kind # "ext")
      /\ frames[k].kind # "ext" => frames[k].next \in 1 .. Len(frames[k].calls)
  BY <1>1, <1>2 DEF StackOK, Alternating
<1>6. ASSUME k > 1
      PROVE  Front(frames) # <<>> /\ Last(Front(frames)) = frames[k - 1]
  <2>1. /\ Len(Front(frames)) = k - 1
        /\ \A i \in 1 .. k - 1 : Front(frames)[i] = frames[i]
        /\ StackOK(Front(frames))
    BY <1>1, PopStackOK, Zenon
  <2>2. k - 1 \in 1 .. k - 1 /\ k - 1 # 0
    BY <1>1, <1>6
  <2> QED
    BY <2>1, <2>2, EmptySeq DEF Last
<1> QED
  BY <1>2, <1>3, <1>4, <1>5, <1>6

\* Unwinding the top frame.
LEMMA UnwindOK ==
    ASSUME NEW w, NEW frames, RunOK(w, frames), frames # <<>>
    PROVE  RunOK(Last(frames).saved, Front(frames))
<1> DEFINE v == Last(frames).saved
           k == Len(frames)
<1>1. /\ StackOK(Front(frames))
      /\ Len(Front(frames)) = k - 1
      /\ \A i \in 1 .. k - 1 : Front(frames)[i] = frames[i]
  BY PopStackOK DEF RunOK
<1>2. v \in ChainState /\ GuardBelow(v, frames, k - 1)
  BY TopFrame, SavedType
<1>3. GuardBelow(v, Front(frames), k - 1)
  BY <1>1, <1>2 DEF GuardBelow
<1> QED
  BY <1>1, <1>2, <1>3 DEF RunOK

\* A callee returns: its frame leaves, and no guard changes.
LEMMA PopExtOK ==
    ASSUME NEW w, NEW frames, RunOK(w, frames), frames # <<>>,
           Last(frames).kind = "ext"
    PROVE  RunOK(w, Front(frames))
<1> DEFINE k == Len(frames)
<1>1. /\ StackOK(Front(frames))
      /\ k \in Nat \ {0}
      /\ Len(Front(frames)) = k - 1
      /\ \A i \in 1 .. k - 1 : Front(frames)[i] = frames[i]
  BY PopStackOK DEF RunOK
<1>2. \A a \in Accounts : ~Owns(frames[k], a)
  BY DEF Last, Owns
<1>3. /\ \A i \in 1 .. k : i \in 1 .. k - 1 \/ i = k
      /\ \A i \in 1 .. k - 1 : i \in 1 .. k
  BY <1>1
<1>4. GuardBelow(w, frames, k)
  BY DEF RunOK
<1>5. GuardBelow(w, Front(frames), k - 1)
  BY <1>1, <1>2, <1>3, <1>4 DEF GuardBelow
<1> QED
  BY <1>1, <1>5 DEF RunOK

\* The top account frame leaves, and its account's guard is released.
LEMMA ReleaseOK ==
    ASSUME NEW w, NEW frames, RunOK(w, frames), frames # <<>>,
           Last(frames).kind # "ext",
           NEW s \in AccountState, ~s.inCall
    PROVE  RunOK([w EXCEPT ![Last(frames).acct] = s], Front(frames))
<1> DEFINE f == Last(frames)
           a == f.acct
           k == Len(frames)
           v == [w EXCEPT ![a] = s]
<1>1. /\ f \in Frames
      /\ a \in Accounts
  BY TopFrame, AccountFrameType
<1>2. /\ StackOK(Front(frames))
      /\ k \in Nat \ {0}
      /\ Len(Front(frames)) = k - 1
      /\ \A i \in 1 .. k - 1 : Front(frames)[i] = frames[i]
  BY PopStackOK DEF RunOK
<1>3. /\ w \in [Accounts -> AccountState]
      /\ v \in ChainState
      /\ v[a] = s
      /\ \A b \in Accounts : b # a => v[b] = w[b]
  BY <1>1 DEF RunOK, ChainState
<1>4. /\ DOMAIN frames = 1 .. k
      /\ frames[k] = f
      /\ Owns(frames[k], a)
      /\ \A b \in Accounts : b # a => ~Owns(frames[k], b)
  BY <1>1, LenProperties DEF RunOK, StackOK, Last, Owns
<1>5. ASSUME NEW b \in Accounts
      PROVE  v[b].inCall <=> \E i \in 1 .. k - 1 : Owns(frames[i], b)
  <2>1. CASE b = a
    <3>1. \A i \in 1 .. k - 1 : i \in 1 .. k /\ i # k
      BY <1>2
    <3>2. k \in 1 .. k
      BY <1>2
    <3>3. \A i \in 1 .. k - 1 : ~Owns(frames[i], a)
      BY <1>1, <1>4, <3>1, <3>2, Zenon DEF RunOK, StackOK, OneFrameEach
    <3> QED
      BY <1>3, <2>1, <3>3
  <2>2. CASE b # a
    <3>1. w[b].inCall <=> \E i \in 1 .. k : Owns(frames[i], b)
      BY DEF RunOK, GuardBelow
    <3>2. \A i \in 1 .. k : i \in 1 .. k - 1 \/ i = k
      BY <1>2
    <3>3. \A i \in 1 .. k - 1 : i \in 1 .. k
      BY <1>2
    <3> QED
      BY <1>3, <1>4, <2>2, <3>1, <3>2, <3>3
  <2> QED
    BY <2>1, <2>2
<1>6. GuardBelow(v, Front(frames), k - 1)
  BY <1>2, <1>5 DEF GuardBelow
<1> QED
  BY <1>2, <1>3, <1>6 DEF RunOK

\* External code starts running on top, v being the chain it finds.
LEMMA PushExtOK ==
    ASSUME NEW w, NEW v, NEW frames, RunOK(w, frames), RunOK(v, frames),
           NEW c \in Chains,
           frames # <<>> => Last(frames).kind # "ext"
    PROVE  RunOK(v, Append(frames, ExtFrame(c, w)))
<1> DEFINE f == ExtFrame(c, w)
           g == Append(frames, f)
           k == Len(frames)
<1>1. f \in Frames /\ f.kind = "ext" /\ f.saved = w
  BY ExtFrameType DEF RunOK
<1>2. \A a \in Accounts : ~Owns(f, a)
  BY <1>1 DEF Owns
<1>3. GuardBelow(f.saved, frames, k) /\ StackOK(frames)
  BY <1>1 DEF RunOK
<1>4. /\ StackOK(g)
      /\ Len(g) = k + 1
      /\ g[k + 1] = f
      /\ \A i \in 1 .. k : g[i] = frames[i]
  <2> HIDE DEF f
  <2> QED
    BY <1>1, <1>2, <1>3, PushStackOK
<1>5. k \in Nat
  BY LenProperties DEF RunOK, StackOK
<1>6. ASSUME NEW a \in Accounts
      PROVE  v[a].inCall <=> \E i \in 1 .. k + 1 : Owns(g[i], a)
  <2>1. v[a].inCall <=> \E i \in 1 .. k : Owns(frames[i], a)
    BY DEF RunOK, GuardBelow
  <2>2. \A i \in 1 .. k + 1 : i \in 1 .. k \/ i = k + 1
    BY <1>5
  <2>3. \A i \in 1 .. k : i \in 1 .. k + 1
    BY <1>5
  <2> HIDE DEF f, g, k
  <2> QED
    BY <1>2, <1>4, <2>1, <2>2, <2>3
<1> QED
  BY <1>4, <1>6 DEF RunOK, GuardBelow

\* An authorised call starts: the guard is latched as its frame is pushed.
LEMMA PushAccountOK ==
    ASSUME NEW w, NEW frames, RunOK(w, frames), frames # <<>>,
           Last(frames).kind = "ext",
           NEW kind \in {"execute", "batch"}, NEW a \in Accounts, ~w[a].inCall,
           NEW calls \in Seq(Calls), Len(calls) # 0, NEW n \in Nat
    PROVE  RunOK([w EXCEPT ![a] = Begin(w[a], n)],
                 Append(frames, AccountFrame(kind, a, calls, n, w)))
<1> DEFINE f == AccountFrame(kind, a, calls, n, w)
           g == Append(frames, f)
           k == Len(frames)
           v == [w EXCEPT ![a] = Begin(w[a], n)]
<1>1. /\ f \in Frames
      /\ f.kind # "ext"
      /\ f.acct = a
      /\ f.saved = w
      /\ f.next = 1 /\ f.calls = calls
  BY DEF RunOK, AccountFrame, Frames
<1>2. /\ StackOK(frames)
      /\ GuardBelow(w, frames, k)
      /\ w \in [Accounts -> AccountState]
  BY DEF RunOK, ChainState
<1>3. k \in Nat /\ Len(calls) \in Nat
  BY <1>2, LenProperties DEF StackOK
<1>4. 1 \in 1 .. Len(calls)
  BY <1>3
<1>5. \A b \in Accounts : Owns(f, b) <=> b = a
  BY <1>1 DEF Owns
<1>6. \A i \in 1 .. k : ~Owns(frames[i], a)
  BY <1>2 DEF GuardBelow
<1>7. /\ v \in ChainState
      /\ v[a].inCall
      /\ \A b \in Accounts : b # a => v[b] = w[b]
  BY <1>2, BeginType DEF ChainState
<1> HIDE DEF f, v
<1>8. /\ StackOK(g)
      /\ Len(g) = k + 1
      /\ g[k + 1] = f
      /\ \A i \in 1 .. k : g[i] = frames[i]
  BY <1>1, <1>2, <1>4, <1>5, <1>6, PushStackOK
<1>9. ASSUME NEW b \in Accounts
      PROVE  v[b].inCall <=> \E i \in 1 .. k + 1 : Owns(g[i], b)
  <2>1. w[b].inCall <=> \E i \in 1 .. k : Owns(frames[i], b)
    BY <1>2 DEF GuardBelow
  <2>2. \A i \in 1 .. k + 1 : i \in 1 .. k \/ i = k + 1
    BY <1>3
  <2>3. (\A i \in 1 .. k : i \in 1 .. k + 1) /\ k + 1 \in 1 .. k + 1
    BY <1>3
  <2> HIDE DEF g, k
  <2> QED
    BY <1>5, <1>7, <1>8, <2>1, <2>2, <2>3
<1>10. RunOK(v, g)
  BY <1>7, <1>8, <1>9 DEF RunOK, GuardBelow
<1> QED
  BY <1>10 DEF f, v

\* A batch moves on to another of its calls.
LEMMA NextCallOK ==
    ASSUME NEW w, NEW frames, RunOK(w, frames), frames # <<>>,
           Last(frames).kind # "ext",
           NEW m \in 1 .. Len(Last(frames).calls)
    PROVE  RunOK(w, Append(Front(frames), [Last(frames) EXCEPT !.next = m]))
<1> DEFINE f == Last(frames)
           f2 == [f EXCEPT !.next = m]
           k == Len(frames)
           g == Append(Front(frames), f2)
<1>1. /\ StackOK(Front(frames))
      /\ k \in Nat \ {0}
      /\ Len(Front(frames)) = k - 1
      /\ \A i \in 1 .. k - 1 : Front(frames)[i] = frames[i]
  BY PopStackOK DEF RunOK
<1>2. /\ f \in Frames
      /\ f.kind # "ext"
      /\ f.calls \in Seq(Calls)
  BY TopFrame, AccountFrameType
<1>3. m \in Nat
  BY <1>2, LenProperties
<1>4. /\ f2 \in Frames
      /\ f2.kind = f.kind
      /\ f2.saved = f.saved
      /\ f2.next = m /\ f2.calls = f.calls
      /\ \A a \in Accounts : Owns(f2, a) <=> Owns(f, a)
  BY <1>2, <1>3 DEF Frames, Owns
<1>5. GuardBelow(f2.saved, Front(frames), k - 1)
  BY <1>1, <1>4, UnwindOK DEF RunOK
<1>6. /\ Front(frames) # <<>>
      /\ f2.kind = "ext" <=> Last(Front(frames)).kind # "ext"
  <2>1. k > 1
    <3>1. k # 1
      BY <1>2, TopFrame
    <3> QED
      BY <1>1, <3>1
  <2> QED
    BY <1>4, <2>1, TopFrame
<1>7. frames[k] = f /\ DOMAIN frames = 1 .. k
  BY LenProperties DEF RunOK, StackOK, Last
<1>8. ASSUME NEW a \in Accounts, Owns(f2, a), NEW i \in 1 .. k - 1
      PROVE  ~Owns(Front(frames)[i], a)
  <2>1. i \in 1 .. k /\ k \in 1 .. k /\ i # k
    BY <1>1
  <2> QED
    BY <1>1, <1>4, <1>7, <1>8, <2>1 DEF RunOK, StackOK, OneFrameEach
<1> HIDE DEF f, f2
<1>9. /\ StackOK(g)
      /\ Len(g) = k
      /\ g[k] = f2
      /\ \A i \in 1 .. k - 1 : g[i] = frames[i]
  <2>1. /\ StackOK(Append(Front(frames), f2))
        /\ Len(Append(Front(frames), f2)) = Len(Front(frames)) + 1
        /\ Append(Front(frames), f2)[Len(Front(frames)) + 1] = f2
        /\ \A i \in 1 .. Len(Front(frames)) :
              Append(Front(frames), f2)[i] = Front(frames)[i]
    BY <1>1, <1>2, <1>4, <1>5, <1>6, <1>8, PushStackOK DEF f
  <2>2. k - 1 + 1 = k
    BY <1>1
  <2> QED
    BY <1>1, <2>1, <2>2
<1>10. ASSUME NEW a \in Accounts
       PROVE  w[a].inCall <=> \E i \in 1 .. k : Owns(g[i], a)
  <2>1. w[a].inCall <=> \E i \in 1 .. k : Owns(frames[i], a)
    BY DEF RunOK, GuardBelow
  <2>2. \A i \in 1 .. k : i \in 1 .. k - 1 \/ i = k
    BY <1>1
  <2>3. \A i \in 1 .. k : Owns(g[i], a) <=> Owns(frames[i], a)
    BY <1>4, <1>7, <1>9, <2>2
  <2> QED
    BY <2>1, <2>3
<1>11. RunOK(w, g)
  BY <1>9, <1>10 DEF RunOK, GuardBelow
<1> QED
  BY <1>11 DEF f, f2

-----------------------------------------------------------------------------
(* The handlers. *)

\* Whatever an inner call did, the rest of the handler leaves the run in order.
LEMMA ResumeOK ==
    ASSUME NEW w, NEW frames, NEW result, RunOK(w, frames), frames # <<>>,
           Last(frames).kind # "ext", Resume(frames, w, result)
    PROVE  RunOK(chain, stack)'
<1> DEFINE f == Last(frames)
           a == f.acct
           success == ExecuteOutcome(result)
           executed == [type |-> "Executed", call |-> f.calls[f.next],
                        nonce |-> f.nonce, success |-> success]
           batchExecuted == [type |-> "BatchExecuted", calls |-> Len(f.calls),
                             nonce |-> f.nonce]
           logged == Emit(w[a], executed)
<1>1. /\ f \in Frames
      /\ f.kind \in {"execute", "batch"}
      /\ a \in Accounts
      /\ f.calls \in Seq(Calls)
      /\ f.nonce \in Nat
      /\ f.next \in Nat
      /\ f.next \in 1 .. Len(f.calls)
  BY TopFrame, AccountFrameType
<1>2. /\ f.calls[f.next] \in Calls
      /\ Len(f.calls) \in Nat
      /\ success \in BOOLEAN
  BY <1>1, ElementOfSeq, LenProperties DEF ExecuteOutcome
<1>3. executed \in Events /\ batchExecuted \in Events
  BY <1>1, <1>2 DEF Events
<1>4. w[a] \in AccountState
  BY <1>1 DEF RunOK, ChainState
<1>5. logged \in AccountState /\ logged.inCall = w[a].inCall
  BY <1>3, <1>4, EmitType
<1>6. /\ Exit(logged) \in AccountState
      /\ ~Exit(logged).inCall
      /\ Emit(logged, batchExecuted) \in AccountState
      /\ Exit(Emit(logged, batchExecuted)) \in AccountState
      /\ ~Exit(Emit(logged, batchExecuted)).inCall
  BY <1>3, <1>5, EmitType, ExitType
<1>7. CASE /\ chain' = [w EXCEPT ![a] = Exit(logged)]
           /\ stack' = Front(frames)
  BY <1>6, <1>7, ReleaseOK
<1>8. CASE /\ chain' = f.saved
           /\ stack' = Front(frames)
  BY <1>8, UnwindOK
<1>9. CASE /\ chain' = [w EXCEPT ![a] = logged]
           /\ f.next < Len(f.calls)
           /\ stack' = Append(Front(frames), [f EXCEPT !.next = @ + 1])
  <2>1. f.next + 1 \in 1 .. Len(f.calls)
    BY <1>1, <1>2, <1>9
  <2>2. RunOK(w, Append(Front(frames), [f EXCEPT !.next = f.next + 1]))
    BY <2>1, NextCallOK
  <2> QED
    BY <1>1, <1>5, <1>9, <2>2, SameGuard
<1>10. CASE /\ chain' = [w EXCEPT ![a] = Exit(Emit(logged, batchExecuted))]
            /\ stack' = Front(frames)
  BY <1>6, <1>10, ReleaseOK
<1> QED
  BY <1>7, <1>8, <1>9, <1>10 DEF Resume, BatchCallFailed

-----------------------------------------------------------------------------
LEMMA InitIInv == Init => IInv
<1> SUFFICES ASSUME Init PROVE IInv
  OBVIOUS
<1>1. FreshAccount \in AccountState /\ ~FreshAccount.inCall
  BY EmptySeq DEF FreshAccount, AccountState
<1>2. /\ chain \in ChainState
      /\ \A a \in Accounts : ~chain[a].inCall
  BY <1>1 DEF Init, ChainState
<1>3. /\ stack = <<>> /\ Len(stack) = 0 /\ stack \in Seq(Frames)
      /\ DOMAIN stack = {}
  BY EmptySeq, LenProperties DEF Init
<1>4. StackOK(stack)
  BY <1>3 DEF StackOK, Alternating, Unwindable, OneFrameEach
<1>5. GuardBelow(chain, stack, Len(stack))
  BY <1>2, <1>3 DEF GuardBelow
<1> QED
  BY <1>2, <1>4, <1>5 DEF IInv, RunOK, Init

\* Between two transactions nothing is on the stack and no guard is latched.
LEMMA EmptyStackOK ==
    ASSUME NEW w \in ChainState, GuardBelow(w, <<>>, 0)
    PROVE  RunOK(w, <<>>)
<1>1. <<>> \in Seq(Frames) /\ Len(<<>>) = 0 /\ DOMAIN <<>> = {}
  BY EmptySeq
<1> QED
  BY <1>1 DEF RunOK, StackOK, Alternating, Unwindable, OneFrameEach

\* An inner call of the running operation takes effect.
LEMMA DeliverRunOK ==
    ASSUME IInv, InAccount
    PROVE  LET f == Last(stack)
               w == Deliver(chain, f.acct, f.calls[f.next], f.nonce)
           IN  /\ stack # <<>> /\ f.kind # "ext"
               /\ f.acct \in Accounts
               /\ RunOK(w, stack)
<1> DEFINE f == Last(stack)
           a == f.acct
           d == [call |-> f.calls[f.next], nonce |-> f.nonce]
           s == [chain[a] EXCEPT !.delivered = Append(chain[a].delivered, d)]
<1>0. /\ chain \in [Accounts -> AccountState]
      /\ RunOK(chain, stack)
  BY DEF IInv, RunOK, ChainState
<1>1. stack # <<>> /\ f.kind # "ext"
  BY DEF InAccount, Top
<1>2. /\ f \in Frames
      /\ a \in Accounts
      /\ f.calls \in Seq(Calls)
      /\ f.nonce \in Nat
      /\ f.next \in 1 .. Len(f.calls)
  BY <1>0, <1>1, TopFrame, AccountFrameType
<1>3. d \in [call : Calls, nonce : Nat]
  BY <1>2, ElementOfSeq
<1>4. Append(chain[a].delivered, d) \in Seq([call : Calls, nonce : Nat])
  BY <1>0, <1>2, <1>3, AppendProperties DEF AccountState
<1>5. ASSUME NEW q \in Seq([call : Calls, nonce : Nat])
      PROVE  /\ [chain[a] EXCEPT !.delivered = q] \in AccountState
             /\ [chain[a] EXCEPT !.delivered = q].inCall = chain[a].inCall
  BY <1>0, <1>2 DEF AccountState
<1>6. RunOK([chain EXCEPT ![a] = s], stack)
  BY <1>0, <1>2, <1>4, <1>5, SameGuard
<1> QED
  BY <1>1, <1>2, <1>6 DEF Deliver

\* An accepted execute, whoever made the signature.
LEMMA ExecuteIInv ==
    ASSUME IInv, NEW a \in Accounts, NEW call \in Calls, NEW n \in Nat, NEW sig,
           Execute(a, call, n, sig)
    PROVE  IInv'
<1>1. /\ stack # <<>> /\ Last(stack).kind = "ext"
      /\ ~chain[a].inCall
      /\ UNCHANGED signed
  BY DEF Execute, CanCall, InExt, Top, Accepts, Unlocked
<1>2. <<call>> \in Seq(Calls) /\ Len(<<call>>) # 0
  OBVIOUS
<1>3. /\ chain' = [chain EXCEPT ![a] = Begin(chain[a], n)]
      /\ stack' = Append(stack, AccountFrame("execute", a, <<call>>, n, chain))
  BY DEF Execute
<1> QED
  BY <1>1, <1>2, <1>3, PushAccountOK DEF IInv

\* An accepted rotate_owner, the key of whose signature is a key.
LEMMA RotateIInv ==
    ASSUME IInv, NEW a \in Accounts, NEW p, NEW n \in Nat, NEW sig, sig.key \in Keys,
           RotateOwner(a, p, n, sig)
    PROVE  IInv'
<1> DEFINE s == [Begin(chain[a], n) EXCEPT !.owner = p]
           e == OwnerRotated(chain[a].owner, p, n)
<1>1. /\ p \in Keys
      /\ ~chain[a].inCall
      /\ chain[a].owner \in Keys
  BY DEF RotateOwner, IsValidPubkey, Accepts, ValidateAuthorisedHash,
         Unlocked, ValidSignature, PrecompileVerifies
<1>2. e \in Events
  BY <1>1 DEF OwnerRotated, Events
<1>3. chain[a] \in AccountState
  BY DEF IInv, RunOK, ChainState
<1>4. Begin(chain[a], n) \in AccountState
  BY <1>3, BeginType
<1>5. s \in AccountState
  BY <1>1, <1>4 DEF AccountState
<1>6. Exit(Emit(s, e)) \in AccountState /\ ~Exit(Emit(s, e)).inCall
  BY <1>2, <1>5, EmitType, ExitType
<1>7. Exit(Emit(s, e)).inCall = chain[a].inCall
  BY <1>1, <1>3, <1>6 DEF AccountState
<1>8. /\ chain' = [chain EXCEPT ![a] = Exit(Emit(s, e))]
      /\ UNCHANGED <<stack, signed>>
  BY DEF RotateOwner
<1> QED
  BY <1>6, <1>7, <1>8, SameGuard DEF IInv

\* A callee of an account is about to return or to revert.
LEMMA CalleeEnds ==
    ASSUME IInv, InExt, Len(stack) > 1
    PROVE  /\ Front(stack) # <<>>
           /\ Last(Front(stack)).kind # "ext"
           /\ RunOK(chain, Front(stack))
           /\ RunOK(Last(stack).saved, Front(stack))
<1>1. stack # <<>> /\ Last(stack).kind = "ext"
  BY DEF InExt, Top
<1>2. /\ Front(stack) # <<>>
      /\ Last(Front(stack)).kind # "ext"
      /\ RunOK(Last(stack).saved, Front(stack))
  BY <1>1, TopFrame, UnwindOK DEF IInv
<1>3. RunOK(chain, Front(stack))
  BY <1>1, PopExtOK DEF IInv
<1> QED
  BY <1>2, <1>3

LEMMA NextIInv == IInv /\ [Next]_vars => IInv'
<1> SUFFICES ASSUME IInv, [Next]_vars PROVE IInv'
  OBVIOUS
<1> USE DEF IInv
<1>0. /\ chain \in [Accounts -> AccountState]
      /\ RunOK(chain, stack)
  BY DEF RunOK, ChainState
<1>1. ASSUME NEW k \in Keys, NEW intent \in Intents, Sign(k, intent)
      PROVE  IInv'
  BY <1>1 DEF Sign
<1>2. ASSUME NEW c \in Chains, BeginTx(c)
      PROVE  IInv'
  <2>1. stack = <<>> /\ stack' = Append(stack, ExtFrame(c, chain))
    BY <1>2 DEF BeginTx
  <2>2. RunOK(chain, Append(stack, ExtFrame(c, chain)))
    BY <2>1, PushExtOK
  <2> QED
    BY <1>2, <2>1, <2>2 DEF BeginTx
<1>3. CASE EndTx
  <2>1. stack # <<>> /\ Len(stack) = 1 /\ Last(stack).kind = "ext"
    BY <1>3 DEF EndTx, InExt, Top
  <2>2. \A a \in Accounts : \A i \in 1 .. 1 : ~Owns(stack[i], a)
    BY <2>1 DEF Last, Owns
  <2>3. GuardBelow(chain, <<>>, 0)
    BY <2>1, <2>2 DEF RunOK, GuardBelow
  <2> QED
    BY <1>3, <2>3, EmptyStackOK DEF EndTx, RunOK
<1>4. CASE AbortTx
  <2>1. stack # <<>> /\ Len(stack) = 1
    BY <1>4 DEF AbortTx, InExt
  <2>2. /\ Last(stack).saved \in ChainState
        /\ GuardBelow(Last(stack).saved, stack, 0)
    <3>1. /\ Last(stack) \in Frames
          /\ GuardBelow(Last(stack).saved, stack, Len(stack) - 1)
      BY <2>1, TopFrame
    <3>2. Len(stack) - 1 = 0
      BY <2>1
    <3> QED
      BY <3>1, <3>2, SavedType
  <2>3. GuardBelow(Last(stack).saved, <<>>, 0)
    BY <2>2 DEF GuardBelow
  <2> QED
    BY <1>4, <2>2, <2>3, EmptyStackOK DEF AbortTx, Top
<1>5. ASSUME NEW a \in Accounts, NEW p \in Keys \cup BadPoints, Constructor(a, p)
      PROVE  IInv'
  <2> DEFINE s == [chain[a] EXCEPT !.owner = p]
             e == [type |-> "OwnerInitialized", key |-> p]
  <2>1. p \in Keys /\ e \in Events
    BY <1>5 DEF Constructor, IsValidPubkey, Events
  <2>2. s \in AccountState /\ s.inCall = chain[a].inCall
    BY <1>0, <2>1 DEF AccountState
  <2>3. Emit(s, e) \in AccountState /\ Emit(s, e).inCall = chain[a].inCall
    BY <2>1, <2>2, EmitType
  <2>4. chain' = [chain EXCEPT ![a] = Emit(s, e)] /\ UNCHANGED <<stack, signed>>
    BY <1>5 DEF Constructor
  <2> QED
    BY <2>3, <2>4, SameGuard
<1>6. ASSUME NEW a \in Accounts, NEW call \in Calls, NEW n \in 0 .. MaxNonce - 1,
             NEW sig, Execute(a, call, n, sig)
      PROVE  IInv'
  <2>1. n \in Nat
    BY ConstantsAssumption
  <2> QED
    BY <1>6, <2>1, ExecuteIInv
<1>7. ASSUME NEW a \in Accounts, NEW calls \in Batches, NEW n \in 0 .. MaxNonce - 1,
             NEW sig, ExecuteBatch(a, calls, n, sig)
      PROVE  IInv'
  <2>1. /\ stack # <<>> /\ Last(stack).kind = "ext"
        /\ ~chain[a].inCall
        /\ UNCHANGED signed
    BY <1>7 DEF ExecuteBatch, CanCall, InExt, Top, Accepts, Unlocked
  <2>2. calls \in Seq(Calls) /\ Len(calls) # 0 /\ n \in Nat
    BY <1>7, ConstantsAssumption DEF ExecuteBatch, ValidBatchShape
  <2>3. /\ chain' = [chain EXCEPT ![a] = Begin(chain[a], n)]
        /\ stack' = Append(stack, AccountFrame("batch", a, calls, n, chain))
    BY <1>7 DEF ExecuteBatch
  <2> QED
    BY <2>1, <2>2, <2>3, PushAccountOK
<1>8. ASSUME NEW a \in Accounts, NEW p \in Keys \cup BadPoints,
             NEW n \in 0 .. MaxNonce - 1, NEW sig \in Signatures, RotateOwner(a, p, n, sig)
      PROVE  IInv'
  <2>1. n \in Nat /\ sig.key \in Keys
    BY ConstantsAssumption DEF Signatures
  <2> QED
    BY <1>8, <2>1, RotateIInv
<1>9. ASSUME InAccount
      PROVE  LET f == Last(stack)
                 w == Deliver(chain, f.acct, f.calls[f.next], f.nonce)
             IN  /\ stack # <<>> /\ f.kind # "ext"
                 /\ f.acct \in Accounts
                 /\ RunOK(w, stack)
  BY <1>9, DeliverRunOK
<1>10. CASE CallExternal
  <2> DEFINE f == Last(stack)
             w == Deliver(chain, f.acct, f.calls[f.next], f.nonce)
  <2>1. /\ InAccount
        /\ chain' = w
        /\ stack' = Append(stack, ExtFrame(f.acct.chain, chain))
        /\ UNCHANGED signed
    BY <1>10 DEF CallExternal, Top
  <2>2. f.acct.chain \in Chains
    BY <1>9, <2>1 DEF Accounts
  <2> QED
    BY <1>9, <2>1, <2>2, PushExtOK
<1>11. CASE CallSelf
  <2> DEFINE f == Last(stack)
             w == Deliver(chain, f.acct, f.calls[f.next], f.nonce)
  <2>1. InAccount /\ UNCHANGED signed
    BY <1>11 DEF CallSelf
  <2>2. \/ Resume(stack, w, "ok")
        \/ Resume(stack, chain, "revert")
    BY <1>11 DEF CallSelf, Top
  <2> QED
    BY <1>9, <2>1, <2>2, ResumeOK
<1>12. CASE CalleeReturns
  BY <1>12, CalleeEnds, ResumeOK DEF CalleeReturns
<1>13. CASE CalleeReverts
  BY <1>13, CalleeEnds, ResumeOK DEF CalleeReverts, Top
<1>14. CASE AccountTraps
  BY <1>14, UnwindOK DEF AccountTraps, InAccount, Top
<1>15. CASE UNCHANGED vars
  BY <1>15 DEF vars
<1> QED
  BY <1>1, <1>2, <1>3, <1>4, <1>5, <1>6, <1>7, <1>8, <1>10, <1>11, <1>12, <1>13, <1>14,
     <1>15 DEF Next

-----------------------------------------------------------------------------
\* IInv holds in every reachable state: the account's guards agree with the call
\* stack, now and in every chain state a frame may yet restore.
THEOREM InductiveInvariant == Spec => []IInv
BY InitIInv, NextIInv, PTL DEF Spec

\* Storage, logs, stack and signatures stay well formed; in particular no
\* constructor argument and no rotation ever installs an unusable key.
THEOREM TypeCorrect == Spec => []TypeOK
<1>1. IInv => TypeOK
  BY DEF IInv, RunOK, StackOK, TypeOK
<1> QED
  BY <1>1, InductiveInvariant, PTL

\* The re-entrancy guard is exact, however deep callees call back, fail or run
\* out of gas: latched while one authorised call of the account runs, never
\* left behind by one that ended, and never passed by a second.
THEOREM GuardAlwaysExact == Spec => []GuardExact
<1>1. IInv => GuardExact
  <2>1. IInv => DOMAIN stack = 1 .. Len(stack)
    BY LenProperties DEF IInv, RunOK, StackOK
  <2> QED
    BY <2>1 DEF IInv, RunOK, StackOK, OneFrameEach, GuardBelow, GuardExact, Idle
<1> QED
  BY <1>1, InductiveInvariant, PTL

-----------------------------------------------------------------------------
(***************************************************************************)
(* The logs.  What the guard buys: while an operation of an account is on  *)
(* the stack, the account's nonce stays one above the operation's, and its *)
(* log grows by the operation's own events only.  A frame that fails puts  *)
(* back the chain it saved, so this is required of the saved chain of      *)
(* every frame above the operation's, too.                                 *)
(***************************************************************************)

\* All events but the first, OwnerInitialized, carry a consumed nonce, in order.
Ordered(s) ==
    /\ \A i \in 2 .. Len(s.log) : s.log[i].nonce \in 0 .. s.nonce - 1
    /\ \A i, j \in 2 .. Len(s.log) : i < j => s.log[i].nonce <= s.log[j].nonce

\* An account has logs once the constructor has run.
Recorded(s) == s.owner = NoOwner <=> s.log = <<>>

\* In w the operation of frame f has logged its first f.next - 1 calls, and
\* nothing else has happened to its account since it started.
Midway(w, f) ==
    /\ w[f.acct].owner # NoOwner
    /\ w[f.acct].nonce = f.nonce + 1
    /\ Len(w[f.acct].log) = Len(f.saved[f.acct].log) + f.next - 1

\* No account has a lower nonce in w than it had in v.
NotBefore(w, v) == \A a \in Accounts : v[a].nonce <= w[a].nonce

\* w is a chain state that may be in force while the first k frames run.
ChainFits(w, frames, k) ==
    /\ \A a \in Accounts : Ordered(w[a]) /\ Recorded(w[a])
    /\ \A i \in 1 .. k : frames[i].kind # "ext" => Midway(w, frames[i])
    /\ \A i \in 1 .. k : NotBefore(w, frames[i].saved)

\* So are the present one and, for the frames below it, every saved one.
LogOK(w, frames) ==
    /\ ChainFits(w, frames, Len(frames))
    /\ \A i \in 1 .. Len(frames) : ChainFits(frames[i].saved, frames, i - 1)

\* The inductive invariant.
LogInv == LogOK(chain, stack)

-----------------------------------------------------------------------------
(* Stacks. *)

\* The top frame leaves, its chain or the saved one being in force.
LEMMA PopLogOK ==
    ASSUME NEW w, NEW frames, RunOK(w, frames), LogOK(w, frames), frames # <<>>
    PROVE  /\ LogOK(w, Front(frames))
           /\ LogOK(Last(frames).saved, Front(frames))
<1> DEFINE k == Len(frames)
           g == Front(frames)
<1>1. /\ k \in Nat \ {0}
      /\ Len(g) = k - 1
      /\ \A i \in 1 .. k - 1 : g[i] = frames[i]
  BY PopStackOK DEF RunOK
<1>2. /\ \A i \in 1 .. k - 1 : i \in 1 .. k
      /\ \A i \in 1 .. k - 1 : \A j \in 1 .. i - 1 : j \in 1 .. k - 1
      /\ k \in 1 .. k
  BY <1>1
<1>3. \A i \in 1 .. k - 1 : ChainFits(g[i].saved, g, i - 1)
  BY <1>1, <1>2 DEF LogOK, ChainFits
<1>4. ChainFits(w, g, k - 1)
  BY <1>1, <1>2 DEF LogOK, ChainFits
<1>5. ChainFits(Last(frames).saved, g, k - 1)
  BY <1>1, <1>2 DEF LogOK, ChainFits, Last
<1> QED
  BY <1>1, <1>3, <1>4, <1>5 DEF LogOK

\* A frame enters, v being the chain it runs on.
LEMMA PushLogOK ==
    ASSUME NEW v, NEW frames \in Seq(Frames), NEW f \in Frames,
           LogOK(v, frames), LogOK(f.saved, frames), NotBefore(v, f.saved),
           f.kind # "ext" => Midway(v, f)
    PROVE  LogOK(v, Append(frames, f))
<1> DEFINE k == Len(frames)
           g == Append(frames, f)
<1>1. /\ k \in Nat
      /\ Len(g) = k + 1
      /\ g[k + 1] = f
      /\ \A i \in 1 .. k : g[i] = frames[i]
  BY AppendProperties, LenProperties
<1>2. /\ \A i \in 1 .. k + 1 : i \in 1 .. k \/ i = k + 1
      /\ \A i \in 1 .. k : \A j \in 1 .. i - 1 : j \in 1 .. k
      /\ k + 1 - 1 = k
  BY <1>1
<1>3. ChainFits(v, g, k + 1)
  BY <1>1, <1>2 DEF LogOK, ChainFits
<1>4. ASSUME NEW i \in 1 .. k + 1
      PROVE  ChainFits(g[i].saved, g, i - 1)
  <2>1. CASE i \in 1 .. k
    BY <1>1, <1>2, <2>1 DEF LogOK, ChainFits
  <2>2. CASE i = k + 1
    BY <1>1, <1>2, <2>2 DEF LogOK, ChainFits
  <2> QED
    BY <1>2, <2>1, <2>2
<1> QED
  BY <1>1, <1>3, <1>4 DEF LogOK

\* An account that has no operation on the stack changes.
LEMMA IdleLogOK ==
    ASSUME NEW w \in ChainState, NEW frames \in Seq(Frames), LogOK(w, frames),
           NEW a \in Accounts, NEW s, Ordered(s), Recorded(s),
           s.nonce \in Nat, w[a].nonce <= s.nonce,
           \A i \in 1 .. Len(frames) : ~Owns(frames[i], a)
    PROVE  LogOK([w EXCEPT ![a] = s], frames)
<1> DEFINE v == [w EXCEPT ![a] = s]
<1>1. v[a] = s /\ \A b \in Accounts : b # a => v[b] = w[b]
  BY DEF ChainState
<1> HIDE DEF v
<1>2. ASSUME NEW i \in 1 .. Len(frames), frames[i].kind # "ext"
      PROVE  Midway(v, frames[i])
  <2>1. frames[i] \in Frames
    BY ElementOfSeq
  <2>2. frames[i].acct \in Accounts /\ frames[i].acct # a
    BY <1>2, <2>1, AccountFrameType DEF Owns
  <2>3. Midway(w, frames[i])
    BY <1>2 DEF LogOK, ChainFits
  <2> QED
    BY <1>1, <2>2, <2>3 DEF Midway
<1>3. \A b \in Accounts : Ordered(v[b]) /\ Recorded(v[b])
  BY <1>1 DEF LogOK, ChainFits
<1>4. ASSUME NEW i \in 1 .. Len(frames)
      PROVE  NotBefore(v, frames[i].saved)
  <2>1. frames[i].saved \in ChainState
    BY ElementOfSeq, SavedType
  <2>2. frames[i].saved[a].nonce \in Nat /\ w[a].nonce \in Nat
    BY <2>1 DEF ChainState, AccountState
  <2>3. NotBefore(w, frames[i].saved)
    BY DEF LogOK, ChainFits
  <2> QED
    BY <1>1, <2>2, <2>3 DEF NotBefore
<1>5. LogOK(v, frames)
  BY <1>2, <1>3, <1>4 DEF LogOK, ChainFits
<1> QED
  BY <1>5 DEF v

\* An account changes in nothing but its guard and what it delivered.
LEMMA SameLogOK ==
    ASSUME NEW w \in ChainState, NEW frames \in Seq(Frames), LogOK(w, frames),
           NEW a \in Accounts, NEW s,
           s.owner = w[a].owner, s.nonce = w[a].nonce, s.log = w[a].log
    PROVE  LogOK([w EXCEPT ![a] = s], frames)
<1> DEFINE v == [w EXCEPT ![a] = s]
<1>1. \A b \in Accounts :
        v[b].owner = w[b].owner /\ v[b].nonce = w[b].nonce /\ v[b].log = w[b].log
  BY DEF ChainState
<1> HIDE DEF v
<1>2. ASSUME NEW i \in 1 .. Len(frames), frames[i].kind # "ext"
      PROVE  Midway(v, frames[i])
  <2>1. frames[i] \in Frames
    BY ElementOfSeq
  <2>2. frames[i].acct \in Accounts
    BY <1>2, <2>1, AccountFrameType
  <2>3. Midway(w, frames[i])
    BY <1>2 DEF LogOK, ChainFits
  <2> QED
    BY <1>1, <2>2, <2>3 DEF Midway
<1>3. \A b \in Accounts : Ordered(v[b]) /\ Recorded(v[b])
  BY <1>1 DEF LogOK, ChainFits, Ordered, Recorded
<1>4. LogOK(v, frames)
  BY <1>1, <1>2, <1>3 DEF LogOK, ChainFits, NotBefore
<1> QED
  BY <1>4 DEF v

-----------------------------------------------------------------------------
(* Accounts. *)

\* An account logs an event of the operation that consumed its last nonce.
LEMMA EmitOrdered ==
    ASSUME NEW s \in AccountState, Ordered(s), Recorded(s), s.owner # NoOwner,
           NEW e \in Events, e.nonce \in Nat, s.nonce = e.nonce + 1
    PROVE  /\ Ordered(Emit(s, e))
           /\ Recorded(Emit(s, e))
           /\ Emit(s, e).owner = s.owner
           /\ Emit(s, e).nonce = s.nonce
           /\ Len(Emit(s, e).log) = Len(s.log) + 1
<1> DEFINE log == Append(s.log, e)
           k == Len(s.log)
<1>1. s.log \in Seq(Events) /\ s.nonce \in Nat
  BY DEF AccountState
<1>2. /\ k \in Nat
      /\ log \in Seq(Events)
      /\ Len(log) = k + 1
      /\ log[k + 1] = e
      /\ \A i \in 1 .. k : log[i] = s.log[i]
      /\ log # <<>>
  BY <1>1, AppendProperties, LenProperties, EmptySeq
<1>3. /\ Emit(s, e).log = log
      /\ Emit(s, e).owner = s.owner
      /\ Emit(s, e).nonce = s.nonce
  <2>1. ASSUME NEW l
        PROVE  /\ [s EXCEPT !.log = l].log = l
               /\ [s EXCEPT !.log = l].owner = s.owner
               /\ [s EXCEPT !.log = l].nonce = s.nonce
    BY DEF AccountState
  <2> QED
    BY <2>1 DEF Emit
<1> HIDE DEF log
<1>4. \A i \in 2 .. k + 1 : i \in 2 .. k \/ i = k + 1
  BY <1>2
<1>5. \A i \in 2 .. k : i \in 1 .. k
  BY <1>2
<1>6. \A i \in 2 .. k + 1 : log[i].nonce \in 0 .. s.nonce - 1 /\ log[i].nonce <= e.nonce
  <2>1. \A i \in 2 .. k : log[i].nonce \in 0 .. s.nonce - 1
    BY <1>2, <1>5 DEF Ordered
  <2>2. e.nonce \in 0 .. s.nonce - 1
    BY <1>1
  <2> QED
    BY <1>1, <1>2, <1>4, <2>1, <2>2
<1>7. ASSUME NEW i \in 2 .. k + 1, NEW j \in 2 .. k + 1, i < j
      PROVE  log[i].nonce <= log[j].nonce
  <2>1. CASE j = k + 1
    BY <1>2, <1>6, <2>1
  <2>2. CASE j \in 2 .. k
    <3>1. i \in 2 .. k
      BY <1>2, <1>7, <2>2
    <3> QED
      BY <1>2, <1>5, <1>7, <2>2, <3>1 DEF Ordered
  <2> QED
    BY <1>4, <2>1, <2>2
<1> QED
  BY <1>2, <1>3, <1>6, <1>7 DEF Ordered, Recorded

\* Only an owner's signature starts an operation, for the nonce that is next.
LEMMA AcceptedFacts ==
    ASSUME NEW s \in AccountState, NEW digest, NEW n, NEW sig \in Signatures,
           Accepts(s, digest, n, sig)
    PROVE  /\ ~s.inCall
           /\ s.nonce = n
           /\ s.owner \in Keys
           /\ s.owner # NoOwner
<1>1. sig.key \in Keys
  BY DEF Signatures
<1> QED
  BY <1>1, ConstantsAssumption
     DEF Accepts, Unlocked, ValidateAuthorisedHash, ValidSignature, PrecompileVerifies

\* The guard is latched and the nonce consumed.
LEMMA BeginOrdered ==
    ASSUME NEW s \in AccountState, Ordered(s), Recorded(s)
    PROVE  LET b == Begin(s, s.nonce)
           IN  /\ Ordered(b) /\ Recorded(b)
               /\ b.owner = s.owner /\ b.nonce = s.nonce + 1 /\ b.log = s.log
<1> DEFINE b == Begin(s, s.nonce)
<1>1. s.nonce \in Nat
  BY DEF AccountState
<1>2. b.owner = s.owner /\ b.nonce = s.nonce + 1 /\ b.log = s.log
  BY DEF Begin, AccountState
<1> HIDE DEF b
<1>3. \A i \in 2 .. Len(b.log) : b.log[i].nonce \in 0 .. b.nonce - 1
  <2> SUFFICES ASSUME NEW i \in 2 .. Len(s.log)
               PROVE  s.log[i].nonce \in 0 .. b.nonce - 1
    BY <1>2
  <2>1. s.log[i].nonce \in 0 .. s.nonce - 1
    BY DEF Ordered
  <2> QED
    BY <1>1, <1>2, <2>1
<1>4. Recorded(b)
  BY <1>2 DEF Recorded
<1>5. Ordered(b)
  BY <1>2, <1>3 DEF Ordered
<1> QED
  BY <1>2, <1>4, <1>5 DEF b

LEMMA ExitOrdered ==
    ASSUME NEW s \in AccountState, Ordered(s), Recorded(s)
    PROVE  Ordered(Exit(s)) /\ Recorded(Exit(s)) /\ Exit(s).nonce = s.nonce
<1>1. Exit(s).owner = s.owner /\ Exit(s).nonce = s.nonce /\ Exit(s).log = s.log
  BY DEF Exit, AccountState
<1> QED
  BY <1>1 DEF Ordered, Recorded

-----------------------------------------------------------------------------
(* The handlers. *)

\* Whatever an inner call did, the rest of the handler logs in order.
LEMMA ResumeLogOK ==
    ASSUME NEW w, NEW frames, NEW result, RunOK(w, frames), LogOK(w, frames),
           frames # <<>>, Last(frames).kind # "ext", Resume(frames, w, result)
    PROVE  LogOK(chain, stack)'
<1> DEFINE f == Last(frames)
           a == f.acct
           k == Len(frames)
           success == ExecuteOutcome(result)
           executed == [type |-> "Executed", call |-> f.calls[f.next],
                        nonce |-> f.nonce, success |-> success]
           batchExecuted == [type |-> "BatchExecuted", calls |-> Len(f.calls),
                             nonce |-> f.nonce]
           logged == Emit(w[a], executed)
           closed == Emit(logged, batchExecuted)
<1>1. /\ f \in Frames
      /\ f.kind \in {"execute", "batch"}
      /\ a \in Accounts
      /\ f.calls \in Seq(Calls)
      /\ f.nonce \in Nat
      /\ f.next \in Nat
      /\ f.next \in 1 .. Len(f.calls)
      /\ w \in ChainState
  BY TopFrame, AccountFrameType DEF RunOK
<1>2. /\ f.calls[f.next] \in Calls
      /\ Len(f.calls) \in Nat
      /\ success \in BOOLEAN
  BY <1>1, ElementOfSeq, LenProperties DEF ExecuteOutcome
<1>3. /\ executed \in Events /\ executed.nonce = f.nonce
      /\ batchExecuted \in Events /\ batchExecuted.nonce = f.nonce
  BY <1>1, <1>2 DEF Events
<1>4. /\ k \in Nat \ {0}
      /\ Len(Front(frames)) = k - 1
      /\ \A i \in 1 .. k - 1 : Front(frames)[i] = frames[i]
      /\ Front(frames) \in Seq(Frames)
      /\ frames[k] = f
      /\ DOMAIN frames = 1 .. k
  <2>1. StackOK(frames)
    BY DEF RunOK
  <2> QED
    BY <2>1, PopStackOK, LenProperties DEF StackOK, Last
<1>5. \A i \in 1 .. Len(Front(frames)) : ~Owns(Front(frames)[i], a)
  <2>1. Owns(f, a)
    BY <1>1 DEF Owns
  <2>2. \A i \in 1 .. k - 1 : i \in 1 .. k /\ i # k /\ k \in 1 .. k
    BY <1>4
  <2> QED
    BY <1>1, <1>4, <2>1, <2>2 DEF RunOK, StackOK, OneFrameEach
<1>6. /\ w[a] \in AccountState
      /\ Ordered(w[a]) /\ Recorded(w[a])
      /\ w[a].owner # NoOwner
      /\ w[a].nonce = f.nonce + 1
      /\ Len(w[a].log) = Len(f.saved[a].log) + f.next - 1
  <2>1. w[a] \in AccountState /\ Ordered(w[a]) /\ Recorded(w[a])
    BY <1>1 DEF ChainState, LogOK, ChainFits
  <2>2. Midway(w, f)
    <3>1. k \in 1 .. k
      BY <1>4
    <3> QED
      BY <1>1, <1>4, <3>1 DEF LogOK, ChainFits
  <2> QED
    BY <2>1, <2>2 DEF Midway
<1>7. /\ logged \in AccountState
      /\ Ordered(logged) /\ Recorded(logged)
      /\ logged.owner # NoOwner
      /\ logged.nonce = f.nonce + 1
      /\ Len(logged.log) = Len(w[a].log) + 1
  <2> HIDE DEF executed
  <2> QED
    BY <1>1, <1>3, <1>6, EmitOrdered, EmitType
<1>8. /\ closed \in AccountState
      /\ Ordered(closed) /\ Recorded(closed)
      /\ closed.nonce = f.nonce + 1
  <2> HIDE DEF logged, batchExecuted
  <2> QED
    BY <1>1, <1>3, <1>7, EmitOrdered, EmitType
<1>9. LogOK(w, Front(frames)) /\ LogOK(f.saved, Front(frames))
  BY PopLogOK
<1> HIDE DEF logged, closed, a
<1>10. ASSUME NEW s, Ordered(s), Recorded(s), s.nonce = f.nonce + 1
       PROVE  LogOK([w EXCEPT ![a] = s], Front(frames))
  <2>1. s.nonce \in Nat /\ w[a].nonce <= s.nonce
    BY <1>1, <1>6, <1>10
  <2> HIDE DEF f
  <2> QED
    BY <1>1, <1>4, <1>5, <1>9, <1>10, <2>1, IdleLogOK
<1>11. CASE /\ chain' = [w EXCEPT ![a] = Exit(logged)]
            /\ stack' = Front(frames)
  BY <1>7, <1>10, <1>11, ExitOrdered
<1>12. CASE /\ chain' = f.saved
            /\ stack' = Front(frames)
  BY <1>9, <1>12
<1>13. CASE /\ chain' = [w EXCEPT ![a] = logged]
            /\ f.next < Len(f.calls)
            /\ stack' = Append(Front(frames), [f EXCEPT !.next = @ + 1])
  <2> DEFINE v == [w EXCEPT ![a] = logged]
             f2 == [f EXCEPT !.next = f.next + 1]
  <2>1. LogOK(v, Front(frames))
    BY <1>7, <1>10
  <2>2. v[a] = logged
    BY <1>1 DEF ChainState
  <2>3. /\ f2 \in Frames
        /\ f2.kind # "ext"
        /\ f2.acct = a
        /\ f2.saved = f.saved
        /\ f2.nonce = f.nonce
        /\ f2.next = f.next + 1
    BY <1>1 DEF Frames, a
  <2>4. Len(f.saved[a].log) \in Nat
    <3>1. f.saved[a] \in AccountState
      BY <1>1, SavedType DEF ChainState
    <3> QED
      BY <3>1, LenProperties DEF AccountState
  <2>7. NotBefore(v, f.saved)
    <3>1. f.saved \in ChainState
      BY <1>1, SavedType
    <3>2. NotBefore(w, f.saved)
      BY <1>4 DEF LogOK, ChainFits
    <3> QED
      BY <1>1, <1>6, <1>7, <3>1, <3>2 DEF NotBefore, ChainState
  <2> HIDE DEF v, f2, f
  <2>5. Midway(v, f2)
    <3>1. v[f2.acct] = logged /\ f2.saved[f2.acct] = f.saved[a]
      BY <2>2, <2>3
    <3>2. Len(logged.log) = Len(f.saved[a].log) + (f.next + 1) - 1
      BY <1>1, <1>6, <1>7, <2>4
    <3> QED
      BY <1>7, <2>3, <3>1, <3>2 DEF Midway
  <2>6. LogOK(v, Append(Front(frames), f2))
    BY <1>4, <1>9, <2>1, <2>3, <2>5, <2>7, PushLogOK
  <2> QED
    BY <1>13, <2>6 DEF v, f2
<1>14. CASE /\ chain' = [w EXCEPT ![a] = Exit(closed)]
            /\ stack' = Front(frames)
  BY <1>8, <1>10, <1>14, ExitOrdered
<1> QED
  BY <1>11, <1>12, <1>13, <1>14 DEF Resume, BatchCallFailed, logged, closed, a

\* An operation starts.
LEMMA StartLogOK ==
    ASSUME NEW w, NEW frames, RunOK(w, frames), LogOK(w, frames),
           NEW kind \in {"execute", "batch"}, NEW a \in Accounts,
           ~w[a].inCall, w[a].owner # NoOwner,
           NEW calls \in Seq(Calls), NEW n, w[a].nonce = n
    PROVE  LogOK([w EXCEPT ![a] = Begin(w[a], n)],
                 Append(frames, AccountFrame(kind, a, calls, n, w)))
<1> DEFINE f == AccountFrame(kind, a, calls, n, w)
           v == [w EXCEPT ![a] = Begin(w[a], n)]
<1>1. /\ w \in ChainState
      /\ frames \in Seq(Frames)
      /\ w[a] \in AccountState
      /\ w[a].nonce \in Nat
      /\ w[a].log \in Seq(Events)
  BY DEF RunOK, StackOK, ChainState, AccountState
<1>2. Ordered(w[a]) /\ Recorded(w[a])
  BY DEF LogOK, ChainFits
<1>3. \A i \in 1 .. Len(frames) : ~Owns(frames[i], a)
  BY DEF RunOK, GuardBelow
<1>4. LET b == Begin(w[a], n)
      IN  /\ Ordered(b) /\ Recorded(b)
          /\ b.owner = w[a].owner /\ b.nonce = n + 1 /\ b.log = w[a].log
  BY <1>1, <1>2, BeginOrdered
<1>5. LogOK(v, frames)
  BY <1>1, <1>3, <1>4, IdleLogOK
<1>6. /\ f \in Frames
      /\ f.kind # "ext"
      /\ f.acct = a
      /\ f.saved = w
      /\ f.nonce = n
      /\ f.next = 1
  BY <1>1 DEF AccountFrame, Frames
<1>7. v[a] = Begin(w[a], n)
  BY <1>1 DEF ChainState
<1>8. Len(w[a].log) \in Nat
  BY <1>1, LenProperties
<1> HIDE DEF f, v
<1>9. Midway(v, f)
  BY <1>4, <1>6, <1>7, <1>8 DEF Midway
<1>10. NotBefore(v, f.saved)
  <2>1. \A b \in Accounts : w[b].nonce \in Nat /\ (b # a => v[b] = w[b])
    BY <1>1 DEF v, ChainState, AccountState
  <2> QED
    BY <1>1, <1>4, <1>6, <1>7, <2>1 DEF NotBefore
<1>11. LogOK(v, Append(frames, f))
  BY <1>1, <1>5, <1>6, <1>9, <1>10, PushLogOK
<1> QED
  BY <1>11 DEF f, v

-----------------------------------------------------------------------------
LEMMA SameNotBefore ==
    ASSUME NEW w \in ChainState
    PROVE  NotBefore(w, w)
<1>1. \A a \in Accounts : w[a].nonce \in Nat
  BY DEF ChainState, AccountState
<1> QED
  BY <1>1 DEF NotBefore

LEMMA InitLogInv == Init => LogInv
<1> SUFFICES ASSUME Init PROVE LogInv
  OBVIOUS
<1>1. \A a \in Accounts :
        chain[a].owner = NoOwner /\ chain[a].log = <<>> /\ Len(chain[a].log) = 0
  BY EmptySeq DEF Init, FreshAccount
<1>2. \A a \in Accounts : Ordered(chain[a]) /\ Recorded(chain[a])
  BY <1>1 DEF Ordered, Recorded
<1>3. Len(stack) = 0
  BY EmptySeq DEF Init
<1> QED
  BY <1>2, <1>3 DEF LogInv, LogOK, ChainFits

\* Between two transactions.
LEMMA NoFramesLogOK ==
    ASSUME NEW w, NEW frames, NEW k, ChainFits(w, frames, k)
    PROVE  LogOK(w, <<>>)
<1>1. Len(<<>>) = 0
  BY EmptySeq
<1> QED
  BY <1>1 DEF LogOK, ChainFits

\* An inner call of the running operation takes effect.
LEMMA DeliverLogOK ==
    ASSUME IInv, LogInv, InAccount
    PROVE  LET f == Last(stack)
               w == Deliver(chain, f.acct, f.calls[f.next], f.nonce)
           IN  /\ LogOK(w, stack)
               /\ \A b \in Accounts : w[b].nonce = chain[b].nonce
<1> DEFINE f == Last(stack)
           a == f.acct
           d == [call |-> f.calls[f.next], nonce |-> f.nonce]
           s == [chain[a] EXCEPT !.delivered = Append(chain[a].delivered, d)]
           w == [chain EXCEPT ![a] = s]
<1>0. /\ chain \in ChainState
      /\ chain \in [Accounts -> AccountState]
      /\ stack \in Seq(Frames)
      /\ LogOK(chain, stack)
  BY DEF IInv, LogInv, RunOK, StackOK, ChainState
<1>1. a \in Accounts
  BY DeliverRunOK
<1>2. ASSUME NEW q
      PROVE  /\ [chain[a] EXCEPT !.delivered = q].owner = chain[a].owner
             /\ [chain[a] EXCEPT !.delivered = q].nonce = chain[a].nonce
             /\ [chain[a] EXCEPT !.delivered = q].log = chain[a].log
  BY <1>0, <1>1 DEF AccountState
<1>3. LogOK(w, stack)
  BY <1>0, <1>1, <1>2, SameLogOK
<1>4. \A b \in Accounts : w[b].nonce = chain[b].nonce
  BY <1>0, <1>1, <1>2
<1> QED
  BY <1>3, <1>4 DEF Deliver

\* A callee's frame is about to leave.
LEMMA CalleeFrames ==
    ASSUME IInv, LogInv, InExt, Len(stack) > 1
    PROVE  /\ Front(stack) # <<>>
           /\ Last(Front(stack)).kind # "ext"
           /\ RunOK(chain, Front(stack)) /\ LogOK(chain, Front(stack))
           /\ RunOK(Last(stack).saved, Front(stack))
           /\ LogOK(Last(stack).saved, Front(stack))
<1>0. RunOK(chain, stack) /\ LogOK(chain, stack)
  BY DEF IInv, LogInv
<1>1. stack # <<>> /\ Last(stack).kind = "ext"
  BY DEF InExt, Top
<1>2. /\ Front(stack) # <<>>
      /\ Last(Front(stack)).kind # "ext"
      /\ RunOK(Last(stack).saved, Front(stack))
  BY <1>0, <1>1, TopFrame, UnwindOK
<1>3. RunOK(chain, Front(stack))
  BY <1>0, <1>1, PopExtOK
<1>4. LogOK(chain, Front(stack)) /\ LogOK(Last(stack).saved, Front(stack))
  BY <1>0, <1>1, PopLogOK
<1> QED
  BY <1>2, <1>3, <1>4

LEMMA NextLogInv == IInv /\ LogInv /\ [Next]_vars => LogInv'
<1> SUFFICES ASSUME IInv, LogInv, [Next]_vars PROVE LogInv'
  OBVIOUS
<1> USE DEF LogInv
<1>0. /\ RunOK(chain, stack)
      /\ chain \in ChainState
      /\ chain \in [Accounts -> AccountState]
      /\ stack \in Seq(Frames)
      /\ \A a \in Accounts : Ordered(chain[a]) /\ Recorded(chain[a])
  BY DEF IInv, RunOK, StackOK, ChainState, LogOK, ChainFits
<1>1. ASSUME NEW k \in Keys, NEW intent \in Intents, Sign(k, intent)
      PROVE  LogInv'
  BY <1>1 DEF Sign
<1>2. ASSUME NEW c \in Chains, BeginTx(c)
      PROVE  LogInv'
  <2>1. /\ stack = <<>>
        /\ stack' = Append(stack, ExtFrame(c, chain))
        /\ chain' = chain
    BY <1>2 DEF BeginTx
  <2>2. LogOK(chain, Append(stack, ExtFrame(c, chain)))
    BY <1>0, ExtFrameType, SameNotBefore, PushLogOK
  <2> QED
    BY <2>1, <2>2
<1>3. CASE EndTx
  <2>1. chain' = chain /\ stack' = <<>>
    BY <1>3 DEF EndTx
  <2> QED
    BY <2>1, NoFramesLogOK DEF LogOK
<1>4. CASE AbortTx
  <2>1. stack # <<>> /\ chain' = Last(stack).saved /\ stack' = <<>>
    BY <1>4 DEF AbortTx, InExt, Top
  <2>2. LogOK(Last(stack).saved, Front(stack))
    BY <1>0, <2>1, PopLogOK
  <2> QED
    BY <2>1, <2>2, NoFramesLogOK DEF LogOK
<1>5. ASSUME NEW a \in Accounts, NEW p \in Keys \cup BadPoints, Constructor(a, p)
      PROVE  LogInv'
  <2> DEFINE s == [chain[a] EXCEPT !.owner = p]
             e == [type |-> "OwnerInitialized", key |-> p]
  <2>1. p \in Keys /\ e \in Events /\ p # NoOwner /\ chain[a].log = <<>>
    BY <1>0, <1>5, ConstantsAssumption DEF Constructor, IsValidPubkey, Events, Recorded
  <2>2. s \in AccountState /\ s.owner = p /\ s.log = <<>>
    BY <1>0, <2>1 DEF AccountState
  <2>3. /\ Emit(s, e).owner = p
        /\ Emit(s, e).log = Append(<<>>, e)
    <3>1. ASSUME NEW l
          PROVE  [s EXCEPT !.log = l].owner = s.owner /\ [s EXCEPT !.log = l].log = l
      BY <2>2 DEF AccountState
    <3> HIDE DEF s
    <3> QED
      BY <2>2, <3>1 DEF Emit
  <2>4. Len(Append(<<>>, e)) = 1 /\ Append(<<>>, e) # <<>>
    BY <2>1, AppendProperties, EmptySeq
  <2>5. Ordered(Emit(s, e)) /\ Recorded(Emit(s, e))
    <3>1. Len(Emit(s, e).log) = 1 /\ Emit(s, e).log # <<>>
      BY <2>3, <2>4
    <3>2. \A i \in 2 .. 1 : FALSE
      OBVIOUS
    <3> HIDE DEF s, e
    <3> QED
      BY <2>1, <2>3, <3>1, <3>2 DEF Ordered, Recorded
  <2>6. ASSUME NEW i \in 1 .. Len(stack)
        PROVE  ~Owns(stack[i], a)
    <3>1. stack[i].kind # "ext" => Midway(chain, stack[i])
      BY DEF LogOK, ChainFits
    <3> QED
      BY <1>5, <3>1 DEF Owns, Midway, Constructor
  <2>7. chain' = [chain EXCEPT ![a] = Emit(s, e)] /\ stack' = stack
    BY <1>5 DEF Constructor
  <2>8. Emit(s, e).nonce \in Nat /\ chain[a].nonce <= Emit(s, e).nonce
    <3>1. s.nonce = chain[a].nonce /\ s.nonce \in Nat
      BY <1>0 DEF AccountState
    <3>2. ASSUME NEW l
          PROVE  [s EXCEPT !.log = l].nonce = s.nonce
      BY <2>2 DEF AccountState
    <3> HIDE DEF s
    <3> QED
      BY <3>1, <3>2 DEF Emit
  <2> QED
    BY <1>0, <2>5, <2>6, <2>7, <2>8, IdleLogOK
<1>6. ASSUME NEW a \in Accounts, NEW call \in Calls, NEW n \in 0 .. MaxNonce - 1,
             NEW sig \in Signatures, Execute(a, call, n, sig)
      PROVE  LogInv'
  <2>1. ~chain[a].inCall /\ chain[a].nonce = n /\ chain[a].owner # NoOwner
    BY <1>0, <1>6, AcceptedFacts DEF Execute
  <2>2. <<call>> \in Seq(Calls)
    OBVIOUS
  <2>3. /\ chain' = [chain EXCEPT ![a] = Begin(chain[a], n)]
        /\ stack' = Append(stack, AccountFrame("execute", a, <<call>>, n, chain))
    BY <1>6 DEF Execute
  <2> QED
    BY <1>0, <2>1, <2>2, <2>3, StartLogOK
<1>7. ASSUME NEW a \in Accounts, NEW calls \in Batches, NEW n \in 0 .. MaxNonce - 1,
             NEW sig \in Signatures, ExecuteBatch(a, calls, n, sig)
      PROVE  LogInv'
  <2>1. ~chain[a].inCall /\ chain[a].nonce = n /\ chain[a].owner # NoOwner
    BY <1>0, <1>7, AcceptedFacts DEF ExecuteBatch
  <2>2. calls \in Seq(Calls)
    BY ConstantsAssumption
  <2>3. /\ chain' = [chain EXCEPT ![a] = Begin(chain[a], n)]
        /\ stack' = Append(stack, AccountFrame("batch", a, calls, n, chain))
    BY <1>7 DEF ExecuteBatch
  <2> QED
    BY <1>0, <2>1, <2>2, <2>3, StartLogOK
<1>8. ASSUME NEW a \in Accounts, NEW p \in Keys \cup BadPoints,
             NEW n \in 0 .. MaxNonce - 1, NEW sig \in Signatures, RotateOwner(a, p, n, sig)
      PROVE  LogInv'
  <2> DEFINE b == Begin(chain[a], n)
             s == [b EXCEPT !.owner = p]
             e == OwnerRotated(chain[a].owner, p, n)
  <2>1. /\ p \in Keys
        /\ ~chain[a].inCall
        /\ chain[a].nonce = n
        /\ chain[a].owner \in Keys /\ chain[a].owner # NoOwner
    BY <1>0, <1>8, AcceptedFacts DEF RotateOwner, IsValidPubkey
  <2>2. n \in Nat /\ e \in Events /\ e.nonce = n /\ p # NoOwner
    BY <2>1, ConstantsAssumption DEF OwnerRotated, Events
  <2>3. /\ b \in AccountState
        /\ Ordered(b) /\ Recorded(b)
        /\ b.owner # NoOwner /\ b.nonce = n + 1
    BY <1>0, <2>1, <2>2, BeginOrdered, BeginType
  <2> HIDE DEF b
  <2>4. s \in AccountState /\ s.owner = p /\ s.nonce = n + 1 /\ s.log = b.log
    BY <2>1, <2>3 DEF AccountState
  <2>5. Ordered(s) /\ Recorded(s)
    BY <2>2, <2>3, <2>4 DEF Ordered, Recorded
  <2> HIDE DEF s, e
  <2>6. /\ Emit(s, e) \in AccountState
        /\ Ordered(Emit(s, e)) /\ Recorded(Emit(s, e))
        /\ Emit(s, e).nonce = n + 1
    BY <2>2, <2>4, <2>5, EmitOrdered, EmitType
  <2>7. /\ Ordered(Exit(Emit(s, e))) /\ Recorded(Exit(Emit(s, e)))
        /\ Exit(Emit(s, e)).nonce = n + 1
    BY <2>6, ExitOrdered
  <2>8. /\ chain' = [chain EXCEPT ![a] = Exit(Emit(s, e))]
        /\ stack' = stack
    BY <1>8 DEF RotateOwner, b, s, e
  <2>9. \A i \in 1 .. Len(stack) : ~Owns(stack[i], a)
    BY <1>0, <2>1 DEF RunOK, GuardBelow
  <2> QED
    <3> DEFINE t == Exit(Emit(s, e))
    <3>1. t.nonce \in Nat /\ chain[a].nonce <= t.nonce
      BY <2>1, <2>2, <2>7
    <3> HIDE DEF t
    <3>2. LogOK([chain EXCEPT ![a] = t], stack)
      BY <1>0, <2>7, <2>9, <3>1, IdleLogOK DEF t
    <3> QED
      BY <2>8, <3>2 DEF t
<1>9. ASSUME InAccount
      PROVE  LET f == Last(stack)
                 w == Deliver(chain, f.acct, f.calls[f.next], f.nonce)
             IN  /\ stack # <<>> /\ f.kind # "ext"
                 /\ f.acct \in Accounts
                 /\ LogOK(w, stack)
                 /\ NotBefore(w, chain)
  <2>1. \A a \in Accounts : chain[a].nonce <= chain[a].nonce
    BY <1>0, SameNotBefore DEF NotBefore
  <2> QED
    BY <1>9, <2>1, DeliverRunOK, DeliverLogOK DEF NotBefore
<1>10. CASE CallExternal
  <2> DEFINE f == Last(stack)
             w == Deliver(chain, f.acct, f.calls[f.next], f.nonce)
             e == ExtFrame(f.acct.chain, chain)
  <2>1. InAccount /\ chain' = w /\ stack' = Append(stack, e)
    BY <1>10 DEF CallExternal, Top
  <2>2. f.acct.chain \in Chains
    BY <1>9, <2>1 DEF Accounts
  <2>3. e \in Frames /\ e.kind = "ext" /\ e.saved = chain
    BY <1>0, <2>2, ExtFrameType
  <2>4. LogOK(w, stack) /\ NotBefore(w, chain)
    BY <1>9, <2>1
  <2> HIDE DEF w, e
  <2> QED
    BY <1>0, <2>1, <2>3, <2>4, PushLogOK
<1>11. CASE CallSelf
  <2> DEFINE f == Last(stack)
             w == Deliver(chain, f.acct, f.calls[f.next], f.nonce)
  <2>1. InAccount
    BY <1>11 DEF CallSelf
  <2>2. \/ Resume(stack, w, "ok")
        \/ Resume(stack, chain, "revert")
    BY <1>11 DEF CallSelf, Top
  <2>3. RunOK(w, stack)
    BY <2>1, DeliverRunOK
  <2> QED
    BY <1>0, <1>9, <2>1, <2>2, <2>3, ResumeLogOK
<1>12. ASSUME InExt, Len(stack) > 1
       PROVE  /\ Front(stack) # <<>>
              /\ Last(Front(stack)).kind # "ext"
              /\ RunOK(chain, Front(stack)) /\ LogOK(chain, Front(stack))
              /\ RunOK(Last(stack).saved, Front(stack))
              /\ LogOK(Last(stack).saved, Front(stack))
  BY <1>12, CalleeFrames
<1>13. CASE CalleeReturns
  BY <1>12, <1>13, ResumeLogOK DEF CalleeReturns
<1>14. CASE CalleeReverts
  BY <1>12, <1>14, ResumeLogOK DEF CalleeReverts, Top
<1>15. CASE AccountTraps
  BY <1>0, <1>15, PopLogOK DEF AccountTraps, InAccount, Top
<1>16. CASE UNCHANGED vars
  BY <1>16 DEF vars
<1> QED
  BY <1>1, <1>2, <1>3, <1>4, <1>5, <1>6, <1>7, <1>8, <1>10, <1>11, <1>13, <1>14,
     <1>15, <1>16 DEF Next

-----------------------------------------------------------------------------
\* LogInv holds in every reachable state: present and saved chains are in order.
THEOREM LogInvariant == Spec => []LogInv
BY InductiveInvariant, InitLogInv, NextLogInv, PTL DEF Spec

\* Indexers read the account's history in nonce order, whatever its callees did.
THEOREM LogsAlwaysInNonceOrder == Spec => []LogInNonceOrder
<1>1. LogInv => LogInNonceOrder
  BY DEF LogInv, LogOK, ChainFits, Ordered, LogInNonceOrder
<1> QED
  BY <1>1, LogInvariant, PTL

\* A client that takes the first Executed log of its operation's receipt reads
\* the outcome of its own operation: no nested one is ever logged before it.
THEOREM OwnLogAlwaysFirst == Spec => []OwnLogFirst
<1>1. IInv => DOMAIN stack = 1 .. Len(stack)
  BY LenProperties DEF IInv, RunOK, StackOK
<1>2. IInv /\ LogInv => OwnLogFirst
  BY <1>1 DEF LogInv, LogOK, ChainFits, Midway, OwnLogFirst
<1> QED
  BY <1>2, InductiveInvariant, LogInvariant, PTL

-----------------------------------------------------------------------------
(***************************************************************************)
(* What a signature is good for: nothing but the intent it was made for.   *)
(* No two intents have the same digest (given that keccak has no           *)
(* collisions), so a login is never an operation, and a nonce is consumed  *)
(* only under the owner's signature over this very operation of this very  *)
(* account.                                                                *)
(***************************************************************************)

(* Digests. *)

\* What is hashed for an intent of each kind.
LEMMA DigestFields ==
    ASSUME NEW i \in Intents
    PROVE  /\ i.account \in Accounts
           /\ DigestOf(i).domain = DomainSeparator(i.account)
           /\ \/ /\ \E call \in Calls : i.op = ExecuteOp(call)
                 /\ DigestOf(i).struct.type = "Execute"
                 /\ DigestOf(i).struct.call = i.op.call
                 /\ DigestOf(i).struct.nonce = i.nonce
              \/ /\ \E calls \in Batches : i.op = BatchOp(calls)
                 /\ DigestOf(i).struct.type = "BatchExecute"
                 /\ DigestOf(i).struct.calls = i.op.calls
                 /\ DigestOf(i).struct.nonce = i.nonce
              \/ /\ \E p \in Keys \cup BadPoints : i.op = RotateOp(p)
                 /\ DigestOf(i).struct.type = "RotateOwner"
                 /\ DigestOf(i).struct.newOwner = i.op.newOwner
                 /\ DigestOf(i).struct.nonce = i.nonce
              \/ /\ \E h \in Challenges : i.op = LoginOp(h)
                 /\ DigestOf(i).struct.type = "PersonalSign"
                 /\ DigestOf(i).struct.hash = i.op.hash
                 /\ i.nonce = 0
<1>1. CASE \E a \in Accounts, call \in Calls, n \in 0 .. MaxNonce - 1 :
              i = Intent(a, ExecuteOp(call), n)
  BY <1>1 DEF Intent, ExecuteOp, DigestOf, ExecuteHash, Envelope
<1>2. CASE \E a \in Accounts, calls \in Batches, n \in 0 .. MaxNonce - 1 :
              i = Intent(a, BatchOp(calls), n)
  BY <1>2 DEF Intent, BatchOp, DigestOf, BatchHash, Envelope
<1>3. CASE \E a \in Accounts, p \in Keys \cup BadPoints, n \in 0 .. MaxNonce - 1 :
              i = Intent(a, RotateOp(p), n)
  BY <1>3 DEF Intent, RotateOp, DigestOf, RotateHash, Envelope
<1>4. CASE \E a \in Accounts, h \in Challenges : i = Intent(a, LoginOp(h), 0)
  BY <1>4 DEF Intent, LoginOp, DigestOf, PersonalSignHash, Envelope
<1> QED
  BY <1>1, <1>2, <1>3, <1>4 DEF Intents, Operations

LEMMA IntentParts ==
    ASSUME NEW i \in Intents
    PROVE  i = Intent(i.account, i.op, i.nonce)
BY DEF Intents, Intent

\* The domain tells accounts apart, across chains and addresses.
LEMMA DomainsDiffer ==
    ASSUME NEW a \in Accounts, NEW b \in Accounts,
           DomainSeparator(a) = DomainSeparator(b)
    PROVE  a = b
BY DEF DomainSeparator, Accounts

\* A digest that is an operation's was signed for that operation.
LEMMA ExecuteDigest ==
    ASSUME NEW i \in Intents, NEW a \in Accounts, NEW call, NEW n,
           DigestOf(i) = ExecuteHash(a, call, n)
    PROVE  i = Intent(a, ExecuteOp(call), n) /\ call \in Calls
<1>1. /\ DigestOf(i).domain = DomainSeparator(a)
      /\ DigestOf(i).struct.type = "Execute"
      /\ DigestOf(i).struct.call = call
      /\ DigestOf(i).struct.nonce = n
  BY DEF ExecuteHash, Envelope
<1>2. /\ \E c \in Calls : i.op = ExecuteOp(c)
      /\ i.op.call = call /\ i.nonce = n
      /\ i.account = a
  BY <1>1, DigestFields, DomainsDiffer
<1>3. i.op = ExecuteOp(call) /\ call \in Calls
  BY <1>2 DEF ExecuteOp
<1> QED
  BY <1>2, <1>3, IntentParts

LEMMA BatchDigest ==
    ASSUME NEW i \in Intents, NEW a \in Accounts, NEW calls, NEW n,
           DigestOf(i) = BatchHash(a, calls, n)
    PROVE  i = Intent(a, BatchOp(calls), n) /\ calls \in Batches
<1>1. /\ DigestOf(i).domain = DomainSeparator(a)
      /\ DigestOf(i).struct.type = "BatchExecute"
      /\ DigestOf(i).struct.calls = calls
      /\ DigestOf(i).struct.nonce = n
  BY DEF BatchHash, Envelope
<1>2. /\ \E c \in Batches : i.op = BatchOp(c)
      /\ i.op.calls = calls /\ i.nonce = n
      /\ i.account = a
  BY <1>1, DigestFields, DomainsDiffer
<1>3. i.op = BatchOp(calls) /\ calls \in Batches
  BY <1>2 DEF BatchOp
<1> QED
  BY <1>2, <1>3, IntentParts

LEMMA RotateDigest ==
    ASSUME NEW i \in Intents, NEW a \in Accounts, NEW p, NEW n,
           DigestOf(i) = RotateHash(a, p, n)
    PROVE  i = Intent(a, RotateOp(p), n) /\ p \in Keys \cup BadPoints
<1>1. /\ DigestOf(i).domain = DomainSeparator(a)
      /\ DigestOf(i).struct.type = "RotateOwner"
      /\ DigestOf(i).struct.newOwner = p
      /\ DigestOf(i).struct.nonce = n
  BY DEF RotateHash, Envelope
<1>2. /\ \E c \in Keys \cup BadPoints : i.op = RotateOp(c)
      /\ i.op.newOwner = p /\ i.nonce = n
      /\ i.account = a
  BY <1>1, DigestFields, DomainsDiffer
<1>3. i.op = RotateOp(p) /\ p \in Keys \cup BadPoints
  BY <1>2 DEF RotateOp
<1> QED
  BY <1>2, <1>3, IntentParts

LEMMA LoginDigest ==
    ASSUME NEW i \in Intents, NEW a \in Accounts, NEW h,
           DigestOf(i) = PersonalSignHash(a, h)
    PROVE  i = Intent(a, LoginOp(h), 0) /\ h \in Challenges
<1>1. /\ DigestOf(i).domain = DomainSeparator(a)
      /\ DigestOf(i).struct.type = "PersonalSign"
      /\ DigestOf(i).struct.hash = h
  BY DEF PersonalSignHash, Envelope
<1>2. /\ \E c \in Challenges : i.op = LoginOp(c)
      /\ i.op.hash = h /\ i.nonce = 0
      /\ i.account = a
  BY <1>1, DigestFields, DomainsDiffer
<1>3. i.op = LoginOp(h) /\ h \in Challenges
  BY <1>2 DEF LoginOp
<1> QED
  BY <1>2, <1>3, IntentParts

\* A presented signature that verifies was made, by the owner, over that digest.
LEMMA PresentedSignature ==
    ASSUME TypeOK, NEW sig \in Signatures, Presentable(sig),
           NEW digest, NEW owner, ValidSignature(sig, digest, owner)
    PROVE  \E i \in Intents :
              DigestOf(i) = digest /\ [key |-> owner, intent |-> i] \in signed
<1>1. sig.key = owner /\ sig.digest = digest
  BY DEF ValidSignature, PrecompileVerifies
<1>2. PICK s \in signed : s.key = sig.key /\ DigestOf(s.intent) = sig.digest
  BY DEF Presentable
<1>3. s \in [key : Keys, intent : Intents]
  BY DEF TypeOK
<1>4. s.intent \in Intents /\ s = [key |-> s.key, intent |-> s.intent]
  BY <1>3
<1> QED
  BY <1>1, <1>2, <1>4

-----------------------------------------------------------------------------
(* Steps. *)

\* What a's operation asks for is what this step starts or does.
Carries(a, op) ==
    \/ \E call \in Calls :
        /\ op = ExecuteOp(call)
        /\ Last(stack').kind = "execute"
        /\ Last(stack').acct = a
        /\ Last(stack').calls = <<call>>
    \/ \E calls \in Batches :
        /\ op = BatchOp(calls)
        /\ Last(stack').kind = "batch"
        /\ Last(stack').acct = a
        /\ Last(stack').calls = calls
    \/ \E p \in Keys \cup BadPoints :
        /\ op = RotateOp(p)
        /\ chain'[a].owner = p

\* A nonce moves up by one, for what the owner of that moment signed for it.
SignedStep ==
    \A a \in Accounts :
        chain'[a].nonce > chain[a].nonce =>
            /\ chain'[a].nonce = chain[a].nonce + 1
            /\ \E op \in Operations :
                /\ [key |-> chain[a].owner,
                    intent |-> Intent(a, op, chain[a].nonce)] \in signed
                /\ Carries(a, op)

LEMMA LastOfAppend ==
    ASSUME NEW frames \in Seq(Frames), NEW f \in Frames
    PROVE  Last(Append(frames, f)) = f
BY AppendProperties DEF Last

\* The code after an inner call consumes no nonce.
LEMMA ResumeNonce ==
    ASSUME NEW w, NEW frames, NEW result, RunOK(w, frames), LogOK(w, frames),
           frames # <<>>, Last(frames).kind # "ext", Resume(frames, w, result)
    PROVE  NotBefore(w, chain')
<1> DEFINE f == Last(frames)
           a == f.acct
<1>1. /\ a \in Accounts
      /\ w \in [Accounts -> AccountState]
      /\ w \in ChainState
  BY TopFrame, AccountFrameType DEF RunOK, ChainState
<1>2. NotBefore(w, w)
  BY <1>1, SameNotBefore
<1>3. ASSUME NEW s, s.nonce = w[a].nonce
      PROVE  NotBefore(w, [w EXCEPT ![a] = s])
  BY <1>1, <1>2, <1>3 DEF NotBefore
<1>4. NotBefore(w, f.saved)
  <2>1. Len(frames) \in 1 .. Len(frames)
    <3>1. Len(frames) \in Nat \ {0}
      BY PopStackOK DEF RunOK
    <3> QED
      BY <3>1
  <2> QED
    BY <2>1 DEF LogOK, ChainFits, Last
<1>5. /\ \A e : Emit(w[a], e).nonce = w[a].nonce
      /\ \A e : Exit(Emit(w[a], e)).nonce = w[a].nonce
      /\ \A d, e : Exit(Emit(Emit(w[a], d), e)).nonce = w[a].nonce
  BY <1>1 DEF Emit, Exit, AccountState
<1> QED
  BY <1>3, <1>4, <1>5 DEF Resume, BatchCallFailed

\* Whatever a step does, it consumes a nonce only as its owner signed.
LEMMA NextSigned == IInv /\ LogInv /\ [Next]_vars => SignedStep
<1> SUFFICES ASSUME IInv, LogInv, [Next]_vars PROVE SignedStep
  OBVIOUS
<1>0. /\ RunOK(chain, stack) /\ LogOK(chain, stack)
      /\ chain \in ChainState
      /\ chain \in [Accounts -> AccountState]
      /\ stack \in Seq(Frames)
      /\ \A a \in Accounts : chain[a].nonce \in Nat /\ chain'[a].nonce \in Nat
      /\ NotBefore(chain, chain)
      /\ TypeOK
  <2>1. chain \in ChainState /\ stack \in Seq(Frames) /\ TypeOK
    BY DEF IInv, RunOK, StackOK, TypeOK
  <2>2. chain' \in ChainState
    BY NextIInv DEF IInv, RunOK
  <2> QED
    BY <2>1, <2>2, SameNotBefore DEF IInv, LogInv, ChainState, AccountState
<1>1. ASSUME NotBefore(chain, chain')
      PROVE  SignedStep
  <2> SUFFICES ASSUME NEW a \in Accounts, chain'[a].nonce > chain[a].nonce
               PROVE  FALSE
    BY DEF SignedStep
  <2> QED
    BY <1>0, <1>1 DEF NotBefore
<1>2. ASSUME NEW a \in Accounts, NEW op \in Operations, NEW s,
             chain' = [chain EXCEPT ![a] = s], s.nonce = chain[a].nonce + 1,
             [key |-> chain[a].owner, intent |-> Intent(a, op, chain[a].nonce)] \in signed,
             Carries(a, op)
      PROVE  SignedStep
  <2> SUFFICES ASSUME NEW b \in Accounts, chain'[b].nonce > chain[b].nonce
               PROVE  b = a /\ chain'[a].nonce = chain[a].nonce + 1
    BY <1>2 DEF SignedStep
  <2>1. b # a => chain'[b] = chain[b]
    BY <1>0, <1>2
  <2> QED
    BY <1>0, <1>2, <2>1
<1>3. ASSUME NEW a \in Accounts, NEW n \in 0 .. MaxNonce - 1, NEW sig \in Signatures,
             Presentable(sig), NEW digest, Accepts(chain[a], digest, n, sig)
      PROVE  /\ chain[a].nonce = n
             /\ Begin(chain[a], n).nonce = chain[a].nonce + 1
             /\ \E i \in Intents :
                    /\ DigestOf(i) = digest
                    /\ [key |-> chain[a].owner, intent |-> i] \in signed
  <2>1. chain[a].nonce = n
    BY <1>3 DEF Accepts, ValidateAuthorisedHash
  <2>2. Begin(chain[a], n).nonce = chain[a].nonce + 1
    BY <1>0, <2>1 DEF Begin, AccountState
  <2> QED
    BY <1>0, <1>3, <2>1, <2>2, PresentedSignature DEF Accepts, ValidateAuthorisedHash
<1>4. ASSUME NEW a \in Accounts, NEW p \in Keys \cup BadPoints, Constructor(a, p)
      PROVE  SignedStep
  <2> DEFINE e == [type |-> "OwnerInitialized", key |-> p]
             s == Emit([chain[a] EXCEPT !.owner = p], e)
  <2>1. s.nonce = chain[a].nonce
    BY <1>0 DEF Emit, AccountState
  <2>2. chain' = [chain EXCEPT ![a] = s]
    BY <1>4 DEF Constructor
  <2> HIDE DEF s
  <2> QED
    BY <1>0, <1>1, <2>1, <2>2 DEF NotBefore
<1>5. ASSUME NEW a \in Accounts, NEW call \in Calls, NEW n \in 0 .. MaxNonce - 1,
             NEW sig \in Signatures, Presentable(sig), Execute(a, call, n, sig)
      PROVE  SignedStep
  <2>1. /\ Accepts(chain[a], ExecuteHash(a, call, n), n, sig)
        /\ chain' = [chain EXCEPT ![a] = Begin(chain[a], n)]
        /\ stack' = Append(stack, AccountFrame("execute", a, <<call>>, n, chain))
    BY <1>5 DEF Execute
  <2>2. PICK i \in Intents :
            /\ DigestOf(i) = ExecuteHash(a, call, n)
            /\ [key |-> chain[a].owner, intent |-> i] \in signed
    BY <1>3, <1>5, <2>1
  <2>3. i = Intent(a, ExecuteOp(call), chain[a].nonce)
    <3>1. chain[a].nonce = n
      BY <2>1 DEF Accepts, ValidateAuthorisedHash
    <3> QED
      BY <2>2, <3>1, ExecuteDigest
  <2>4. ExecuteOp(call) \in Operations
    BY DEF Operations
  <2>5. Last(stack') = AccountFrame("execute", a, <<call>>, n, chain)
    <3>1. <<call>> \in Seq(Calls) /\ n \in Nat
      BY ConstantsAssumption
    <3>2. AccountFrame("execute", a, <<call>>, n, chain) \in Frames
      BY <1>0, <3>1 DEF AccountFrame, Frames
    <3> QED
      BY <1>0, <2>1, <3>2, LastOfAppend
  <2>6. Carries(a, ExecuteOp(call))
    BY <2>5 DEF Carries, AccountFrame
  <2> QED
    BY <1>2, <1>3, <1>5, <2>1, <2>2, <2>3, <2>4, <2>6
<1>6. ASSUME NEW a \in Accounts, NEW calls \in Batches, NEW n \in 0 .. MaxNonce - 1,
             NEW sig \in Signatures, Presentable(sig), ExecuteBatch(a, calls, n, sig)
      PROVE  SignedStep
  <2>1. /\ Accepts(chain[a], BatchHash(a, calls, n), n, sig)
        /\ chain' = [chain EXCEPT ![a] = Begin(chain[a], n)]
        /\ stack' = Append(stack, AccountFrame("batch", a, calls, n, chain))
    BY <1>6 DEF ExecuteBatch
  <2>2. PICK i \in Intents :
            /\ DigestOf(i) = BatchHash(a, calls, n)
            /\ [key |-> chain[a].owner, intent |-> i] \in signed
    BY <1>3, <1>6, <2>1
  <2>3. i = Intent(a, BatchOp(calls), chain[a].nonce)
    <3>1. chain[a].nonce = n
      BY <2>1 DEF Accepts, ValidateAuthorisedHash
    <3> QED
      BY <2>2, <3>1, BatchDigest
  <2>4. BatchOp(calls) \in Operations
    BY DEF Operations
  <2>5. Last(stack') = AccountFrame("batch", a, calls, n, chain)
    <3>1. calls \in Seq(Calls) /\ n \in Nat
      BY ConstantsAssumption
    <3>2. AccountFrame("batch", a, calls, n, chain) \in Frames
      BY <1>0, <3>1 DEF AccountFrame, Frames
    <3> QED
      BY <1>0, <2>1, <3>2, LastOfAppend
  <2>6. Carries(a, BatchOp(calls))
    BY <2>5 DEF Carries, AccountFrame
  <2> QED
    BY <1>2, <1>3, <1>6, <2>1, <2>2, <2>3, <2>4, <2>6
<1>7. ASSUME NEW a \in Accounts, NEW p \in Keys \cup BadPoints,
             NEW n \in 0 .. MaxNonce - 1, NEW sig \in Signatures, Presentable(sig),
             RotateOwner(a, p, n, sig)
      PROVE  SignedStep
  <2> DEFINE b == Begin(chain[a], n)
             e == OwnerRotated(chain[a].owner, p, n)
             s == Exit(Emit([b EXCEPT !.owner = p], e))
  <2>1. /\ Accepts(chain[a], RotateHash(a, p, n), n, sig)
        /\ chain' = [chain EXCEPT ![a] = s]
    BY <1>7 DEF RotateOwner
  <2>2. PICK i \in Intents :
            /\ DigestOf(i) = RotateHash(a, p, n)
            /\ [key |-> chain[a].owner, intent |-> i] \in signed
    BY <1>3, <1>7, <2>1
  <2>3. i = Intent(a, RotateOp(p), chain[a].nonce)
    <3>1. chain[a].nonce = n
      BY <2>1 DEF Accepts, ValidateAuthorisedHash
    <3> QED
      BY <2>2, <3>1, RotateDigest
  <2>4. RotateOp(p) \in Operations
    BY DEF Operations
  <2>5. b \in AccountState
    BY <1>0, BeginType, ConstantsAssumption
  <2>6. b.nonce = chain[a].nonce + 1
    BY <1>3, <1>7, <2>1
  <2> HIDE DEF b
  <2>7. s.nonce = b.nonce /\ s.owner = p
    BY <2>5 DEF Exit, Emit, AccountState
  <2> HIDE DEF s
  <2>8. Carries(a, RotateOp(p))
    BY <1>0, <2>1, <2>7 DEF Carries
  <2> QED
    BY <1>2, <2>1, <2>2, <2>3, <2>4, <2>6, <2>7, <2>8
<1>8. ASSUME InAccount
      PROVE  LET f == Last(stack)
                 w == Deliver(chain, f.acct, f.calls[f.next], f.nonce)
             IN  /\ stack # <<>> /\ f.kind # "ext"
                 /\ RunOK(w, stack) /\ LogOK(w, stack)
                 /\ \A a \in Accounts : w[a].nonce = chain[a].nonce
  BY <1>8, DeliverRunOK, DeliverLogOK
<1>9. ASSUME NEW w, NEW frames, NEW result, RunOK(w, frames), LogOK(w, frames),
             frames # <<>>, Last(frames).kind # "ext", Resume(frames, w, result),
             NotBefore(chain, w)
      PROVE  SignedStep
  <2>1. NotBefore(w, chain') /\ w \in ChainState
    BY <1>9, ResumeNonce DEF RunOK
  <2>2. RunOK(chain, stack)'
    BY <1>9, ResumeOK
  <2>3. \A a \in Accounts :
            w[a].nonce \in Nat /\ chain'[a].nonce \in Nat
    BY <2>1, <2>2 DEF RunOK, ChainState, AccountState
  <2>4. NotBefore(chain, chain')
    BY <1>0, <1>9, <2>1, <2>3 DEF NotBefore
  <2> QED
    BY <1>1, <2>4
<1>10. CASE CallExternal
  <2> DEFINE f == Last(stack)
             w == Deliver(chain, f.acct, f.calls[f.next], f.nonce)
  <2>1. InAccount /\ chain' = w
    BY <1>10 DEF CallExternal, Top
  <2>2. \A a \in Accounts : w[a].nonce = chain[a].nonce
    BY <1>8, <2>1
  <2> HIDE DEF w
  <2> QED
    BY <1>0, <1>1, <2>1, <2>2 DEF NotBefore
<1>11. CASE CallSelf
  <2> DEFINE f == Last(stack)
             w == Deliver(chain, f.acct, f.calls[f.next], f.nonce)
  <2>1. InAccount
    BY <1>11 DEF CallSelf
  <2>2. \/ Resume(stack, w, "ok")
        \/ Resume(stack, chain, "revert")
    BY <1>11 DEF CallSelf, Top
  <2>3. /\ stack # <<>> /\ Last(stack).kind # "ext"
        /\ RunOK(w, stack) /\ LogOK(w, stack)
        /\ \A a \in Accounts : w[a].nonce = chain[a].nonce
    BY <1>8, <2>1
  <2> HIDE DEF w, f
  <2>4. NotBefore(chain, w)
    BY <1>0, <2>3 DEF NotBefore
  <2> QED
    BY <1>0, <1>9, <2>2, <2>3, <2>4
<1>12. ASSUME InExt, Len(stack) > 1
       PROVE  /\ Front(stack) # <<>>
              /\ Last(Front(stack)).kind # "ext"
              /\ RunOK(chain, Front(stack)) /\ LogOK(chain, Front(stack))
              /\ RunOK(Last(stack).saved, Front(stack))
              /\ LogOK(Last(stack).saved, Front(stack))
  BY <1>12, CalleeFrames
<1>13. stack # <<>> => NotBefore(chain, Last(stack).saved)
  <2> SUFFICES ASSUME stack # <<>> PROVE NotBefore(chain, Last(stack).saved)
    OBVIOUS
  <2>1. Len(stack) \in 1 .. Len(stack)
    <3>1. Len(stack) \in Nat \ {0}
      BY <1>0, PopStackOK DEF RunOK
    <3> QED
      BY <3>1
  <2> QED
    BY <1>0, <2>1 DEF LogOK, ChainFits, Last
<1>14. CASE CalleeReturns
  BY <1>0, <1>9, <1>12, <1>14 DEF CalleeReturns
<1>15. CASE CalleeReverts
  BY <1>9, <1>12, <1>13, <1>15 DEF CalleeReverts, Top, InExt
<1>16. CASE AccountTraps
  BY <1>1, <1>13, <1>16 DEF AccountTraps, InAccount, Top
<1>17. CASE AbortTx
  BY <1>1, <1>13, <1>17 DEF AbortTx, InExt, Top
<1>18. ASSUME UNCHANGED chain
       PROVE  SignedStep
  BY <1>0, <1>1, <1>18
<1>19. CASE \/ \E k \in Keys, intent \in Intents : Sign(k, intent)
            \/ \E c \in Chains : BeginTx(c)
            \/ EndTx
            \/ UNCHANGED vars
  BY <1>18, <1>19 DEF Sign, BeginTx, EndTx, vars
<1> QED
  BY <1>4, <1>5, <1>6, <1>7, <1>10, <1>11, <1>14, <1>15, <1>16, <1>17, <1>19 DEF Next

-----------------------------------------------------------------------------
\* A nonce of an account is consumed only for an operation that the key in
\* charge at that moment signed, for exactly this account and this nonce, and
\* what starts (or, for a rotation, happens) is that operation: no signature is
\* replayed, moved to another deployment, or used after its key was rotated out.
THEOREM ConsumedAsSigned == Spec => [][SignedStep]_vars
<1>1. IInv /\ LogInv /\ [Next]_vars => [SignedStep]_vars
  BY NextSigned
<1> QED
  BY <1>1, InductiveInvariant, LogInvariant, PTL DEF Spec

\* Whatever isValidSignature accepts, the owner was asked to sign as a login, for
\* this account and this challenge; no signature over an operation ever passes.
THEOREM LoginAlwaysMeansLogin == Spec => []LoginMeansLogin
<1>1. TypeOK => LoginMeansLogin
  <2> SUFFICES ASSUME TypeOK, NEW a \in Accounts, NEW h \in Challenges,
                      NEW sig \in Signatures, Presentable(sig),
                      IsValidSignature(a, chain[a].owner, h, sig)
               PROVE  [key |-> chain[a].owner, intent |-> Intent(a, LoginOp(h), 0)]
                         \in signed
    BY DEF LoginMeansLogin
  <2>1. PICK i \in Intents :
            /\ DigestOf(i) = PersonalSignHash(a, h)
            /\ [key |-> chain[a].owner, intent |-> i] \in signed
    BY PresentedSignature DEF IsValidSignature
  <2> QED
    BY <2>1, LoginDigest
<1> QED
  BY <1>1, TypeCorrect, PTL
=============================================================================
