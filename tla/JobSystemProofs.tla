--------------------------- MODULE JobSystemProofs ---------------------------
(***************************************************************************)
(* Proofs about the job scheduler, for any number of jobs, threads and     *)
(* clients and any shapes. First, a job is queued and started only when    *)
(* all that it depends on is over: the argument is DependencyInv, whatever *)
(* a thread is about to do with a job stays justified while other threads  *)
(* run. Then, from "Places" on and from the invariants of JobInvariants:   *)
(* whose function runs, whose failure is told to whom, what the counters   *)
(* count and what is left after a cancelled scope or a Close.              *)
(***************************************************************************)
EXTENDS JobInvariants, SequenceTheorems, FiniteSetTheorems, TLAPS

-----------------------------------------------------------------------------
(* Stacks: what a step does to one of them. *)

(* A call entered: what the stack is like with its frame in front.           *)
LEMMA Pushed ==
    ASSUME NEW S, NEW s \in Seq(S), NEW f \in S
    PROVE  /\ <<f>> \o s \in Seq(S)
           /\ DOMAIN (<<f>> \o s) = 1..(Len(s) + 1)
           /\ (<<f>> \o s)[1] = f
           /\ \A i \in 2..(Len(s) + 1) : (<<f>> \o s)[i] = s[i - 1] /\ i - 1 \in DOMAIN s
  BY ConcatProperties

(* A call returned: what is left when the innermost frame is taken off.      *)
LEMMA Popped ==
    ASSUME NEW S, NEW s \in Seq(S), s # <<>>
    PROVE  /\ Head(s) \in S /\ Head(s) = s[1] /\ 1 \in DOMAIN s
           /\ Tail(s) \in Seq(S)
           /\ DOMAIN Tail(s) = 1..(Len(s) - 1)
           /\ \A i \in 1..(Len(s) - 1) : Tail(s)[i] = s[i + 1] /\ i + 1 \in DOMAIN s /\ i + 1 # 1
  BY HeadTailProperties

(* The calls in progress, all but the innermost of t, stay as they should be *)
(* in the next state.                                                        *)
BelowOK(t) == \A u \in Threads : \A i \in DOMAIN stack[u] : \A f \in Frame :
    f = stack[u][i] /\ (u # t \/ i # 1) => FrameOK(u, f)'

StacksOK == StackType /\ StackOK /\ OneSubmit

IsSubmit(f) == f.op = "submit"

(* A thread may exchange its stack for one whose frames are as they should   *)
(* be, if the other calls in progress are not upset.                         *)
LEMMA StackReplaced ==
    ASSUME StacksOK, NEW t \in Threads, BelowOK(t), NEW s \in Seq(Frame),
           stack' = [stack EXCEPT ![t] = s],
           \A i \in DOMAIN s : \A f \in Frame : f = s[i] => FrameOK(t, f)',
           \A i, k \in DOMAIN s : IsSubmit(s[i]) /\ IsSubmit(s[k]) => i = k
    PROVE  StacksOK'
<1>1. StackType'
  BY DEF StacksOK, StackType
<1>2. ASSUME NEW u \in Threads PROVE stack'[u] = IF u = t THEN s ELSE stack[u]
  BY DEF StacksOK, StackType
<1>3. StackOK'
  <2> SUFFICES ASSUME NEW u \in Threads, NEW i \in DOMAIN stack'[u]
               PROVE  FrameOK(u, stack[u][i])'
    BY DEF StackOK
  <2>1. stack'[u][i] \in Frame
    BY <1>1, ElementOfSeq DEF StackType
  <2>2. CASE u = t
    BY <1>2, <2>1, <2>2
  <2>3. CASE u # t
    BY <1>2, <2>1, <2>3 DEF BelowOK
  <2> QED BY <2>2, <2>3
<1>4. OneSubmit'
  BY <1>2 DEF OneSubmit, StacksOK, IsSubmit
<1> QED BY <1>1, <1>3, <1>4 DEF StacksOK

(* Returning from a call keeps the stacks well formed.                       *)
LEMMA ReturnOK ==
    ASSUME StacksOK, NEW t \in Threads, stack[t] # <<>>, Return(t), BelowOK(t)
    PROVE  StacksOK'
<1> DEFINE s == Tail(stack[t])
<1>1. stack[t] \in Seq(Frame) /\ stack' = [stack EXCEPT ![t] = s]
  BY DEF Return, StacksOK, StackType
<1>2. /\ s \in Seq(Frame) /\ DOMAIN s = 1..(Len(stack[t]) - 1)
      /\ \A i \in DOMAIN s : s[i] = stack[t][i + 1] /\ i + 1 \in DOMAIN stack[t] /\ i + 1 # 1
  BY <1>1, Popped
<1>3. \A i \in DOMAIN s : \A f \in Frame : f = s[i] => FrameOK(t, f)'
  BY <1>2 DEF BelowOK
<1>4. \A i, k \in DOMAIN s : IsSubmit(s[i]) /\ IsSubmit(s[k]) => i = k
  <2> SUFFICES ASSUME NEW i \in DOMAIN s, NEW k \in DOMAIN s, IsSubmit(s[i]), IsSubmit(s[k])
               PROVE  i = k
    OBVIOUS
  <2>1. i + 1 = k + 1
    BY <1>2 DEF IsSubmit, OneSubmit, StacksOK
  <2> QED BY <1>2, <2>1
<1> HIDE DEF s
<1> QED BY <1>1, <1>2, <1>3, <1>4, StackReplaced

(* Calling a function keeps the stacks well formed if the caller and the     *)
(* callee are as they should be afterwards.                                  *)
LEMMA EnterOK ==
    ASSUME StacksOK, NEW t \in Threads, NEW f \in Frame, Enter(t, f), BelowOK(t),
           \A g \in Frame : stack[t] # <<>> /\ g = Top(t) => FrameOK(t, g)', FrameOK(t, f)',
           \A i \in DOMAIN stack[t] : ~(IsSubmit(f) /\ IsSubmit(stack[t][i]))
    PROVE  StacksOK'
<1> DEFINE s == <<f>> \o stack[t]
<1>1. stack[t] \in Seq(Frame) /\ stack' = [stack EXCEPT ![t] = s]
  BY DEF Enter, StacksOK, StackType
<1>2. /\ s \in Seq(Frame) /\ DOMAIN s = 1..(Len(stack[t]) + 1) /\ s[1] = f
      /\ \A i \in 2..(Len(stack[t]) + 1) : s[i] = stack[t][i - 1] /\ i - 1 \in DOMAIN stack[t]
  BY <1>1, Pushed
<1>3. Len(stack[t]) \in Nat
  BY <1>1
<1>4. \A i \in DOMAIN s : \A g \in Frame : g = s[i] => FrameOK(t, g)'
  <2> SUFFICES ASSUME NEW i \in DOMAIN s, i # 1, NEW g \in Frame, g = s[i] PROVE FrameOK(t, g)'
    BY <1>2
  <2>1. g = stack[t][i - 1] /\ i - 1 \in DOMAIN stack[t]
    BY <1>2, <1>3
  <2>2. CASE i - 1 = 1
    <3>1. g = Top(t) /\ stack[t] # <<>>
      BY <1>1, <2>1, <2>2, Popped DEF Top
    <3> QED BY <3>1
  <2>3. CASE i - 1 # 1
    BY <2>1, <2>3 DEF BelowOK
  <2> QED BY <2>2, <2>3
<1>5. \A i, k \in DOMAIN s : IsSubmit(s[i]) /\ IsSubmit(s[k]) => i = k
  <2> SUFFICES ASSUME NEW i \in DOMAIN s, NEW k \in DOMAIN s, IsSubmit(s[i]), IsSubmit(s[k])
               PROVE  i = k
    OBVIOUS
  <2>1. \A n \in DOMAIN s : n # 1 => s[n] = stack[t][n - 1] /\ n - 1 \in DOMAIN stack[t]
    BY <1>2, <1>3
  <2>2. CASE i = 1 \/ k = 1
    BY <1>2, <2>1, <2>2
  <2>3. CASE i # 1 /\ k # 1
    <3>1. i - 1 = k - 1
      BY <2>1, <2>3 DEF IsSubmit, OneSubmit, StacksOK
    <3> QED BY <1>2, <1>3, <3>1
  <2> QED BY <2>2, <2>3
<1> HIDE DEF s
<1> QED BY <1>1, <1>2, <1>4, <1>5, StackReplaced

(* A step within a call keeps the stacks well formed if the call is as it    *)
(* should be afterwards.                                                     *)
LEMMA BecomeOK ==
    ASSUME StacksOK, NEW t \in Threads, stack[t] # <<>>, NEW f \in Frame, Become(t, f), BelowOK(t),
           FrameOK(t, f)', IsSubmit(f) => IsSubmit(Top(t))
    PROVE  StacksOK'
<1> DEFINE r == Tail(stack[t])
           s == <<f>> \o r
<1>1. stack[t] \in Seq(Frame) /\ stack' = [stack EXCEPT ![t] = s]
  BY DEF Become, StacksOK, StackType
<1>2. /\ r \in Seq(Frame) /\ DOMAIN r = 1..(Len(stack[t]) - 1) /\ Len(r) \in Nat
      /\ \A i \in DOMAIN r : r[i] = stack[t][i + 1] /\ i + 1 \in DOMAIN stack[t] /\ i + 1 # 1
      /\ Top(t) = stack[t][1] /\ 1 \in DOMAIN stack[t]
  BY <1>1, Popped DEF Top
<1>3. /\ s \in Seq(Frame) /\ DOMAIN s = 1..(Len(r) + 1) /\ s[1] = f
      /\ \A i \in 2..(Len(r) + 1) : s[i] = r[i - 1] /\ i - 1 \in DOMAIN r
  BY <1>2, Pushed
<1>4. \A i \in DOMAIN s : i # 1 => i \in DOMAIN stack[t] /\ s[i] = stack[t][i]
  BY <1>2, <1>3
<1>5. \A i \in DOMAIN s : \A g \in Frame : g = s[i] => FrameOK(t, g)'
  BY <1>3, <1>4 DEF BelowOK
<1>6. \A i, k \in DOMAIN s : IsSubmit(s[i]) /\ IsSubmit(s[k]) => i = k
  BY <1>2, <1>3, <1>4 DEF IsSubmit, OneSubmit, StacksOK
<1> HIDE DEF s, r
<1> QED BY <1>1, <1>3, <1>5, <1>6, StackReplaced

(* The same for a step that also calls a function, as FinishJob calls        *)
(* Enqueue for a dependent.                                                  *)
LEMMA BecomeAndEnterOK ==
    ASSUME StacksOK, NEW t \in Threads, stack[t] # <<>>, NEW f \in Frame, NEW g \in Frame,
           BecomeAndEnter(t, f, g), BelowOK(t),
           FrameOK(t, f)', FrameOK(t, g)', IsSubmit(f) => IsSubmit(Top(t)), ~IsSubmit(g)
    PROVE  StacksOK'
<1> DEFINE r == Tail(stack[t])
           s == <<g, f>> \o r
<1>1. stack[t] \in Seq(Frame) /\ stack' = [stack EXCEPT ![t] = s]
  BY DEF BecomeAndEnter, StacksOK, StackType
<1>2. /\ r \in Seq(Frame) /\ DOMAIN r = 1..(Len(stack[t]) - 1) /\ Len(r) \in Nat
      /\ \A i \in DOMAIN r : r[i] = stack[t][i + 1] /\ i + 1 \in DOMAIN stack[t] /\ i + 1 # 1
      /\ Top(t) = stack[t][1] /\ 1 \in DOMAIN stack[t]
  BY <1>1, Popped DEF Top
<1>3. /\ s \in Seq(Frame) /\ DOMAIN s = 1..(Len(r) + 2) /\ s[1] = g /\ s[2] = f
      /\ \A i \in 3..(Len(r) + 2) : s[i] = r[i - 2] /\ i - 2 \in DOMAIN r
  BY <1>2, ConcatProperties
<1>4. \A i \in DOMAIN s : i # 1 /\ i # 2 => i - 1 \in DOMAIN stack[t] /\ i - 1 # 1 /\ s[i] = stack[t][i - 1]
  BY <1>2, <1>3
<1>5. \A i \in DOMAIN s : \A h \in Frame : h = s[i] => FrameOK(t, h)'
  <2> SUFFICES ASSUME NEW i \in DOMAIN s, NEW h \in Frame, h = s[i] PROVE FrameOK(t, h)'
    OBVIOUS
  <2>1. CASE i = 1
    BY <1>3, <2>1
  <2>2. CASE i = 2
    BY <1>3, <2>2
  <2>3. CASE i # 1 /\ i # 2
    BY <1>4, <2>3 DEF BelowOK
  <2> QED BY <2>1, <2>2, <2>3
<1>6. \A i, k \in DOMAIN s : IsSubmit(s[i]) /\ IsSubmit(s[k]) => i = k
  <2> SUFFICES ASSUME NEW i \in DOMAIN s, NEW k \in DOMAIN s, IsSubmit(s[i]), IsSubmit(s[k])
               PROVE  i = k
    OBVIOUS
  <2>1. i # 1 /\ k # 1
    BY <1>3
  <2>2. i - 1 = k - 1
    BY <1>2, <1>3, <1>4, <2>1 DEF IsSubmit, OneSubmit, StacksOK
  <2> QED BY <1>2, <1>3, <2>2
<1> HIDE DEF s, r
<1> QED BY <1>1, <1>3, <1>5, <1>6, StackReplaced

-----------------------------------------------------------------------------
(* Frames. *)

(* The innermost call of a thread satisfies what all calls do.               *)
LEMMA TopFrame ==
    ASSUME StacksOK, NEW t \in Threads, stack[t] # <<>>
    PROVE  /\ Top(t) \in Frame /\ FrameOK(t, Top(t))
           /\ 1 \in DOMAIN stack[t] /\ stack[t][1] = Top(t)
<1>1. stack[t] \in Seq(Frame)
  BY DEF StacksOK, StackType
<1>2. Top(t) \in Frame /\ 1 \in DOMAIN stack[t] /\ stack[t][1] = Top(t)
  BY <1>1, Popped DEF Top
<1> QED BY <1>2 DEF StacksOK, StackOK

(* Submit's own frame is the only one that other calls' progress can affect. *)
LEMMA FrameKept ==
    ASSUME NEW u \in Threads, NEW f \in Frame, FrameOK(u, f), Known \subseteq Known',
           \A j \in Jobs : IsTerminal(status[j]) => IsTerminal(status[j])',
           \A j \in Jobs : Ready(j, blockedBy) => Ready(j, blockedBy)',
           \/ ~IsSubmit(f)
           \/ /\ submitter' = submitter /\ registered' = registered
              /\ Attached(f.job, f.todo) => Attached(f.job, f.todo)'
    PROVE  FrameOK(u, f)'
<1>1. Known \subseteq Jobs
  BY DEF Known
<1> QED BY <1>1 DEF FrameOK, IsSubmit

(* SubmissionMutex: only one Submit is in progress.                          *)
LEMMA SubmitsAlone ==
    ASSUME StacksOK, NEW t \in Threads, stack[t] # <<>>, IsSubmit(Top(t)),
           NEW u \in Threads, NEW i \in DOMAIN stack[u], IsSubmit(stack[u][i])
    PROVE  u = t /\ i = 1
<1>1. FrameOK(t, Top(t)) /\ 1 \in DOMAIN stack[t] /\ stack[t][1] = Top(t)
  BY TopFrame
<1>2. FrameOK(u, stack[u][i])
  BY DEF StacksOK, StackOK
<1>3. submitter = {t} /\ submitter = {u}
  BY <1>1, <1>2 DEF FrameOK, IsSubmit
<1>4. u = t
  BY <1>3
<1> QED BY <1>1, <1>4 DEF StacksOK, OneSubmit, IsSubmit

Well(t, f) == f \in Frame /\ FrameOK(t, f)

(* A call of FinishJob for a submitted job, with an end to give it.          *)
LEMMA FinishWell ==
    ASSUME NEW t, NEW j \in Known, NEW s \in {"Succeeded", "Failed", "Cancelled"},
           NEW e \in Jobs \cup {None}
    PROVE  Well(t, FinishCall(j, s, e)) /\ ~IsSubmit(FinishCall(j, s, e))
  BY DEF Well, FinishCall, Call, Frame, FrameOK, IsSubmit, IsTerminal, Statuses, Known

(* A call that assumes nothing about its job.                                *)
LEMMA CallWell ==
    ASSUME NEW t, NEW j \in Jobs \cup {None},
           NEW op \in {"enqueue", "wait", "cancel", "notify", "cancelScope", "waitScope", "close"},
           NEW at \in {"claim", "check", "look", "call", "collect", "flag"},
           at \notin WithoutJob => j \in Jobs
    PROVE  Well(t, Call(op, at, j)) /\ ~IsSubmit(Call(op, at, j))
  BY DEF Well, Call, Frame, FrameOK, IsSubmit, Statuses, WithoutJob

(* A call of Execute for a job that is ready.                                *)
LEMMA ExecuteWell ==
    ASSUME NEW t, NEW j \in Jobs, Ready(j, blockedBy)
    PROVE  Well(t, Call("execute", "begin", j)) /\ ~IsSubmit(Call("execute", "begin", j))
  BY DEF Well, Call, Frame, FrameOK, IsSubmit, Statuses, WithoutJob

(* Shortening or filling the list that a loop goes through keeps a call as   *)
(* it should be.                                                             *)
LEMMA TodoWell ==
    ASSUME NEW t, NEW f, Well(t, f), ~IsSubmit(f), NEW X \in SUBSET Jobs,
           f.op = "close" => X \subseteq Known
    PROVE  Well(t, [f EXCEPT !.todo = X]) /\ ~IsSubmit([f EXCEPT !.todo = X])
<1> DEFINE g == [f EXCEPT !.todo = X]
<1>1. /\ g \in Frame /\ g.op = f.op /\ g.at = f.at /\ g.job = f.job /\ g.status = f.status
      /\ g.todo = X
  BY DEF Well, Frame
<1> HIDE DEF g
<1>2. Well(t, g) /\ ~IsSubmit(g)
  BY <1>1 DEF Well, FrameOK, IsSubmit
<1> QED BY <1>2 DEF g

(* So does changing the completion functions that FinishJob holds.           *)
LEMMA CallsWell ==
    ASSUME NEW t, NEW f, Well(t, f), NEW C \in SUBSET Callbacks
    PROVE  Well(t, [f EXCEPT !.calls = C]) /\ (IsSubmit([f EXCEPT !.calls = C]) => IsSubmit(f))
<1> DEFINE g == [f EXCEPT !.calls = C]
<1>1. /\ g \in Frame /\ g.op = f.op /\ g.at = f.at /\ g.job = f.job /\ g.status = f.status
      /\ g.todo = f.todo
  BY DEF Well, Frame
<1> HIDE DEF g
<1>2. Well(t, g) /\ (IsSubmit(g) => IsSubmit(f))
  BY <1>1 DEF Well, FrameOK, IsSubmit
<1> QED BY <1>2 DEF g

-----------------------------------------------------------------------------
(* Steps that change none of what the frames and DependencyInv speak about: *)
(* only the stack and the queues remain to be looked at.                    *)

Steady == UNCHANGED <<next, status, blockedBy, registered, deps, submitter>>

StackStep(t) ==
    \/ UNCHANGED stack
    \/ stack[t] # <<>> /\ Return(t)
    \/ \E f \in Frame : Well(t, f) /\ ~IsSubmit(f) /\ Enter(t, f)
    \/ stack[t] # <<>> /\ \E f \in Frame : Well(t, f) /\ (IsSubmit(f) => IsSubmit(Top(t))) /\ Become(t, f)
    \/ stack[t] # <<>> /\ \E f, g \in Frame :
          Well(t, f) /\ ~IsSubmit(f) /\ Well(t, g) /\ ~IsSubmit(g) /\ BecomeAndEnter(t, f, g)

QueueStep == \A lane \in {"Compute", "Blocking"} : \A j \in queue'[lane] :
    j \in queue[lane] \/ Ready(j, blockedBy)

(* A step that changes no status, no dependency and no registration keeps    *)
(* the invariant, if what it adds to a queue is ready.                       *)
LEMMA SteadyStep ==
    ASSUME DependencyInv, NEW t \in Threads, Steady, StackStep(t), QueueStep, DataType'
    PROVE  DependencyInv'
<1>1. StacksOK
  BY DEF DependencyInv, StacksOK, TypeOK
<1>2. ASSUME NEW u \in Threads, NEW f \in Frame, FrameOK(u, f) PROVE FrameOK(u, f)'
  BY <1>2, FrameKept DEF Steady, Ready, Attached, Known
<1>3. \A u \in Threads : \A i \in DOMAIN stack[u] : \A f \in Frame :
          f = stack[u][i] => FrameOK(u, f)'
  BY <1>1, <1>2 DEF StacksOK, StackOK
<1>4. BelowOK(t) /\ \A g \in Frame : stack[t] # <<>> /\ g = Top(t) => FrameOK(t, g)'
  BY <1>1, <1>3, TopFrame DEF BelowOK
<1>5. StacksOK'
  <2>1. CASE UNCHANGED stack
    <3>1. StackType' /\ OneSubmit'
      BY <1>1, <2>1 DEF StacksOK, StackType, OneSubmit
    <3>2. ASSUME NEW u \in Threads, NEW i \in DOMAIN stack'[u] PROVE FrameOK(u, stack[u][i])'
      <4>1. stack'[u][i] \in Frame
        BY <3>1, ElementOfSeq DEF StackType
      <4> QED BY <1>3, <2>1, <4>1
    <3> QED BY <3>1, <3>2 DEF StacksOK, StackOK
  <2>2. CASE stack[t] # <<>> /\ Return(t)
    BY <1>1, <1>4, <2>2, ReturnOK
  <2>3. CASE \E f \in Frame : Well(t, f) /\ ~IsSubmit(f) /\ Enter(t, f)
    <3>1. PICK f \in Frame : Well(t, f) /\ ~IsSubmit(f) /\ Enter(t, f)
      BY <2>3
    <3>2. FrameOK(t, f)'
      BY <1>2, <3>1 DEF Well
    <3> QED BY <1>1, <1>4, <3>1, <3>2, EnterOK
  <2>4. CASE stack[t] # <<>> /\ \E f \in Frame : Well(t, f) /\ (IsSubmit(f) => IsSubmit(Top(t))) /\ Become(t, f)
    <3>1. PICK f \in Frame : Well(t, f) /\ (IsSubmit(f) => IsSubmit(Top(t))) /\ Become(t, f)
      BY <2>4
    <3>2. FrameOK(t, f)'
      BY <1>2, <3>1 DEF Well
    <3> QED BY <1>1, <1>4, <2>4, <3>1, <3>2, BecomeOK
  <2>5. CASE stack[t] # <<>> /\ \E f, g \in Frame :
                Well(t, f) /\ ~IsSubmit(f) /\ Well(t, g) /\ ~IsSubmit(g) /\ BecomeAndEnter(t, f, g)
    <3>1. PICK f \in Frame, g \in Frame :
                Well(t, f) /\ ~IsSubmit(f) /\ Well(t, g) /\ ~IsSubmit(g) /\ BecomeAndEnter(t, f, g)
      BY <2>5
    <3>2. FrameOK(t, f)' /\ FrameOK(t, g)'
      BY <1>2, <3>1 DEF Well
    <3> QED BY <1>1, <1>4, <2>5, <3>1, <3>2, BecomeAndEnterOK
  <2> QED BY <2>1, <2>2, <2>3, <2>4, <2>5 DEF StackStep
<1>6. JobsOK'
  BY DEF DependencyInv, JobsOK, Steady, QueueStep, Ready, Attached, Known
<1> QED BY <1>5, <1>6 DEF DependencyInv, StacksOK, TypeOK

(* The parts of the invariant that the steps below use.                      *)
LEMMA InvParts ==
    ASSUME DependencyInv
    PROVE  /\ StacksOK /\ DataType /\ JobsOK
           /\ \A t \in Threads : stack[t] # <<>> =>
                 Well(t, Top(t)) /\ (Top(t).at \notin WithoutJob => Top(t).job \in Jobs)
           /\ \A j \in Jobs : status[j] # "Unsubmitted" \/ Ready(j, blockedBy) => j \in Known
<1>1. StacksOK
  BY DEF DependencyInv, StacksOK, TypeOK
<1>2. \A j \in Jobs : status[j] # "Unsubmitted" \/ Ready(j, blockedBy) => j \in Known
  BY DEF DependencyInv, JobsOK, Ready
<1> QED BY <1>1, <1>2, TopFrame DEF DependencyInv, TypeOK, Well, FrameOK

(* The invariant includes the types of the data.                             *)
LEMMA TypePart == ASSUME DependencyInv PROVE DataType
  BY DEF DependencyInv, TypeOK

(* A step that changes only the stacks keeps the invariant.                  *)
LEMMA StackOnly ==
    ASSUME DependencyInv, NEW t \in Threads, OnlyStackChanges, StackStep(t)
    PROVE  DependencyInv'
<1>1. Steady /\ QueueStep
  BY DEF OnlyStackChanges, Steady, QueueStep, jobVars, linkVars, stateVars
<1>2. DataType'
  BY TypePart DEF OnlyStackChanges, DataType, jobVars, linkVars, stateVars, callVars, scopeVars, poolVars
<1> QED BY <1>1, <1>2, SteadyStep

-----------------------------------------------------------------------------
(* Job functions. *)

(* Execute calling job->Function keeps the invariant.                        *)
LEMMA ExecuteCallInv ==
    ASSUME DependencyInv, NEW t \in Threads, ExecuteCall(t) PROVE DependencyInv'
<1>1. stack[t] # <<>> /\ Top(t).op = "execute" /\ Top(t).at = "call" /\ OnlyStackChanges
  BY DEF ExecuteCall, At
<1>2. Well(t, Top(t)) /\ Top(t).job \in Jobs /\ Top(t) \in Frame
  BY <1>1, InvParts DEF Well, WithoutJob
<1> DEFINE j == Top(t).job
           f == [Top(t) EXCEPT !.at = "body", !.todo = shape[j].awaits]
<1>3. shape[j].awaits \subseteq Jobs
  BY <1>2, InvParts DEF DataType, Shape
<1>4. f \in Frame /\ f.op = "execute" /\ f.at = "body" /\ f.job = j
  BY <1>1, <1>2, <1>3 DEF Frame
<1>5. Well(t, f) /\ ~IsSubmit(f)
  <2> HIDE DEF f
  <2> QED BY <1>1, <1>2, <1>4 DEF Well, FrameOK, IsSubmit
<1>6. Well(t, FinishCall(j, "Failed", j)) /\ ~IsSubmit(FinishCall(j, "Failed", j))
  <2>1. j \in Known
    BY <1>1, <1>2, InvParts DEF Well, FrameOK
  <2> QED BY <1>2, <2>1, FinishWell
<1>7. Become(t, f) \/ Become(t, FinishCall(j, "Failed", j))
  BY DEF ExecuteCall
<1> HIDE DEF f
<1>8. StackStep(t)
  BY <1>1, <1>5, <1>6, <1>7 DEF StackStep, Well
<1> QED BY <1>1, <1>8, StackOnly

(* A job function that waits for a job keeps the invariant.                  *)
LEMMA BodyWaitsInv ==
    ASSUME DependencyInv, NEW t \in Threads, NEW k \in Jobs, BodyWaits(t, k) PROVE DependencyInv'
<1> DEFINE f == [Top(t) EXCEPT !.todo = Top(t).todo \ {k}]
<1>1. /\ stack[t] # <<>> /\ Top(t).op = "execute" /\ OnlyStackChanges
      /\ BecomeAndEnter(t, f, Call("wait", "check", k))
  BY DEF BodyWaits, At
<1>2. Well(t, Top(t)) /\ ~IsSubmit(Top(t)) /\ Top(t) \in Frame
  BY <1>1, InvParts DEF Well, IsSubmit
<1>3. Well(t, f) /\ ~IsSubmit(f)
  <2>1. Top(t).todo \ {k} \in SUBSET Jobs
    BY <1>2 DEF Frame
  <2> QED BY <1>1, <1>2, <2>1, TodoWell
<1>4. Well(t, Call("wait", "check", k)) /\ ~IsSubmit(Call("wait", "check", k))
  BY CallWell
<1> HIDE DEF f
<1>5. StackStep(t)
  BY <1>1, <1>3, <1>4 DEF StackStep, Well
<1> QED BY <1>1, <1>5, StackOnly

(* The return of a job function, with an exception or without, keeps it.     *)
LEMMA BodyEndsInv ==
    ASSUME DependencyInv, NEW t \in Threads, BodyReturns(t) \/ BodyThrows(t) PROVE DependencyInv'
<1>1. stack[t] # <<>> /\ Top(t).op = "execute" /\ OnlyStackChanges
  BY DEF BodyReturns, BodyThrows, At
<1>2. Top(t).job \in Jobs /\ Top(t).job \in Known
  BY <1>1, InvParts DEF Well, FrameOK
<1>3. \E s \in {"Succeeded", "Failed", "Cancelled"}, e \in Jobs \cup {None} :
          Become(t, FinishCall(Top(t).job, s, e))
  BY <1>2 DEF BodyReturns, BodyThrows
<1>4. StackStep(t)
  BY <1>1, <1>2, <1>3, FinishWell DEF StackStep, Well
<1> QED BY <1>1, <1>4, StackOnly

-----------------------------------------------------------------------------
(* Calls through handles, scopes and the system. *)

(* So do the ends of JobHandle::Wait, of the scope calls and of Close.       *)
LEMMA ReturnsInv ==
    ASSUME DependencyInv, NEW t \in Threads, WaitWake(t) \/ ScopeReturn(t) \/ CloseReturn(t)
    PROVE  DependencyInv'
<1>1. stack[t] # <<>> /\ Return(t) /\ OnlyStackChanges
  BY DEF WaitWake, ScopeReturn, CloseReturn, At
<1> QED BY <1>1, StackOnly DEF StackStep

(* So do the calls of JobScope::Wait and JobHandle::Wait.                    *)
LEMMA ClientCallsInv ==
    ASSUME DependencyInv, NEW t \in Threads,
           ScopeWait(t) \/ \E j \in Jobs : ClientWaits(t, j)
    PROVE  DependencyInv'
<1>1. CASE ScopeWait(t)
  <2>1. Enter(t, Call("waitScope", "collect", None)) /\ OnlyStackChanges
    BY <1>1 DEF ScopeWait
  <2>2. "collect" \in WithoutJob
    BY DEF WithoutJob
  <2> QED BY <2>1, <2>2, CallWell, StackOnly DEF StackStep, Well
<1>2. ASSUME NEW j \in Jobs, ClientWaits(t, j) PROVE DependencyInv'
  <2>1. Enter(t, Call("wait", "check", j)) /\ OnlyStackChanges
    BY <1>2 DEF ClientWaits
  <2> QED BY <2>1, CallWell, StackOnly DEF StackStep, Well
<1> QED BY <1>1, <1>2

(* Cancel and JobScope::Cancel act on the status they read: the job they     *)
(* finish has been submitted.                                                *)
LEMMA LooksInv ==
    ASSUME DependencyInv, NEW t \in Threads, CancelLook(t) \/ ScopeCancelLook(t)
    PROVE  DependencyInv'
<1>1. stack[t] # <<>> /\ Top(t).at = "look" /\ OnlyStackChanges
  BY DEF CancelLook, ScopeCancelLook, At
<1>2. \/ Return(t)
      \/ status[Top(t).job] # "Unsubmitted" /\ Become(t, FinishCall(Top(t).job, "Cancelled", None))
  BY DEF CancelLook, ScopeCancelLook, CancelEnds, ScopeCancelEnds
<1>3. Top(t).job \in Jobs
  BY <1>1, InvParts DEF WithoutJob
<1>4. StackStep(t)
  BY <1>1, <1>2, <1>3, FinishWell, InvParts DEF StackStep, Well
<1> QED BY <1>1, <1>4, StackOnly

(* The turns of the loops over a scope's or the system's jobs. *)
LEMMA LoopFrame ==
    ASSUME DependencyInv, NEW t \in Threads, stack[t] # <<>>, ~IsSubmit(Top(t)), NEW X
    PROVE  LET f == [Top(t) EXCEPT !.todo = Top(t).todo \ X] IN Well(t, f) /\ ~IsSubmit(f)
<1>1. /\ Well(t, Top(t)) /\ Top(t).todo \ X \in SUBSET Jobs
      /\ Top(t).op = "close" => Top(t).todo \ X \subseteq Known
  BY InvParts DEF Well, Frame, FrameOK
<1> QED BY <1>1, TodoWell

(* Copying the jobs of a scope keeps the invariant.                          *)
LEMMA ScopeCollectInv ==
    ASSUME DependencyInv, NEW t \in Threads, ScopeCollect(t) PROVE DependencyInv'
<1> DEFINE f == [Top(t) EXCEPT !.at = "each", !.todo = scopeJobs]
<1>1. /\ stack[t] # <<>> /\ Top(t).op \in {"cancelScope", "waitScope"} /\ Top(t).at = "collect"
      /\ OnlyStackChanges /\ Become(t, f)
  BY DEF ScopeCollect, At
<1>2. Well(t, Top(t)) /\ Top(t) \in Frame /\ scopeJobs \subseteq Jobs
  BY <1>1, InvParts DEF Well, DataType
<1>3. f \in Frame /\ f.op = Top(t).op /\ f.at = "each" /\ f.job = Top(t).job
  BY <1>2 DEF Frame
<1> HIDE DEF f
<1>4. Well(t, f) /\ ~IsSubmit(f)
  BY <1>1, <1>2, <1>3 DEF Well, FrameOK, IsSubmit, WithoutJob
<1> QED BY <1>1, <1>4, StackOnly DEF StackStep, Well

(* So does a turn of the loop of JobScope::Wait.                             *)
LEMMA ScopeWaitEachInv ==
    ASSUME DependencyInv, NEW t \in Threads, NEW j \in Jobs, ScopeWaitEach(t, j)
    PROVE  DependencyInv'
<1> DEFINE f == [Top(t) EXCEPT !.todo = Top(t).todo \ {j}]
<1>1. /\ stack[t] # <<>> /\ ~IsSubmit(Top(t)) /\ OnlyStackChanges
      /\ BecomeAndEnter(t, f, Call("wait", "check", j))
  BY DEF ScopeWaitEach, At, IsSubmit
<1>2. Well(t, f) /\ ~IsSubmit(f)
  BY <1>1, LoopFrame
<1>3. Well(t, Call("wait", "check", j)) /\ ~IsSubmit(Call("wait", "check", j))
  BY CallWell
<1> HIDE DEF f
<1> QED BY <1>1, <1>2, <1>3, StackOnly DEF StackStep, Well

(* So does the end of the joins in Close.                                    *)
LEMMA CloseJoinInv ==
    ASSUME DependencyInv, NEW t \in Threads, CloseJoin(t) PROVE DependencyInv'
<1> DEFINE f == [Top(t) EXCEPT !.at = "sweep", !.todo = 1..(next - 1)]
<1>1. /\ stack[t] # <<>> /\ Top(t).op = "close" /\ Top(t).at = "flag"
      /\ OnlyStackChanges /\ Become(t, f)
  BY DEF CloseJoin, At
<1>2. Well(t, Top(t)) /\ Top(t) \in Frame /\ next \in 1..(JobCount + 1)
  BY <1>1, InvParts DEF Well, DataType
<1>3. 1..(next - 1) \subseteq Known /\ 1..(next - 1) \subseteq Jobs
  BY <1>2, JobSystemAssumption DEF Jobs, Known
<1>4. f \in Frame /\ f.op = "close" /\ f.at = "sweep" /\ f.job = Top(t).job /\ f.todo \subseteq Known
  BY <1>1, <1>2, <1>3 DEF Frame
<1> HIDE DEF f
<1>5. Well(t, f) /\ ~IsSubmit(f)
  BY <1>1, <1>2, <1>4 DEF Well, FrameOK, IsSubmit, WithoutJob
<1> QED BY <1>1, <1>5, StackOnly DEF StackStep, Well

(* Close finishes only jobs that have been submitted.                        *)
LEMMA CloseSweepInv ==
    ASSUME DependencyInv, NEW t \in Threads, NEW j \in Jobs, CloseSweep(t, j)
    PROVE  DependencyInv'
<1> DEFINE f == [Top(t) EXCEPT !.todo = Top(t).todo \ {j}]
<1>1. /\ stack[t] # <<>> /\ ~IsSubmit(Top(t)) /\ OnlyStackChanges
      /\ BecomeAndEnter(t, f, FinishCall(j, "Cancelled", None)) \/ Become(t, f)
  BY DEF CloseSweep, At, IsSubmit
<1>2. Well(t, f) /\ ~IsSubmit(f)
  BY <1>1, LoopFrame
<1>3. LET g == FinishCall(j, "Cancelled", None) IN Well(t, g) /\ ~IsSubmit(g)
  <2>1. Top(t).op = "close" /\ j \in Top(t).todo
    BY DEF CloseSweep, At
  <2>2. j \in Known
    BY <1>1, <2>1, InvParts DEF Well, FrameOK
  <2> QED BY <2>2, FinishWell
<1> HIDE DEF f
<1> QED BY <1>1, <1>2, <1>3, StackOnly DEF StackStep, Well

(* OnComplete, answered at once or later, keeps the invariant.               *)
LEMMA OnCompleteInv ==
    ASSUME DependencyInv, NEW t \in Threads, NEW j \in Jobs, NEW c \in Callbacks, OnComplete(t, j, c)
    PROVE  DependencyInv'
<1>1. DataType'
  BY TypePart DEF OnComplete, DataType, jobVars, linkVars, stateVars, scopeVars, poolVars
<1>2. Steady /\ QueueStep
  BY DEF OnComplete, Steady, QueueStep, jobVars, linkVars, stateVars
<1>3. StackStep(t)
  <2>1. UNCHANGED stack \/ Enter(t, [Call("notify", "call", j) EXCEPT !.calls = {c}])
    BY DEF OnComplete
  <2>2. Well(t, Call("notify", "call", j)) /\ ~IsSubmit(Call("notify", "call", j))
    BY CallWell
  <2> DEFINE f == [Call("notify", "call", j) EXCEPT !.calls = {c}]
  <2>3. Well(t, f) /\ ~IsSubmit(f)
    BY <2>2, CallsWell
  <2> HIDE DEF f
  <2> QED BY <2>1, <2>3 DEF StackStep, Well, f
<1> QED BY <1>1, <1>2, <1>3, SteadyStep

(* Cancellation requests, of a job, of a scope, of everything. *)
LEMMA CancelInv ==
    ASSUME DependencyInv, NEW t \in Threads,
           ScopeCancel(t) \/ \E j \in Jobs : Cancel(t, j) \/ ScopeCancelFlag(t, j) \/ CloseFlag(t, j)
    PROVE  DependencyInv'
<1>1. DataType'
  BY TypePart DEF Cancel, ScopeCancel, ScopeCancelFlag, CloseFlag, DataType, jobVars, linkVars,
                  stateVars, callVars, scopeVars, poolVars
<1>2. Steady /\ QueueStep
  BY DEF Cancel, ScopeCancel, ScopeCancelFlag, CloseFlag, Steady, QueueStep, jobVars, linkVars, stateVars
<1>3. CASE ScopeCancel(t)
  <2>1. Enter(t, Call("cancelScope", "collect", None)) /\ "collect" \in WithoutJob
    BY <1>3 DEF ScopeCancel, WithoutJob
  <2> QED BY <1>1, <1>2, <2>1, CallWell, SteadyStep DEF StackStep, Well
<1>4. ASSUME NEW j \in Jobs, Cancel(t, j) PROVE DependencyInv'
  <2>1. Enter(t, Call("cancel", "look", j))
    BY <1>4 DEF Cancel
  <2> QED BY <1>1, <1>2, <2>1, CallWell, SteadyStep DEF StackStep, Well
<1>5. ASSUME NEW j \in Jobs, ScopeCancelFlag(t, j) \/ CloseFlag(t, j) PROVE DependencyInv'
  <2> DEFINE f == [Top(t) EXCEPT !.todo = Top(t).todo \ {j}]
             g == Call("cancelScope", "look", j)
  <2>1. stack[t] # <<>> /\ ~IsSubmit(Top(t)) /\ (BecomeAndEnter(t, f, g) \/ Become(t, f))
    BY <1>5 DEF ScopeCancelFlag, CloseFlag, At, IsSubmit
  <2>2. Well(t, f) /\ ~IsSubmit(f)
    BY <2>1, LoopFrame
  <2>3. Well(t, g) /\ ~IsSubmit(g)
    BY CallWell
  <2> HIDE DEF f, g
  <2> QED BY <1>1, <1>2, <2>1, <2>2, <2>3, SteadyStep DEF StackStep, Well
<1> QED BY <1>3, <1>4, <1>5

(* Neither switching the simulation mode nor stopping and leaving of pool    *)
(* threads touches a job.                                                    *)
LEMMA PoolInv ==
    ASSUME DependencyInv, NEW t \in Threads,
           \/ SetDeterministicSimulation(t) \/ WorkerExit(t)
           \/ \E w \in Pool : CloseRequestStop(t, w)
    PROVE  DependencyInv'
<1>1. DataType'
  BY TypePart DEF SetDeterministicSimulation, WorkerExit, CloseRequestStop, DataType, jobVars,
                  linkVars, stateVars, callVars, scopeVars, poolVars
<1>2. Steady /\ QueueStep /\ UNCHANGED stack
  BY DEF SetDeterministicSimulation, WorkerExit, CloseRequestStop, Steady, QueueStep, jobVars,
         linkVars, stateVars
<1> QED BY <1>1, <1>2, SteadyStep DEF StackStep

(* Close begins with the jobs submitted so far.                              *)
LEMMA CloseInv ==
    ASSUME DependencyInv, NEW t \in Threads, Close(t) PROVE DependencyInv'
<1>1. DataType'
  BY TypePart DEF Close, DataType, jobVars, linkVars, stateVars, callVars, scopeVars
<1>2. Steady /\ QueueStep
  BY DEF Close, Steady, QueueStep, jobVars, linkVars, stateVars
<1> DEFINE f == [Call("close", "flag", None) EXCEPT !.todo = 1..(next - 1)]
<1>3. Well(t, f) /\ ~IsSubmit(f) /\ Enter(t, f)
  <2>1. 1..(next - 1) \subseteq Known /\ 1..(next - 1) \subseteq Jobs
    BY InvParts, JobSystemAssumption DEF DataType, Jobs, Known
  <2>2. Well(t, Call("close", "flag", None)) /\ ~IsSubmit(Call("close", "flag", None))
    BY CallWell DEF WithoutJob
  <2>3. Enter(t, f)
    BY DEF Close
  <2> QED BY <2>1, <2>2, <2>3, TodoWell
<1> HIDE DEF f
<1>4. StackStep(t)
  BY <1>3 DEF StackStep, Well
<1> QED BY <1>1, <1>2, <1>4, SteadyStep

-----------------------------------------------------------------------------
(* Queues: what a thread takes out was ready when it was put in, and stays so. *)

(* Taking a job from a queue, by a worker or within Wait, keeps the          *)
(* invariant.                                                                *)
LEMMA TakeInv ==
    ASSUME DependencyInv, NEW t \in Threads, Take(t) \/ WaitCheck(t) PROVE DependencyInv'
<1>1. DataType'
  <2>1. queue' \in [{"Compute", "Blocking"} -> SUBSET Jobs]
    BY TypePart DEF Take, WaitCheck, DataType, TakesFrom
  <2> QED BY <2>1, TypePart DEF Take, WaitCheck, DataType, jobVars, linkVars, stateVars, callVars,
                                scopeVars, poolVars
<1>2. Steady
  BY DEF Take, WaitCheck, Steady, jobVars, linkVars, stateVars
<1>3. QueueStep /\ StackStep(t)
  <2>1. CASE WaitCheck(t) /\ Complete(Top(t).job) /\ Return(t) /\ UNCHANGED queue
    BY <2>1 DEF WaitCheck, At, QueueStep, StackStep
  <2>2. CASE WaitCheck(t) /\ Become(t, [Top(t) EXCEPT !.at = "sleep"]) /\ UNCHANGED queue
    <3> DEFINE f == [Top(t) EXCEPT !.at = "sleep"]
    <3>1. stack[t] # <<>> /\ Top(t).op = "wait" /\ Top(t).at = "check"
      BY <2>2 DEF WaitCheck, At
    <3>2. Well(t, Top(t)) /\ Top(t) \in Frame
      BY <3>1, InvParts DEF Well
    <3>3. f \in Frame /\ f.op = "wait" /\ f.at = "sleep" /\ f.job = Top(t).job
      BY <3>1, <3>2 DEF Frame
    <3> HIDE DEF f
    <3>4. Well(t, f) /\ ~IsSubmit(f)
      BY <3>1, <3>2, <3>3 DEF Well, FrameOK, IsSubmit, WithoutJob
    <3> QED BY <2>2, <3>1, <3>4 DEF QueueStep, StackStep, Well, f
  <2>3. ASSUME NEW lane \in {"Compute", "Blocking"}, NEW j \in queue[lane],
               queue' = [queue EXCEPT ![lane] = queue[lane] \ {j}],
               Enter(t, Call("execute", "begin", j))
        PROVE  QueueStep /\ StackStep(t)
    <3>1. QueueStep
      BY <2>3, InvParts DEF QueueStep, DataType
    <3>2. j \in Jobs /\ Ready(j, blockedBy)
      BY InvParts DEF JobsOK, DataType
    <3> QED BY <2>3, <3>1, <3>2, ExecuteWell DEF StackStep, Well
  <2>4. CASE Take(t)
    BY <2>3, <2>4 DEF Take, TakesFrom
  <2>5. CASE WaitCheck(t) /\ \E j \in queue["Compute"] :
                  /\ queue' = [queue EXCEPT !["Compute"] = queue["Compute"] \ {j}]
                  /\ Enter(t, Call("execute", "begin", j))
    BY <2>3, <2>5
  <2> QED BY <2>1, <2>2, <2>4, <2>5 DEF WaitCheck
<1> QED BY <1>1, <1>2, <1>3, SteadyStep

Counters == [{"Outstanding", "Waiting", "Queued", "Running"} -> Int]

(* Adding to a counter leaves the other counters alone.                      *)
LEMMA CounterAdded ==
    ASSUME NEW c \in Counters, NEW k, NEW n \in Int
    PROVE  /\ Add(c, k, n) \in Counters
           /\ Add(c, k, n)["Outstanding"] =
                 IF k = "Outstanding" THEN c["Outstanding"] + n ELSE c["Outstanding"]
<1> DEFINE d == Add(c, k, n)
<1>1. d = [key \in {"Outstanding", "Waiting", "Queued", "Running"} |-> IF key = k THEN c[key] + n ELSE c[key]]
  BY DEF Add, Counters
<1> HIDE DEF d
<1>2. \A key \in {"Outstanding", "Waiting", "Queued", "Running"} : c[key] \in Int /\ d[key] \in Int
  BY <1>1 DEF Counters
<1>3. d \in Counters
  BY <1>1, <1>2 DEF Counters
<1>4. d["Outstanding"] = IF k = "Outstanding" THEN c["Outstanding"] + n ELSE c["Outstanding"]
  BY <1>1
<1> QED BY <1>3, <1>4 DEF d

(* Enqueue puts a job in its queue that nothing blocks any more.             *)
LEMMA EnqueuePublishInv ==
    ASSUME DependencyInv, NEW t \in Threads, EnqueuePublish(t) PROVE DependencyInv'
<1>1. stack[t] # <<>> /\ Top(t).at = "publish" /\ Return(t)
  BY DEF EnqueuePublish, At
<1>2. Top(t).job \in Jobs /\ Ready(Top(t).job, blockedBy)
  BY <1>1, InvParts DEF Well, FrameOK
<1>3. Lane(Top(t).job) \in {"Compute", "Blocking"}
  BY <1>2, InvParts DEF Lane, DataType, Shape
<1>4. DataType'
  <2>1. queue' \in [{"Compute", "Blocking"} -> SUBSET Jobs]
    BY <1>2, <1>3, TypePart DEF EnqueuePublish, DataType
  <2>2. count' \in Counters /\ count'["Outstanding"] = count["Outstanding"]
    <3>1. count \in Counters
      BY InvParts DEF DataType, Counters
    <3>2. LET c == Add(count, "Waiting", -1) IN c \in Counters /\ c["Outstanding"] = count["Outstanding"]
      BY <3>1, CounterAdded
    <3> DEFINE c == Add(count, "Waiting", -1)
    <3>3. count' = Add(c, "Queued", 1) /\ c \in Counters /\ c["Outstanding"] = count["Outstanding"]
      BY <3>2 DEF EnqueuePublish
    <3> HIDE DEF c
    <3> QED BY <3>3, CounterAdded
  <2> QED BY <2>1, <2>2, TypePart DEF EnqueuePublish, DataType, Counters, jobVars, linkVars,
                                      stateVars, callVars, scopeVars, poolVars
<1>5. Steady /\ QueueStep
  BY <1>2, <1>3, InvParts DEF EnqueuePublish, Steady, QueueStep, DataType, jobVars, linkVars, stateVars
<1> QED BY <1>1, <1>4, <1>5, SteadyStep DEF StackStep

-----------------------------------------------------------------------------
(* FinishJob after its claim. *)

(* Settling the counters only lowers Outstanding.                            *)
LEMMA FinishSettleInv ==
    ASSUME DependencyInv, NEW t \in Threads, FinishSettle(t) PROVE DependencyInv'
<1> DEFINE f == [Top(t) EXCEPT !.at = "release"]
<1>1. stack[t] # <<>> /\ Top(t).op = "finish" /\ Top(t).at = "settle" /\ Become(t, f)
  BY DEF FinishSettle, At
<1>2. Well(t, Top(t)) /\ Top(t) \in Frame
  BY <1>1, InvParts DEF Well
<1>3. DataType'
  <2>1. count \in Counters
    BY InvParts DEF DataType, Counters
  <2>2. LET c == Add(count, CountedAs(Top(t)), -1)
        IN c \in Counters /\ c["Outstanding"] <= count["Outstanding"]
    BY <2>1, CounterAdded DEF Counters
  <2>3. count' \in Counters /\ count'["Outstanding"] <= count["Outstanding"]
    BY <2>1, <2>2, CounterAdded DEF FinishSettle, Counters
  <2> QED BY <2>1, <2>3, TypePart, JobSystemAssumption
             DEF FinishSettle, DataType, Counters, jobVars, linkVars, stateVars, callVars, scopeVars, poolVars
<1>4. Steady /\ QueueStep
  BY DEF FinishSettle, Steady, QueueStep, jobVars, linkVars, stateVars
<1>5. /\ f \in Frame /\ f.op = "finish" /\ f.at = "release" /\ f.job = Top(t).job
      /\ f.status = Top(t).status
  BY <1>1, <1>2 DEF Frame
<1> HIDE DEF f
<1>6. Well(t, f) /\ ~IsSubmit(f)
  BY <1>1, <1>2, <1>5 DEF Well, FrameOK, IsSubmit, WithoutJob
<1> QED BY <1>1, <1>3, <1>4, <1>6, SteadyStep DEF StackStep, Well

(* Taking and running completion functions keeps the invariant.              *)
LEMMA CallbacksInv ==
    ASSUME DependencyInv, NEW t \in Threads,
           FinishCallbacks(t) \/ \E c \in Callbacks : RunCallback(t, c)
    PROVE  DependencyInv'
<1>1. stack[t] # <<>>
  BY DEF FinishCallbacks, RunCallback, At
<1>2. Well(t, Top(t)) /\ Top(t) \in Frame
  BY <1>1, InvParts DEF Well
<1>3. Steady /\ QueueStep
  BY DEF FinishCallbacks, RunCallback, Steady, QueueStep, jobVars, linkVars, stateVars
<1>4. ASSUME NEW C \in SUBSET Callbacks, Return(t) \/ Become(t, [Top(t) EXCEPT !.calls = C])
      PROVE  StackStep(t)
  BY <1>1, <1>2, <1>4, CallsWell DEF StackStep, Well
<1>5. CASE FinishCallbacks(t)
  <2>1. Top(t).job \in Jobs
    BY <1>1, <1>5, InvParts DEF FinishCallbacks, At, WithoutJob
  <2>2. DataType'
    BY <1>5, <2>1, TypePart DEF FinishCallbacks, DataType, jobVars, linkVars, stateVars, scopeVars, poolVars
  <2>3. callbacks[Top(t).job] \in SUBSET Callbacks
    BY <2>1, InvParts DEF DataType
  <2>4. Return(t) \/ Become(t, [Top(t) EXCEPT !.calls = callbacks[Top(t).job]])
    BY <1>5 DEF FinishCallbacks
  <2>5. StackStep(t)
    BY <1>4, <2>3, <2>4
  <2> QED BY <1>3, <2>2, <2>5, SteadyStep
<1>6. ASSUME NEW c \in Callbacks, RunCallback(t, c) PROVE DependencyInv'
  <2>1. DataType'
    BY <1>6, TypePart DEF RunCallback, DataType, jobVars, linkVars, stateVars, scopeVars, poolVars
  <2>2. Top(t).calls \ {c} \in SUBSET Callbacks
    BY <1>2 DEF Frame
  <2>3. Return(t) \/ Become(t, [Top(t) EXCEPT !.calls = Top(t).calls \ {c}])
    BY <1>6 DEF RunCallback
  <2>4. StackStep(t)
    BY <1>4, <2>2, <2>3
  <2> QED BY <1>3, <2>1, <2>4, SteadyStep
<1> QED BY <1>5, <1>6

-----------------------------------------------------------------------------
(* Steps that move a job: no dependency comes loose, nothing that is over   *)
(* starts again, and nothing that is ready is blocked again.                *)

Progress ==
    /\ Known \subseteq Known'
    /\ \A j \in Jobs : IsTerminal(status[j]) => IsTerminal(status[j])'
    /\ \A j \in Jobs : Ready(j, blockedBy) => Ready(j, blockedBy)'
    /\ \A j \in Jobs, X \in SUBSET Jobs : Attached(j, X) => Attached(j, X)'

(* A step that only makes progress upsets no other call in progress.         *)
LEMMA ProgressBelow ==
    ASSUME StacksOK, NEW t \in Threads, stack[t] # <<>>, Progress,
           (submitter' = submitter /\ registered' = registered) \/ IsSubmit(Top(t))
    PROVE  BelowOK(t)
<1> SUFFICES ASSUME NEW u \in Threads, NEW i \in DOMAIN stack[u], NEW f \in Frame,
                    f = stack[u][i], u # t \/ i # 1
             PROVE  FrameOK(u, f)'
  BY DEF BelowOK
<1>1. FrameOK(u, f)
  BY DEF StacksOK, StackOK
<1>2. CASE ~IsSubmit(f)
  BY <1>1, <1>2, FrameKept DEF Progress
<1>3. CASE IsSubmit(f)
  <2>1. ~IsSubmit(Top(t))
    BY <1>3, SubmitsAlone
  <2>2. f.job \in Jobs /\ f.todo \in SUBSET Jobs
    BY <1>1, <1>3 DEF FrameOK, IsSubmit, Known, Frame
  <2> QED BY <1>1, <2>1, <2>2, FrameKept DEF Progress
<1> QED BY <1>2, <1>3

(* Nor does it upset what is known of the jobs, if the jobs it queues or     *)
(* starts are ready.                                                         *)
LEMMA JobsKept ==
    ASSUME DependencyInv, Progress, UNCHANGED <<registered, queue>>,
           \A j \in Jobs : status[j]' \in {"Queued", "Running"} =>
               status[j] \in {"Queued", "Running"} \/ Ready(j, blockedBy),
           \A j \in Jobs \ Known : status[j]' = status[j] /\ blockedBy[j]' = blockedBy[j]
    PROVE  JobsOK'
<1>1. JobsOK /\ DataType
  BY DEF DependencyInv, TypeOK
<1>2. \A j \in Jobs : status[j]' \in {"Queued", "Running"} => Ready(j, blockedBy)'
  BY <1>1 DEF JobsOK, Progress
<1>3. \A lane \in {"Compute", "Blocking"} : \A j \in queue'[lane] : Ready(j, blockedBy)'
  BY <1>1 DEF JobsOK, Progress, DataType
<1>4. \A j \in registered' \ MayRunOut : Attached(j, {})'
  <2>1. {} \in SUBSET Jobs
    OBVIOUS
  <2> QED BY <1>1, <2>1 DEF JobsOK, Progress, DataType
<1>5. \A j \in Jobs \ Known' : status'[j] = "Unsubmitted" /\ blockedBy'[j] = {} /\ j \notin registered'
  BY <1>1 DEF JobsOK, Progress
<1> QED BY <1>2, <1>3, <1>4, <1>5 DEF JobsOK

(* Enqueue claims a job only when it is registered and nothing blocks it.    *)
LEMMA EnqueueClaimInv ==
    ASSUME DependencyInv, NEW t \in Threads, EnqueueClaim(t) PROVE DependencyInv'
<1> DEFINE j == Top(t).job
<1>1. stack[t] # <<>> /\ Top(t).op = "enqueue" /\ Top(t).at = "claim"
  BY DEF EnqueueClaim, At
<1>2. StacksOK /\ JobsOK /\ Well(t, Top(t)) /\ Top(t) \in Frame /\ j \in Jobs
  BY <1>1, InvParts DEF Well, WithoutJob
<1>3. UNCHANGED <<next, blockedBy, registered, deps, submitter, queue>>
  BY DEF EnqueueClaim, jobVars, linkVars
<1>4. CASE UNCHANGED status /\ Return(t)
  <2>1. DataType'
    BY <1>4, TypePart DEF EnqueueClaim, DataType, jobVars, linkVars, callVars, scopeVars, poolVars
  <2>2. Steady /\ QueueStep
    BY <1>3, <1>4 DEF Steady, QueueStep
  <2> QED BY <1>1, <1>4, <2>1, <2>2, SteadyStep DEF StackStep
<1>5. CASE /\ status[j] = "Waiting" /\ Ready(j, blockedBy)
           /\ status' = [status EXCEPT ![j] = "Queued"]
           /\ Become(t, [Top(t) EXCEPT !.at = "publish"])
  <2>1. DataType'
    BY <1>2, <1>5, TypePart DEF EnqueueClaim, DataType, Statuses, jobVars, linkVars, callVars,
                                scopeVars, poolVars
  <2>2. status \in [Jobs -> Statuses]
    BY TypePart DEF DataType
  <2>3. Progress
    BY <1>2, <1>3, <1>5, <2>2 DEF Progress, Known, IsTerminal, Ready, Attached
  <2>4. BelowOK(t)
    BY <1>1, <1>2, <1>3, <2>3, ProgressBelow
  <2>5. PICK f \in Frame : f = [Top(t) EXCEPT !.at = "publish"]
    BY <1>2 DEF Frame
  <2>6. f.op = "enqueue" /\ f.at = "publish" /\ f.job = j
    BY <1>1, <1>2, <2>5 DEF Frame
  <2>7. FrameOK(t, f)' /\ ~IsSubmit(f)
    BY <1>2, <1>3, <1>5, <2>6 DEF FrameOK, IsSubmit, Ready
  <2>8. StacksOK'
    BY <1>1, <1>2, <1>5, <2>4, <2>5, <2>7, BecomeOK
  <2>9. JobsOK'
    <3>1. j \in Known
      BY <1>2, <1>5, InvParts
    <3> QED BY <1>2, <1>3, <1>5, <2>2, <2>3, <3>1, JobsKept
  <2> QED BY <2>1, <2>8, <2>9 DEF DependencyInv, StacksOK, TypeOK
<1> QED BY <1>4, <1>5 DEF EnqueueClaim

(* Execute starts a job that was ready when it was queued and still is.      *)
LEMMA ExecuteBeginInv ==
    ASSUME DependencyInv, NEW t \in Threads, ExecuteBegin(t) PROVE DependencyInv'
<1> DEFINE j == Top(t).job
<1>1. stack[t] # <<>> /\ Top(t).op = "execute" /\ Top(t).at = "begin"
  BY DEF ExecuteBegin, At
<1>2. /\ StacksOK /\ JobsOK /\ Well(t, Top(t)) /\ Top(t) \in Frame
      /\ j \in Jobs /\ Ready(j, blockedBy) /\ j \in Known
  BY <1>1, InvParts DEF Well, FrameOK
<1>3. UNCHANGED <<next, blockedBy, registered, deps, submitter, queue>>
  BY DEF ExecuteBegin, jobVars, linkVars
<1>4. CASE UNCHANGED <<status, count>> /\ Return(t)
  <2>1. DataType'
    BY <1>4, TypePart DEF ExecuteBegin, DataType, jobVars, linkVars, callVars, scopeVars, poolVars
  <2>2. Steady /\ QueueStep
    BY <1>3, <1>4 DEF Steady, QueueStep
  <2> QED BY <1>1, <1>4, <2>1, <2>2, SteadyStep DEF StackStep
<1>5. CASE /\ ~IsTerminal(status[j])
           /\ status' = [status EXCEPT ![j] = "Running"]
           /\ count' = Add(Add(count, "Queued", -1), "Running", 1)
           /\ \/ Become(t, [Top(t) EXCEPT !.at = "call"])
              \/ Become(t, FinishCall(j, "Cancelled", None))
  <2>1. DataType'
    <3>1. count \in Counters
      BY TypePart DEF DataType, Counters
    <3> DEFINE c == Add(count, "Queued", -1)
    <3>2. count' = Add(c, "Running", 1) /\ c \in Counters /\ c["Outstanding"] = count["Outstanding"]
      BY <1>5, <3>1, CounterAdded
    <3> HIDE DEF c
    <3>3. count' \in Counters /\ count'["Outstanding"] = count["Outstanding"]
      BY <3>2, CounterAdded
    <3> QED BY <1>2, <1>5, <3>3, TypePart DEF ExecuteBegin, DataType, Counters, Statuses, jobVars,
                                              linkVars, callVars, scopeVars, poolVars
  <2>2. status \in [Jobs -> Statuses]
    BY TypePart DEF DataType
  <2>3. Progress
    BY <1>2, <1>3, <1>5, <2>2 DEF Progress, Known, Ready, Attached
  <2>4. BelowOK(t)
    BY <1>1, <1>2, <1>3, <2>3, ProgressBelow
  <2>5. PICK f \in Frame : f = [Top(t) EXCEPT !.at = "call"]
    BY <1>2 DEF Frame
  <2>6. f.op = "execute" /\ f.at = "call" /\ f.job = j
    BY <1>1, <1>2, <2>5 DEF Frame
  <2>7. FrameOK(t, f)' /\ ~IsSubmit(f)
    BY <1>2, <1>3, <2>6 DEF FrameOK, IsSubmit, Ready
  <2>8. PICK g \in Frame : g = FinishCall(j, "Cancelled", None)
    BY <1>2, FinishWell DEF Well
  <2>9. g.op = "finish" /\ g.at = "claim" /\ g.job = j /\ IsTerminal(g.status) /\ ~IsSubmit(g)
    BY <2>8 DEF FinishCall, Call, IsTerminal, IsSubmit
  <2>10. FrameOK(t, g)'
    BY <1>2, <2>3, <2>9 DEF FrameOK, Progress
  <2>11. StacksOK'
    BY <1>1, <1>2, <1>5, <2>4, <2>5, <2>7, <2>8, <2>9, <2>10, BecomeOK
  <2>12. JobsOK'
    BY <1>2, <1>3, <1>5, <2>2, <2>3, JobsKept
  <2> QED BY <2>1, <2>11, <2>12 DEF DependencyInv, StacksOK, TypeOK
<1> QED BY <1>4, <1>5 DEF ExecuteBegin

(* FinishJob ends a job: what waited for it in the list it took over is not  *)
(* blocked by a job that it forgets.                                         *)
LEMMA FinishClaimInv ==
    ASSUME DependencyInv, NEW t \in Threads, FinishClaim(t) PROVE DependencyInv'
<1> DEFINE j == Top(t).job
<1>1. stack[t] # <<>> /\ Top(t).op = "finish" /\ Top(t).at = "claim"
  BY DEF FinishClaim, At
<1>2. /\ StacksOK /\ JobsOK /\ Well(t, Top(t)) /\ Top(t) \in Frame
      /\ j \in Jobs /\ j \in Known /\ IsTerminal(Top(t).status)
  BY <1>1, InvParts DEF Well, FrameOK, Known
<1>3. UNCHANGED <<next, blockedBy, registered, deps, submitter, queue>>
  BY DEF FinishClaim, jobVars
<1>4. CASE UNCHANGED <<stateVars, dependents>> /\ Return(t)
  <2>1. DataType'
    BY <1>4, TypePart DEF FinishClaim, DataType, jobVars, stateVars, callVars, scopeVars, poolVars
  <2>2. Steady /\ QueueStep
    BY <1>3, <1>4 DEF Steady, QueueStep, stateVars
  <2> QED BY <1>1, <1>4, <2>1, <2>2, SteadyStep DEF StackStep
<1>5. CASE ~IsTerminal(status[j])
  <2> DEFINE F == [Top(t) EXCEPT !.at = "settle", !.was = status[j], !.todo = dependents[j]]
  <2>1. /\ status' = [status EXCEPT ![j] = Top(t).status]
        /\ failure' = [failure EXCEPT ![j] = Top(t).cause]
        /\ hasFunction' = hasFunction \ {j}
        /\ dependents' = [dependents EXCEPT ![j] = {}]
        /\ Become(t, F) /\ UNCHANGED depFailure
    BY <1>5 DEF FinishClaim
  <2>2. status \in [Jobs -> Statuses] /\ dependents[j] \in SUBSET Jobs /\ status[j] \in Statuses
    BY <1>2, TypePart DEF DataType
  <2>3. Top(t).status \in Statuses /\ Top(t).cause \in Jobs \cup {None}
    BY <1>2 DEF Frame
  <2>4. DataType'
    BY <1>2, <2>1, <2>3, TypePart DEF FinishClaim, DataType, jobVars, callVars, scopeVars, poolVars
  <2>5. Progress
    BY <1>2, <1>3, <1>5, <2>1, <2>2 DEF Progress, Known, Ready, Attached
  <2>6. BelowOK(t)
    BY <1>1, <1>2, <1>3, <2>5, ProgressBelow
  <2>7. PICK f \in Frame : f = F
    BY <1>2, <2>2 DEF Frame
  <2>8. f.op = "finish" /\ f.at = "settle" /\ f.job = j /\ f.status = Top(t).status
    BY <1>1, <1>2, <2>7 DEF Frame
  <2>9. FrameOK(t, f)' /\ ~IsSubmit(f)
    BY <1>2, <2>1, <2>2, <2>5, <2>8 DEF FrameOK, IsSubmit, Progress, WithoutJob
  <2>10. StacksOK'
    BY <1>1, <1>2, <2>1, <2>6, <2>7, <2>9, BecomeOK
  <2>11. JobsOK'
    <3>1. Top(t).status \notin {"Queued", "Running"}
      BY <1>2 DEF IsTerminal
    <3> QED BY <1>2, <1>3, <2>1, <2>2, <2>5, <3>1, JobsKept
  <2> QED BY <2>4, <2>10, <2>11 DEF DependencyInv, StacksOK, TypeOK
<1> QED BY <1>4, <1>5 DEF FinishClaim

(* FinishJob discounts itself from a dependent, and hands the dependent on   *)
(* only when that was the last.                                              *)
LEMMA FinishReleaseInv ==
    ASSUME DependencyInv, NEW t \in Threads, NEW d \in Jobs, FinishRelease(t, d)
    PROVE  DependencyInv'
<1> DEFINE j == Top(t).job
           rest == [Top(t) EXCEPT !.todo = Top(t).todo \ {d}]
<1>1. stack[t] # <<>> /\ Top(t).op = "finish" /\ Top(t).at = "release"
  BY DEF FinishRelease, At
<1>2. /\ StacksOK /\ JobsOK /\ Well(t, Top(t)) /\ Top(t) \in Frame
      /\ j \in Jobs /\ IsTerminal(status[j]) /\ Top(t).cause \in Jobs \cup {None}
  BY <1>1, InvParts DEF Well, FrameOK, Known, Frame
<1>3. UNCHANGED <<next, registered, deps, submitter, queue, status>>
  BY DEF FinishRelease, jobVars
<1>4. Well(t, rest) /\ ~IsSubmit(rest)
  <2>1. ~IsSubmit(Top(t))
    BY <1>1 DEF IsSubmit
  <2> QED BY <1>1, <2>1, LoopFrame
<1>5. CASE Become(t, rest) /\ UNCHANGED <<blockedBy, depFailure>>
  <2>1. DataType'
    BY <1>5, TypePart DEF FinishRelease, DataType, jobVars, callVars, scopeVars, poolVars
  <2>2. Steady /\ QueueStep
    BY <1>3, <1>5 DEF Steady, QueueStep
  <2> HIDE DEF rest
  <2> QED BY <1>1, <1>4, <1>5, <2>1, <2>2, SteadyStep DEF StackStep, Well
<1>6. CASE /\ blockedBy[d] # {}
           /\ blockedBy' = [blockedBy EXCEPT ![d] = blockedBy[d] \ {j}]
           /\ depFailure' \in {depFailure, [depFailure EXCEPT ![d] = Top(t).cause]}
           /\ \/ Become(t, rest)
              \/ BecomeAndEnter(t, rest, FinishCall(d, "Cancelled", depFailure'[d]))
              \/ BecomeAndEnter(t, rest, Call("enqueue", "claim", d))
  <2>1. DataType'
    BY <1>2, <1>6, TypePart DEF FinishRelease, DataType, jobVars, callVars, scopeVars, poolVars
  <2>2. blockedBy \in [Jobs -> SUBSET Jobs] /\ depFailure'[d] \in Jobs \cup {None}
    BY <2>1, TypePart DEF DataType
  <2>3. Progress
    <3>1. \A k \in Jobs : blockedBy[k] = {} => blockedBy'[k] = {}
      BY <1>6, <2>2
    <3>2. \A k, e \in Jobs : e \in blockedBy[k] => e \in blockedBy'[k] \/ IsTerminal(status[e])
      BY <1>2, <1>6, <2>2
    <3>3. ASSUME NEW k \in Jobs, NEW X \in SUBSET Jobs, Attached(k, X) PROVE Attached(k, X)'
      BY <1>3, <3>2, <3>3, TypePart DEF Attached, DataType
    <3> QED BY <1>3, <3>1, <3>3 DEF Progress, Known, Ready
  <2>4. BelowOK(t)
    BY <1>1, <1>2, <1>3, <2>3, ProgressBelow
  <2>5. d \in Known
    BY <1>2, <1>6 DEF JobsOK
  <2>6. PICK f \in Frame : f = rest
    BY <1>4 DEF Well
  <2>7. FrameOK(t, f) /\ ~IsSubmit(f)
    BY <1>4, <2>6 DEF Well
  <2>8. FrameOK(t, f)'
    BY <2>3, <2>7, FrameKept DEF Progress
  <2>9. PICK g \in Frame : g = FinishCall(d, "Cancelled", depFailure'[d])
    BY <2>2, <2>5, FinishWell DEF Well
  <2>10. g.op = "finish" /\ g.at = "claim" /\ g.job = d /\ IsTerminal(g.status) /\ ~IsSubmit(g)
    BY <2>9 DEF FinishCall, Call, IsTerminal, IsSubmit
  <2>11. FrameOK(t, g)'
    BY <2>3, <2>5, <2>10 DEF FrameOK, Progress
  <2>12. PICK h \in Frame : h = Call("enqueue", "claim", d)
    BY CallWell DEF Well
  <2>13. h.op = "enqueue" /\ h.at = "claim" /\ h.job = d /\ ~IsSubmit(h)
    BY <2>12 DEF Call, IsSubmit
  <2>14. FrameOK(t, h)'
    BY <2>13 DEF FrameOK
  <2> HIDE DEF rest
  <2>15. StacksOK'
    BY <1>1, <1>2, <1>6, <2>4, <2>6, <2>7, <2>8, <2>9, <2>10, <2>11, <2>12, <2>13, <2>14,
       BecomeOK, BecomeAndEnterOK
  <2>16. JobsOK'
    BY <1>3, <1>6, <2>2, <2>3, <2>5, JobsKept
  <2> QED BY <2>1, <2>15, <2>16 DEF DependencyInv, StacksOK, TypeOK
<1>7. \/ Become(t, rest) /\ UNCHANGED <<blockedBy, depFailure>>
      \/ /\ blockedBy[d] # {}
         /\ blockedBy' = [blockedBy EXCEPT ![d] = blockedBy[d] \ {j}]
         /\ depFailure' \in {depFailure, [depFailure EXCEPT ![d] = Top(t).cause]}
         /\ \/ Become(t, rest)
            \/ BecomeAndEnter(t, rest, FinishCall(d, "Cancelled", depFailure'[d]))
            \/ BecomeAndEnter(t, rest, Call("enqueue", "claim", d))
  BY DEF FinishRelease
<1> QED BY <1>5, <1>6, <1>7

-----------------------------------------------------------------------------
(* Submit: the job is its own until it is registered. *)

(* Submit gives a number to a job that nobody has touched before.            *)
LEMMA SubmitBeginInv ==
    ASSUME DependencyInv, NEW t \in Threads, NEW sh, SubmitBegin(t, sh) PROVE DependencyInv'
<1> DEFINE j == next
<1>1. PICK before \in SUBSET {lastSimulation} :
        /\ deps' = [deps EXCEPT ![j] = sh.needs \cup before]
        /\ Enter(t, [Call("submit", "register", j) EXCEPT !.todo = sh.needs \cup before])
        /\ IF deterministic /\ sh.simulation THEN lastSimulation' = j /\ strict' = strict \cup {j}
                                             ELSE UNCHANGED <<lastSimulation, strict>>
        /\ next' = j + 1
        /\ shape' = [shape EXCEPT ![j] = sh]
        /\ status' = [status EXCEPT ![j] = "Waiting"]
        /\ hasFunction' = hasFunction \cup {j}
        /\ lastSimulation = None => before = {}
  BY DEF SubmitBegin
<1>2. /\ StacksOK /\ JobsOK /\ j \in Jobs /\ sh \in Shape
      /\ submitter = {} /\ submitter' = {t}
      /\ UNCHANGED <<blockedBy, registered, queue>>
  BY InvParts, TypePart, JobSystemAssumption DEF SubmitBegin, DataType, Jobs, linkVars
<1>3. sh.needs \cup before \in SUBSET Jobs
  BY <1>1, <1>2, TypePart DEF DataType, Shape
<1>4. /\ j \notin registered /\ status[j] = "Unsubmitted" /\ blockedBy[j] = {}
      /\ Known' = Known \cup {j} /\ j \notin Known
  <2>1. Known' = Known \cup {j} /\ j \notin Known
    BY <1>1, <1>2 DEF Known, Jobs
  <2> QED BY <1>2, <2>1 DEF JobsOK
<1>5. DataType'
  <2>1. count \in Counters /\ count["Outstanding"] + 1 <= QueueCapacity
    BY TypePart, JobSystemAssumption DEF SubmitBegin, HasRoom, DataType, Counters
  <2> DEFINE c == Add(count, "Outstanding", 1)
  <2>2. count' = Add(c, "Waiting", 1) /\ c \in Counters /\ c["Outstanding"] <= QueueCapacity
    BY <2>1, CounterAdded DEF SubmitBegin
  <2> HIDE DEF c
  <2>3. count' \in Counters /\ count'["Outstanding"] <= QueueCapacity
    BY <2>2, CounterAdded
  <2>4. next' \in 1..(JobCount + 1)
    BY <1>1, <1>2, JobSystemAssumption DEF Jobs
  <2>5. shape' \in [Jobs -> Shape] /\ deps' \in [Jobs -> SUBSET Jobs] /\ status' \in [Jobs -> Statuses]
    BY <1>1, <1>2, <1>3, TypePart DEF DataType, Statuses
  <2>6. /\ hasFunction' \subseteq Jobs /\ lastSimulation' \in Jobs \cup {None} /\ strict' \subseteq Jobs
        /\ submitter' \subseteq Threads
    BY <1>1, <1>2, TypePart DEF DataType
  <2> QED BY <2>3, <2>4, <2>5, <2>6, TypePart
          DEF SubmitBegin, DataType, Counters, linkVars, callVars, scopeVars, poolVars
<1>6. \A u \in Threads : \A i \in DOMAIN stack[u] : FrameOK(u, stack[u][i]) /\ ~IsSubmit(stack[u][i])
  BY <1>2 DEF StacksOK, StackOK, FrameOK, IsSubmit
<1>7. \A u \in Threads : \A i \in DOMAIN stack[u] : \A f \in Frame :
          f = stack[u][i] => FrameOK(u, f)'
  <2> SUFFICES ASSUME NEW u \in Threads, NEW i \in DOMAIN stack[u], NEW f \in Frame, f = stack[u][i]
               PROVE  FrameOK(u, f)'
    OBVIOUS
  <2>1. FrameOK(u, f) /\ ~IsSubmit(f)
    BY <1>6
  <2>2. \A k \in Jobs : IsTerminal(status[k]) => IsTerminal(status[k])'
    BY <1>1, <1>4, TypePart DEF DataType, IsTerminal
  <2>3. \A k \in Jobs : Ready(k, blockedBy) => Ready(k, blockedBy)'
    BY <1>2 DEF Ready
  <2> QED BY <1>4, <2>1, <2>2, <2>3, FrameKept
<1>8. PICK f \in Frame : f = [Call("submit", "register", j) EXCEPT !.todo = sh.needs \cup before]
  BY <1>2, <1>3 DEF Frame, Call, Statuses
<1>9. f.op = "submit" /\ f.at = "register" /\ f.job = j /\ f.todo = deps'[j]
  BY <1>1, <1>2, <1>8, TypePart DEF Call, DataType
<1>10. FrameOK(t, f)'
  BY <1>2, <1>4, <1>9 DEF FrameOK, Attached
<1>11. StacksOK'
  <2>1. BelowOK(t) /\ \A g \in Frame : stack[t] # <<>> /\ g = Top(t) => FrameOK(t, g)'
    BY <1>2, <1>7, TopFrame DEF BelowOK
  <2>2. \A i \in DOMAIN stack[t] : ~(IsSubmit(f) /\ IsSubmit(stack[t][i]))
    BY <1>6
  <2>3. Enter(t, f)
    BY <1>1, <1>8
  <2> QED BY <1>2, <1>10, <2>1, <2>2, <2>3, EnterOK
<1>12. JobsOK'
  <2>1. \A k \in Jobs : status[k]' \in {"Queued", "Running"} => Ready(k, blockedBy)'
    BY <1>1, <1>2, TypePart DEF JobsOK, Ready, DataType
  <2>2. \A lane \in {"Compute", "Blocking"} : \A k \in queue'[lane] : Ready(k, blockedBy)'
    BY <1>2 DEF JobsOK, Ready
  <2>3. \A k \in registered' \ MayRunOut : Attached(k, {})'
    <3> SUFFICES ASSUME NEW k \in registered, k \notin MayRunOut, NEW d \in deps'[k]
                 PROVE  IsTerminal(status[d])' \/ d \in blockedBy'[k]
      BY <1>2 DEF Attached
    <3>1. k # j /\ k \in Jobs /\ deps'[k] = deps[k] /\ d \in Jobs
      BY <1>1, <1>4, TypePart DEF DataType
    <3>2. IsTerminal(status[d]) \/ d \in blockedBy[k]
      BY <1>2, <3>1 DEF JobsOK, Attached
    <3>3. IsTerminal(status[d]) => IsTerminal(status[d])'
      BY <1>1, <1>4, <3>1, TypePart DEF DataType, IsTerminal
    <3> QED BY <1>2, <3>2, <3>3
  <2>4. \A k \in Jobs \ Known' : status'[k] = "Unsubmitted" /\ blockedBy'[k] = {} /\ k \notin registered'
    BY <1>1, <1>2, <1>4, TypePart DEF JobsOK, DataType
  <2> QED BY <2>1, <2>2, <2>3, <2>4 DEF JobsOK
<1> QED BY <1>5, <1>11, <1>12 DEF DependencyInv, StacksOK, TypeOK

(* A turn of the loop of Submit: the dependency is over or blocks the new    *)
(* job.                                                                      *)
LEMMA RegisterDependencyInv ==
    ASSUME DependencyInv, NEW t \in Threads, NEW d \in Jobs, RegisterDependency(t, d)
    PROVE  DependencyInv'
<1> DEFINE j == Top(t).job
<1>1. stack[t] # <<>> /\ Top(t).op = "submit" /\ Top(t).at = "register" /\ IsSubmit(Top(t))
  BY DEF RegisterDependency, At, IsSubmit
<1>2. /\ StacksOK /\ Well(t, Top(t)) /\ Top(t) \in Frame /\ submitter = {t}
      /\ j \in Jobs /\ j \in Known /\ j \notin registered /\ Attached(j, Top(t).todo)
  BY <1>1, InvParts DEF Well, FrameOK, Known
<1>3. /\ UNCHANGED <<next, registered, deps, submitter, queue, status>>
      /\ Become(t, [Top(t) EXCEPT !.todo = Top(t).todo \ {d}])
  BY DEF RegisterDependency, jobVars
<1>4. \/ IsTerminal(status[d]) /\ UNCHANGED blockedBy
      \/ blockedBy' = [blockedBy EXCEPT ![j] = blockedBy[j] \cup {d}]
  BY DEF RegisterDependency, linkVars, IsTerminal
<1>5. DataType'
  <2>1. ResultFailure(d) \in Jobs \cup {None}
    BY TypePart DEF DataType, ResultFailure
  <2>2. depFailure' \in [Jobs -> Jobs \cup {None}]
    BY <1>2, <2>1, TypePart DEF DataType, RegisterDependency
  <2>3. blockedBy' \in [Jobs -> SUBSET Jobs] /\ dependents' \in [Jobs -> SUBSET Jobs]
    BY <1>2, TypePart DEF DataType, RegisterDependency, linkVars
  <2> QED BY <2>2, <2>3, TypePart DEF RegisterDependency, DataType, jobVars, callVars, scopeVars, poolVars
<1>6. blockedBy \in [Jobs -> SUBSET Jobs]
  BY TypePart DEF DataType
<1>7. Progress
  BY <1>2, <1>3, <1>4, <1>6 DEF Progress, Known, Ready, Attached
<1>8. BelowOK(t)
  BY <1>1, <1>2, <1>7, ProgressBelow
<1>9. PICK f \in Frame : f = [Top(t) EXCEPT !.todo = Top(t).todo \ {d}]
  BY <1>2 DEF Frame
<1>10. f.op = "submit" /\ f.at = "register" /\ f.job = j /\ f.todo = Top(t).todo \ {d}
  BY <1>1, <1>2, <1>9 DEF Frame
<1>11. FrameOK(t, f)'
  <2>1. \A e \in deps[f.job] \ f.todo : IsTerminal(status[e]) \/ e \in blockedBy'[f.job]
    BY <1>2, <1>4, <1>6, <1>10 DEF Attached
  <2>2. f.job \notin registered' /\ Attached(f.job, f.todo)'
    BY <1>2, <1>3, <1>10, <2>1 DEF Attached
  <2> QED BY <1>2, <1>3, <1>7, <1>10, <2>2 DEF FrameOK, Progress
<1>12. StacksOK'
  BY <1>1, <1>2, <1>3, <1>8, <1>9, <1>11, BecomeOK
<1>13. JobsOK'
  BY <1>2, <1>3, <1>4, <1>6, <1>7, JobsKept
<1> QED BY <1>5, <1>12, <1>13 DEF DependencyInv, StacksOK, TypeOK

(* The registration ends: from now on other threads may release the job. *)
LEMMA RegisterEndsInv ==
    ASSUME DependencyInv, NEW t \in Threads, RegisterDone(t) \/ RegisterThrows(t)
    PROVE  DependencyInv'
<1> DEFINE j == Top(t).job
<1>1. stack[t] # <<>> /\ Top(t).op = "submit" /\ Top(t).at = "register" /\ IsSubmit(Top(t))
  BY DEF RegisterDone, RegisterThrows, At, IsSubmit
<1>2. /\ StacksOK /\ JobsOK /\ Well(t, Top(t)) /\ Top(t) \in Frame /\ submitter = {t}
      /\ j \in Jobs /\ j \in Known /\ Attached(j, Top(t).todo)
  BY <1>1, InvParts DEF Well, FrameOK, Known
<1>3. /\ UNCHANGED <<next, blockedBy, deps, submitter, queue, status>>
      /\ registered' = registered \cup {j}
  BY DEF RegisterDone, RegisterThrows, jobVars, linkVars, stateVars
<1>4. depFailure[j] \in Jobs \cup {None}
  BY <1>2, TypePart DEF DataType
<1>5. DataType'
  BY <1>2, TypePart DEF RegisterDone, RegisterThrows, DataType, linkVars, stateVars, callVars, poolVars,
                        scopeVars
<1>6. Progress
  BY <1>2, <1>3 DEF Progress, Known, Ready, Attached
<1>7. BelowOK(t)
  BY <1>1, <1>2, <1>6, ProgressBelow
<1>8. PICK f \in Frame : f = Call("submit", "return", j)
  BY <1>2 DEF Frame, Call, Statuses
<1>9. f.op = "submit" /\ f.at = "return" /\ f.job = j
  BY <1>8 DEF Call
<1>10. FrameOK(t, f)'
  BY <1>2, <1>3, <1>6, <1>9 DEF FrameOK, Progress, Known
<1>11. \/ Become(t, f)
       \/ \E e \in Jobs \cup {None} : BecomeAndEnter(t, f, FinishCall(j, "Cancelled", e))
       \/ BecomeAndEnter(t, f, Call("enqueue", "claim", j))
  BY <1>2, <1>4, <1>8 DEF RegisterDone, RegisterThrows
<1>12. StacksOK'
  <2>1. CASE Become(t, f)
    BY <1>1, <1>2, <1>7, <1>10, <2>1, BecomeOK
  <2>2. ASSUME NEW e \in Jobs \cup {None}, BecomeAndEnter(t, f, FinishCall(j, "Cancelled", e))
        PROVE  StacksOK'
    <3>1. PICK g \in Frame : g = FinishCall(j, "Cancelled", e)
      BY <1>2, FinishWell DEF Well
    <3>2. g.op = "finish" /\ g.at = "claim" /\ g.job = j /\ IsTerminal(g.status) /\ ~IsSubmit(g)
      BY <3>1 DEF FinishCall, Call, IsTerminal, IsSubmit
    <3>3. FrameOK(t, g)'
      BY <1>2, <1>6, <3>2 DEF FrameOK, Progress, Known
    <3> QED BY <1>1, <1>2, <1>7, <1>10, <2>2, <3>1, <3>2, <3>3, BecomeAndEnterOK
  <2>3. CASE BecomeAndEnter(t, f, Call("enqueue", "claim", j))
    <3>1. PICK g \in Frame : g = Call("enqueue", "claim", j)
      BY <1>2, CallWell DEF Well
    <3>2. g.op = "enqueue" /\ g.at = "claim" /\ g.job = j /\ ~IsSubmit(g)
      BY <3>1 DEF Call, IsSubmit
    <3>3. FrameOK(t, g)'
      BY <1>2, <3>2 DEF FrameOK
    <3> QED BY <1>1, <1>2, <1>7, <1>10, <2>3, <3>1, <3>2, <3>3, BecomeAndEnterOK
  <2> QED BY <1>11, <2>1, <2>2, <2>3
<1>13. JobsOK'
  <2>1. \A k \in Jobs : status[k]' \in {"Queued", "Running"} => Ready(k, blockedBy)'
    BY <1>2, <1>3, <1>6 DEF JobsOK, Progress
  <2>2. \A lane \in {"Compute", "Blocking"} : \A k \in queue'[lane] : Ready(k, blockedBy)'
    BY <1>2, <1>3, <1>6, TypePart DEF JobsOK, Progress, DataType
  <2>3. \A k \in registered' \ MayRunOut : Attached(k, {})'
    <3>1. j \notin MayRunOut => Attached(j, {})
      BY <1>2 DEF RegisterDone, RegisterThrows
    <3> QED BY <1>2, <1>3, <3>1 DEF JobsOK, Attached
  <2>4. \A k \in Jobs \ Known' : status'[k] = "Unsubmitted" /\ blockedBy'[k] = {} /\ k \notin registered'
    BY <1>2, <1>3 DEF JobsOK, Known
  <2> QED BY <2>1, <2>2, <2>3, <2>4 DEF JobsOK
<1> QED BY <1>5, <1>12, <1>13 DEF DependencyInv, StacksOK, TypeOK

(* Submit releases SubmissionMutex.                                          *)
LEMMA SubmitReturnInv ==
    ASSUME DependencyInv, NEW t \in Threads, SubmitReturn(t) PROVE DependencyInv'
<1>1. stack[t] # <<>> /\ IsSubmit(Top(t)) /\ Return(t)
  BY DEF SubmitReturn, At, IsSubmit
<1>2. StacksOK /\ JobsOK
  BY InvParts
<1>3. UNCHANGED <<next, blockedBy, registered, deps, queue, status>> /\ submitter' = {}
  BY DEF SubmitReturn, jobVars, linkVars, stateVars
<1>4. DataType'
  BY TypePart DEF SubmitReturn, DataType, jobVars, linkVars, stateVars, callVars, scopeVars, poolVars
<1>5. Progress
  BY <1>3 DEF Progress, Known, Ready, Attached
<1>6. StacksOK'
  BY <1>1, <1>2, <1>5, ProgressBelow, ReturnOK
<1>7. JobsOK'
  BY <1>2, <1>3, <1>5, JobsKept
<1> QED BY <1>4, <1>6, <1>7 DEF DependencyInv, StacksOK, TypeOK

-----------------------------------------------------------------------------
(* The theorems. *)

(* A new JobSystem satisfies the invariant.                                  *)
LEMMA InitInv == Init => DependencyInv
<1> SUFFICES ASSUME Init PROVE DependencyInv
  OBVIOUS
<1>1. DataType
  <2>1. next \in 1..(JobCount + 1) /\ count["Outstanding"] <= QueueCapacity
    BY JobSystemAssumption DEF Init
  <2>2. shape \in [Jobs -> Shape]
    BY DEF Init, Shape
  <2>3. /\ status \in [Jobs -> Statuses]
        /\ queue \in [{"Compute", "Blocking"} -> SUBSET Jobs]
        /\ count \in [{"Outstanding", "Waiting", "Queued", "Running"} -> Int]
    BY DEF Init, Statuses
  <2> QED BY <2>1, <2>2, <2>3, JobSystemAssumption DEF Init, DataType
<1>2. stack = [t \in Threads |-> <<>>]
  BY DEF Init
<1>3. StacksOK
  BY <1>2 DEF StacksOK, StackType, StackOK, OneSubmit
<1>4. JobsOK
  BY DEF Init, JobsOK
<1> QED BY <1>1, <1>3, <1>4 DEF DependencyInv, StacksOK, TypeOK

(* Every step within a call keeps the invariant.                             *)
LEMMA StepInv ==
    ASSUME DependencyInv, NEW t \in Threads, Step(t) PROVE DependencyInv'
<1>1. ASSUME NEW d \in Jobs,
             \/ RegisterDependency(t, d) \/ FinishRelease(t, d) \/ BodyWaits(t, d)
             \/ ScopeCancelFlag(t, d) \/ ScopeWaitEach(t, d) \/ CloseFlag(t, d) \/ CloseSweep(t, d)
      PROVE  DependencyInv'
  BY <1>1, RegisterDependencyInv, FinishReleaseInv, BodyWaitsInv, CancelInv, ScopeWaitEachInv,
     CloseSweepInv
<1>2. CASE \/ \E c \in Callbacks : RunCallback(t, c)
           \/ FinishCallbacks(t) \/ FinishClaim(t) \/ FinishSettle(t)
  BY <1>2, CallbacksInv, FinishClaimInv, FinishSettleInv
<1>3. CASE (\E w \in Pool : CloseRequestStop(t, w)) \/ WorkerExit(t)
  BY <1>3, PoolInv
<1>4. CASE RegisterDone(t) \/ RegisterThrows(t) \/ SubmitReturn(t)
  BY <1>4, RegisterEndsInv, SubmitReturnInv
<1>5. CASE \/ EnqueueClaim(t) \/ EnqueuePublish(t) \/ Take(t) \/ WaitCheck(t) \/ WaitWake(t)
  BY <1>5, EnqueueClaimInv, EnqueuePublishInv, TakeInv, ReturnsInv
<1>6. CASE ExecuteBegin(t) \/ ExecuteCall(t) \/ BodyReturns(t) \/ BodyThrows(t)
  BY <1>6, ExecuteBeginInv, ExecuteCallInv, BodyEndsInv
<1>7. CASE \/ (stack[t] # <<>> /\ Close(t)) \/ CancelLook(t) \/ ScopeCollect(t) \/ ScopeCancelLook(t)
           \/ ScopeReturn(t) \/ CloseJoin(t) \/ CloseReturn(t)
  BY <1>7, CloseInv, LooksInv, ScopeCollectInv, ReturnsInv, CloseJoinInv
<1> QED BY <1>1, <1>2, <1>3, <1>4, <1>5, <1>6, <1>7 DEF Step

(* So does every call that user code makes.                                  *)
LEMMA RequestInv ==
    ASSUME DependencyInv, NEW t \in Threads, Request(t) PROVE DependencyInv'
<1>1. CASE \E sh \in UNION {Shapes[j] : j \in Jobs} : SubmitBegin(t, sh)
  BY <1>1, SubmitBeginInv
<1>2. CASE \E j \in Jobs : ClientWaits(t, j) \/ Cancel(t, j) \/ \E c \in Callbacks : OnComplete(t, j, c)
  BY <1>2, ClientCallsInv, CancelInv, OnCompleteInv
<1>3. CASE \/ ScopeCancel(t) \/ ScopeWait(t) \/ SetDeterministicSimulation(t)
           \/ (Idle(t) /\ Close(t))
  BY <1>3, CancelInv, ClientCallsInv, PoolInv, CloseInv
<1> QED BY <1>1, <1>2, <1>3 DEF Request

(* So does a step of something else.                                         *)
LEMMA StutterInv ==
    ASSUME DependencyInv, UNCHANGED vars PROVE DependencyInv'
<1>1. DataType'
  BY TypePart DEF vars, DataType, jobVars, linkVars, stateVars, callVars, scopeVars, poolVars
<1>2. StackType' /\ StackOK' /\ OneSubmit'
  BY DEF DependencyInv, TypeOK, vars, jobVars, linkVars, stateVars, StackType, StackOK, OneSubmit,
         FrameOK, Attached, Ready, Known
<1>3. JobsOK'
  BY DEF DependencyInv, vars, jobVars, linkVars, stateVars, JobsOK, Attached, Ready, Known
<1> QED BY <1>1, <1>2, <1>3 DEF DependencyInv, TypeOK

(* Every reachable state satisfies the inductive invariant: no step of any   *)
(* call, on any thread, leaves another call with a job that is not as the    *)
(* call believes.                                                            *)
THEOREM DependencyInvariant == Spec => []DependencyInv
<1>1. DependencyInv /\ [Next]_vars => DependencyInv'
  BY StepInv, RequestInv, StutterInv DEF Next
<1> QED BY InitInv, <1>1, PTL DEF Spec

(* The values of JobSystem.cpp's fields stay in range; among them, the       *)
(* Outstanding counter never exceeds QueueCapacity, whatever races between   *)
(* Submit and the threads that finish jobs.                                  *)
THEOREM TypeCorrect == Spec => []TypeOK
<1>1. DependencyInv => TypeOK
  BY DEF DependencyInv
<1> QED BY DependencyInvariant, <1>1, PTL

(* A job that Enqueue queued or Execute started has left registration and    *)
(* all its dependencies are over, for any number of jobs and threads and any *)
(* interleaving of Submit with the ends of the dependencies.                 *)
THEOREM QueuedAfterDependencies == Spec => []DependenciesFirst
<1>1. DependencyInv => DependenciesFirst
  <2> SUFFICES ASSUME DependencyInv, NEW j \in Jobs \ MayRunOut, status[j] \in {"Queued", "Running"},
                      NEW d \in deps[j]
               PROVE  j \in registered /\ IsTerminal(status[d])
    <3>1. DependencyInv => \A j \in Jobs \ MayRunOut : status[j] \in {"Queued", "Running"} =>
              j \in registered
      BY DEF DependencyInv, JobsOK, Ready
    <3> QED BY <3>1 DEF DependenciesFirst, RunnableAfterDependencies
  <2>1. Ready(j, blockedBy)
    BY DEF DependencyInv, JobsOK
  <2> QED BY <2>1 DEF DependencyInv, JobsOK, Ready, Attached
<1> QED BY DependencyInvariant, <1>1, PTL

-----------------------------------------------------------------------------
(* Places: what a step of a thread does to the calls in progress. *)

(* A place is a depth of a thread's stack.                                   *)
LEMMA PlaceFacts ==
    ASSUME NEW c
    PROVE  c \in Places <=> \E t \in Threads : \E d \in DOMAIN stack[t] : c = <<t, d>>
  BY DEF Places

(* A call is entered at place a.                                             *)
Entering(t, a, f) ==
    /\ a = <<t, Len(stack[t]) + 1>> /\ a \notin Places /\ Places' = Places \cup {a}
    /\ FrameOf(a)' = f /\ \A c \in Places : FrameOf(c)' = FrameOf(c)

(* The innermost call, at place h, goes on as f.                             *)
Turning(t, h, f) ==
    /\ h = <<t, Len(stack[t])>> /\ h \in Places /\ FrameOf(h) = Top(t) /\ Places' = Places
    /\ FrameOf(h)' = f /\ \A c \in Places \ {h} : FrameOf(c)' = FrameOf(c)

(* The innermost call goes on as f and enters another one.                   *)
Calling(t, h, a, f, g) ==
    /\ h = <<t, Len(stack[t])>> /\ h \in Places /\ FrameOf(h) = Top(t)
    /\ a = <<t, Len(stack[t]) + 1>> /\ a \notin Places /\ Places' = Places \cup {a}
    /\ FrameOf(h)' = f /\ FrameOf(a)' = g /\ \A c \in Places \ {h} : FrameOf(c)' = FrameOf(c)

(* The innermost call returns.                                               *)
Leaving(t, h) ==
    /\ h = <<t, Len(stack[t])>> /\ h \in Places /\ FrameOf(h) = Top(t) /\ Places' = Places \ {h}
    /\ \A c \in Places' : FrameOf(c)' = FrameOf(c)

(* Exchanging one thread's stack, what becomes of the places and of the      *)
(* frames of the others.                                                     *)
LEMMA OneStackPlaces ==
    ASSUME StackType, NEW t \in Threads, NEW s \in Seq(Frame), stack' = [stack EXCEPT ![t] = s],
           NEW n \in Nat, Len(s) = n
    PROVE  /\ \A c : c \in Places' <=>
                  (c \in Places /\ c[1] # t) \/ \E d \in 1..n : c = <<t, d>>
           /\ \A c \in Places : c[1] # t => FrameOf(c)' = FrameOf(c)
           /\ \A d \in 1..n : FrameOf(<<t, d>>)' = s[n + 1 - d]
<1>1. \A u \in Threads : stack'[u] = IF u = t THEN s ELSE stack[u]
  BY DEF StackType
<1>2. DOMAIN s = 1..n
  OBVIOUS
<1>3. \A c : c \in Places' <=> \E u \in Threads : \E d \in DOMAIN stack'[u] : c = <<u, d>>
  BY DEF Places
<1>4. \A c : c \in Places' <=> (c \in Places /\ c[1] # t) \/ \E d \in 1..n : c = <<t, d>>
  <2> SUFFICES ASSUME NEW c
               PROVE  c \in Places' <=>
                          (c \in Places /\ c[1] # t) \/ \E d \in 1..n : c = <<t, d>>
    OBVIOUS
  <2>1. ASSUME c \in Places' PROVE (c \in Places /\ c[1] # t) \/ \E d \in 1..n : c = <<t, d>>
    <3>1. PICK u \in Threads : \E d \in DOMAIN stack'[u] : c = <<u, d>>
      BY <1>3, <2>1
    <3>2. PICK d \in DOMAIN stack'[u] : c = <<u, d>>
      BY <3>1
    <3>3. CASE u = t
      BY <1>1, <1>2, <3>2, <3>3
    <3>4. CASE u # t
      BY <1>1, <3>2, <3>4, PlaceFacts
    <3> QED BY <3>3, <3>4
  <2>2. ASSUME c \in Places, c[1] # t PROVE c \in Places'
    BY <1>1, <1>3, <2>2, PlaceFacts
  <2>3. ASSUME NEW d \in 1..n, c = <<t, d>> PROVE c \in Places'
    BY <1>1, <1>2, <1>3, <2>3
  <2> QED BY <2>1, <2>2, <2>3
<1>5. \A c \in Places : c[1] # t => FrameOf(c)' = FrameOf(c)
  <2> SUFFICES ASSUME NEW c \in Places, c[1] # t PROVE FrameOf(c)' = FrameOf(c)
    OBVIOUS
  <2>1. c[1] \in Threads
    BY PlaceFacts
  <2> QED BY <1>1, <2>1 DEF FrameOf
<1>6. \A d \in 1..n : FrameOf(<<t, d>>)' = s[n + 1 - d]
  BY <1>1 DEF FrameOf
<1> QED BY <1>4, <1>5, <1>6

(* The places of one thread.                                                 *)
LEMMA OwnPlaces ==
    ASSUME StackType, NEW t \in Threads
    PROVE  /\ stack[t] \in Seq(Frame) /\ Len(stack[t]) \in Nat
           /\ \A c \in Places : c[1] = t => \E d \in 1..Len(stack[t]) : c = <<t, d>>
           /\ \A d \in 1..Len(stack[t]) : <<t, d>> \in Places /\ FrameOf(<<t, d>>) = stack[t][Len(stack[t]) + 1 - d]
           /\ <<t, Len(stack[t]) + 1>> \notin Places
<1>1. stack[t] \in Seq(Frame)
  BY DEF StackType
<1>2. \A c \in Places : c[1] = t => \E d \in 1..Len(stack[t]) : c = <<t, d>>
  BY <1>1, PlaceFacts
<1>3. \A d \in 1..Len(stack[t]) : <<t, d>> \in Places
  BY <1>1, PlaceFacts
<1>4. \A d \in 1..Len(stack[t]) : FrameOf(<<t, d>>) = stack[t][Len(stack[t]) + 1 - d]
  BY DEF FrameOf
<1>5. <<t, Len(stack[t]) + 1>> \notin Places
  <2> SUFFICES ASSUME <<t, Len(stack[t]) + 1>> \in Places PROVE FALSE
    OBVIOUS
  <2>1. PICK d \in 1..Len(stack[t]) : <<t, Len(stack[t]) + 1>> = <<t, d>>
    BY <1>2
  <2> QED BY <1>1, <2>1
<1> QED BY <1>1, <1>2, <1>3, <1>4, <1>5

(* Entering a call.                                                          *)
LEMMA EnterPlaces ==
    ASSUME StackType, NEW t \in Threads, NEW f \in Frame, Enter(t, f)
    PROVE  \E a : Entering(t, a, f)
<1> DEFINE n == Len(stack[t])
           s == <<f>> \o stack[t]
<1>1. /\ stack' = [stack EXCEPT ![t] = s] /\ s \in Seq(Frame) /\ Len(s) = n + 1 /\ n \in Nat
      /\ s[1] = f /\ \A i \in 2..(n + 1) : s[i] = stack[t][i - 1]
  <2>1. stack[t] \in Seq(Frame)
    BY DEF StackType
  <2> QED BY <2>1, ConcatProperties DEF Enter
<1> HIDE DEF s
<1>2. PICK m \in Nat : m = n
  BY <1>1
<1>3. PICK a : a = <<t, m + 1>>
  OBVIOUS
<1>4. a \notin Places
  BY <1>2, <1>3, OwnPlaces
<1>5. /\ \A c : c \in Places' <=> (c \in Places /\ c[1] # t) \/ \E d \in 1..(m + 1) : c = <<t, d>>
      /\ \A c \in Places : c[1] # t => FrameOf(c)' = FrameOf(c)
      /\ \A d \in 1..(m + 1) : FrameOf(<<t, d>>)' = s[m + 1 + 1 - d]
  <2>1. Len(s) = m + 1 /\ m + 1 \in Nat
    BY <1>1, <1>2
  <2> QED BY <1>1, <2>1, OneStackPlaces
<1>6. /\ \A c \in Places : c[1] = t => \E d \in 1..m : c = <<t, d>>
      /\ \A d \in 1..m : <<t, d>> \in Places /\ FrameOf(<<t, d>>) = stack[t][m + 1 - d]
  BY <1>2, OwnPlaces
<1>7. Places' = Places \cup {a}
  <2>1. ASSUME NEW c PROVE c \in Places' <=> c \in Places \/ c = a
    <3>1. c \in Places /\ c[1] = t <=> \E d \in 1..m : c = <<t, d>>
      BY <1>6
    <3>2. (\E d \in 1..(m + 1) : c = <<t, d>>) <=> (c = <<t, m + 1>> \/ \E d \in 1..m : c = <<t, d>>)
      OBVIOUS
    <3> QED BY <1>3, <1>5, <3>1, <3>2
  <2> QED BY <2>1
<1>8. FrameOf(a)' = f
  BY <1>1, <1>3, <1>5
<1>9. \A c \in Places : FrameOf(c)' = FrameOf(c)
  <2> SUFFICES ASSUME NEW c \in Places, c[1] = t PROVE FrameOf(c)' = FrameOf(c)
    BY <1>5
  <2>1. PICK d \in 1..m : c = <<t, d>>
    BY <1>6
  <2>2. FrameOf(c) = stack[t][m + 1 - d] /\ FrameOf(<<t, d>>)' = s[m + 1 + 1 - d]
    BY <1>5, <1>6, <2>1
  <2>3. m + 1 + 1 - d \in 2..(m + 1) /\ m + 1 + 1 - d - 1 = m + 1 - d
    OBVIOUS
  <2>4. s[m + 1 + 1 - d] = stack[t][m + 1 - d]
    BY <1>1, <1>2, <2>3
  <2> QED BY <2>1, <2>2, <2>4
<1> QED BY <1>2, <1>3, <1>4, <1>7, <1>8, <1>9 DEF Entering

(* A step within the innermost call.                                         *)
LEMMA BecomePlaces ==
    ASSUME StackType, NEW t \in Threads, stack[t] # <<>>, NEW f \in Frame, Become(t, f)
    PROVE  \E h : Turning(t, h, f)
<1> DEFINE s == <<f>> \o Tail(stack[t])
<1>1. PICK m \in Nat : m = Len(stack[t])
  BY OwnPlaces
<1>2. /\ stack' = [stack EXCEPT ![t] = s] /\ s \in Seq(Frame) /\ Len(s) = m /\ m >= 1
      /\ s[1] = f /\ \A i \in 2..m : s[i] = stack[t][i]
      /\ Top(t) = stack[t][1]
  <2>1. stack[t] \in Seq(Frame)
    BY DEF StackType
  <2> QED BY <1>1, <2>1 DEF Become, Top
<1> HIDE DEF s
<1>3. PICK h : h = <<t, m>>
  OBVIOUS
<1>4. /\ \A c : c \in Places' <=> (c \in Places /\ c[1] # t) \/ \E d \in 1..m : c = <<t, d>>
      /\ \A c \in Places : c[1] # t => FrameOf(c)' = FrameOf(c)
      /\ \A d \in 1..m : FrameOf(<<t, d>>)' = s[m + 1 - d]
  BY <1>2, OneStackPlaces
<1>5. /\ \A c \in Places : c[1] = t => \E d \in 1..m : c = <<t, d>>
      /\ \A d \in 1..m : <<t, d>> \in Places /\ FrameOf(<<t, d>>) = stack[t][m + 1 - d]
  BY <1>1, OwnPlaces
<1>6. h \in Places /\ FrameOf(h) = Top(t) /\ FrameOf(h)' = f
  BY <1>2, <1>3, <1>4, <1>5
<1>7. Places' = Places
  <2>1. ASSUME NEW c PROVE c \in Places' <=> c \in Places
    BY <1>4, <1>5
  <2> QED BY <2>1
<1>8. \A c \in Places \ {h} : FrameOf(c)' = FrameOf(c)
  <2> SUFFICES ASSUME NEW c \in Places, c # h, c[1] = t PROVE FrameOf(c)' = FrameOf(c)
    BY <1>4
  <2>1. PICK d \in 1..m : c = <<t, d>>
    BY <1>5
  <2>2. m + 1 - d \in 2..m
    BY <1>3, <2>1
  <2> QED BY <1>2, <1>4, <1>5, <2>1, <2>2
<1> QED BY <1>1, <1>3, <1>6, <1>7, <1>8 DEF Turning

(* A step within the innermost call that enters another one.                 *)
LEMMA CallPlaces ==
    ASSUME StackType, NEW t \in Threads, stack[t] # <<>>, NEW f \in Frame, NEW g \in Frame,
           BecomeAndEnter(t, f, g)
    PROVE  \E h, a : Calling(t, h, a, f, g)
<1> DEFINE s == <<g, f>> \o Tail(stack[t])
<1>1. PICK m \in Nat : m = Len(stack[t])
  BY OwnPlaces
<1>2. /\ stack' = [stack EXCEPT ![t] = s] /\ s \in Seq(Frame) /\ Len(s) = m + 1 /\ m >= 1
      /\ s[1] = g /\ s[2] = f /\ \A i \in 3..(m + 1) : s[i] = stack[t][i - 1]
      /\ Top(t) = stack[t][1]
  <2>1. stack[t] \in Seq(Frame)
    BY DEF StackType
  <2>2. Tail(stack[t]) \in Seq(Frame) /\ Len(Tail(stack[t])) = m - 1 /\ m >= 1
    BY <1>1, <2>1
  <2>3. s \in Seq(Frame) /\ Len(s) = m + 1 /\ s[1] = g /\ s[2] = f
    BY <2>2
  <2>4. ASSUME NEW i \in 3..(m + 1) PROVE s[i] = stack[t][i - 1]
    <3>1. s[i] = Tail(stack[t])[i - 2]
      BY <2>2, ConcatProperties
    <3>2. Tail(stack[t])[i - 2] = stack[t][i - 2 + 1]
      BY <1>1, <2>1, <2>2
    <3>3. i - 2 + 1 = i - 1
      OBVIOUS
    <3> QED BY <3>1, <3>2, <3>3
  <2> QED BY <2>1, <2>2, <2>3, <2>4 DEF BecomeAndEnter, Top
<1> HIDE DEF s
<1>3. PICK h, a : h = <<t, m>> /\ a = <<t, m + 1>>
  OBVIOUS
<1>4. /\ \A c : c \in Places' <=> (c \in Places /\ c[1] # t) \/ \E d \in 1..(m + 1) : c = <<t, d>>
      /\ \A c \in Places : c[1] # t => FrameOf(c)' = FrameOf(c)
      /\ \A d \in 1..(m + 1) : FrameOf(<<t, d>>)' = s[m + 1 + 1 - d]
  <2>1. m + 1 \in Nat
    OBVIOUS
  <2> QED BY <1>2, <2>1, OneStackPlaces
<1>5. /\ \A c \in Places : c[1] = t => \E d \in 1..m : c = <<t, d>>
      /\ \A d \in 1..m : <<t, d>> \in Places /\ FrameOf(<<t, d>>) = stack[t][m + 1 - d]
  BY <1>1, OwnPlaces
<1>6. h \in Places /\ a \notin Places /\ FrameOf(h) = Top(t) /\ FrameOf(h)' = f /\ FrameOf(a)' = g
  <2>1. a \notin Places
    BY <1>1, <1>3, OwnPlaces
  <2>2. FrameOf(a)' = g
    BY <1>2, <1>3, <1>4
  <2>3. FrameOf(h)' = f
    BY <1>2, <1>3, <1>4
  <2>4. h \in Places /\ FrameOf(h) = Top(t)
    BY <1>2, <1>3, <1>5
  <2> QED BY <2>1, <2>2, <2>3, <2>4
<1>7. Places' = Places \cup {a}
  <2>1. ASSUME NEW c PROVE c \in Places' <=> c \in Places \/ c = a
    <3>1. c \in Places /\ c[1] = t <=> \E d \in 1..m : c = <<t, d>>
      BY <1>5
    <3>2. (\E d \in 1..(m + 1) : c = <<t, d>>) <=> (c = <<t, m + 1>> \/ \E d \in 1..m : c = <<t, d>>)
      OBVIOUS
    <3> QED BY <1>3, <1>4, <3>1, <3>2
  <2> QED BY <2>1
<1>8. \A c \in Places \ {h} : FrameOf(c)' = FrameOf(c)
  <2> SUFFICES ASSUME NEW c \in Places, c # h, c[1] = t PROVE FrameOf(c)' = FrameOf(c)
    BY <1>4
  <2>1. PICK d \in 1..m : c = <<t, d>>
    BY <1>5
  <2>2. m + 1 + 1 - d \in 3..(m + 1) /\ m + 1 + 1 - d - 1 = m + 1 - d /\ d \in 1..(m + 1)
    BY <1>3, <2>1
  <2>3. FrameOf(c)' = s[m + 1 + 1 - d] /\ FrameOf(c) = stack[t][m + 1 - d]
    BY <1>4, <1>5, <2>1, <2>2
  <2> QED BY <1>2, <2>2, <2>3
<1> QED BY <1>1, <1>3, <1>6, <1>7, <1>8 DEF Calling

(* Returning from the innermost call.                                        *)
LEMMA ReturnPlaces ==
    ASSUME StackType, NEW t \in Threads, stack[t] # <<>>, Return(t)
    PROVE  \E h : Leaving(t, h)
<1> DEFINE s == Tail(stack[t])
<1>1. PICK m \in Nat : m = Len(stack[t])
  BY OwnPlaces
<1>2. /\ stack' = [stack EXCEPT ![t] = s] /\ s \in Seq(Frame) /\ Len(s) = m - 1 /\ m >= 1
      /\ \A i \in 1..(m - 1) : s[i] = stack[t][i + 1]
      /\ Top(t) = stack[t][1]
  <2>1. stack[t] \in Seq(Frame)
    BY DEF StackType
  <2> QED BY <1>1, <2>1 DEF Return, Top
<1> HIDE DEF s
<1>3. PICK h : h = <<t, m>>
  OBVIOUS
<1>4. /\ \A c : c \in Places' <=> (c \in Places /\ c[1] # t) \/ \E d \in 1..(m - 1) : c = <<t, d>>
      /\ \A c \in Places : c[1] # t => FrameOf(c)' = FrameOf(c)
      /\ \A d \in 1..(m - 1) : FrameOf(<<t, d>>)' = s[m - 1 + 1 - d]
  <2>1. m - 1 \in Nat
    BY <1>2
  <2> QED BY <1>2, <2>1, OneStackPlaces
<1>5. /\ \A c \in Places : c[1] = t => \E d \in 1..m : c = <<t, d>>
      /\ \A d \in 1..m : <<t, d>> \in Places /\ FrameOf(<<t, d>>) = stack[t][m + 1 - d]
  BY <1>1, OwnPlaces
<1>6. h \in Places /\ FrameOf(h) = Top(t)
  BY <1>2, <1>3, <1>5
<1>7. Places' = Places \ {h}
  <2>1. ASSUME NEW c PROVE c \in Places' <=> c \in Places /\ c # h
    <3>1. c \in Places /\ c[1] = t <=> \E d \in 1..m : c = <<t, d>>
      BY <1>5
    <3>2. (\E d \in 1..(m - 1) : c = <<t, d>>) <=> (c # <<t, m>> /\ \E d \in 1..m : c = <<t, d>>)
      OBVIOUS
    <3> QED BY <1>3, <1>4, <3>1, <3>2
  <2> QED BY <2>1
<1>8. \A c \in Places' : FrameOf(c)' = FrameOf(c)
  <2> SUFFICES ASSUME NEW c \in Places, c # h, c[1] = t PROVE FrameOf(c)' = FrameOf(c)
    BY <1>4, <1>7
  <2>1. PICK d \in 1..m : c = <<t, d>>
    BY <1>5
  <2>2. d \in 1..(m - 1) /\ m - 1 + 1 - d \in 1..(m - 1) /\ m - 1 + 1 - d + 1 = m + 1 - d
    BY <1>3, <2>1
  <2>3. FrameOf(c)' = s[m - 1 + 1 - d] /\ FrameOf(c) = stack[t][m + 1 - d]
    BY <1>4, <1>5, <2>1, <2>2
  <2> QED BY <1>2, <2>2, <2>3
<1> QED BY <1>1, <1>3, <1>6, <1>7, <1>8 DEF Leaving

(* What holds of every call in progress.                                     *)
LEMMA CallFacts ==
    ASSUME DependencyInv
    PROVE  /\ StackType /\ DataType
           /\ \A c \in Places : c[1] \in Threads /\ FrameOf(c) \in Frame /\ FrameOK(c[1], FrameOf(c))
           /\ \A t \in Threads : stack[t] # <<>> => Top(t) \in Frame /\ FrameOK(t, Top(t))
<1>1. StackType /\ DataType /\ StackOK /\ StacksOK
  BY DEF DependencyInv, TypeOK, StacksOK
<1>2. ASSUME NEW c \in Places
      PROVE  c[1] \in Threads /\ FrameOf(c) \in Frame /\ FrameOK(c[1], FrameOf(c))
  <2>1. PICK t \in Threads : \E d \in DOMAIN stack[t] : c = <<t, d>>
    BY PlaceFacts
  <2>2. PICK d \in 1..Len(stack[t]) : c = <<t, d>>
    BY <1>1, <2>1 DEF StackType
  <2>3. stack[t] \in Seq(Frame) /\ FrameOf(c) = stack[t][Len(stack[t]) + 1 - d]
    BY <1>1, <2>2, OwnPlaces
  <2>4. PICK i \in DOMAIN stack[t] : i = Len(stack[t]) + 1 - d
    BY <2>3
  <2> QED BY <1>1, <2>2, <2>3, <2>4 DEF StackOK
<1> QED BY <1>1, <1>2, TopFrame

(* The innermost call has a place.                                          *)
LEMMA TopPlace ==
    ASSUME StackType, NEW t \in Threads, stack[t] # <<>>
    PROVE  \E h \in Places : h = <<t, Len(stack[t])>> /\ FrameOf(h) = Top(t)
<1>1. PICK m \in Nat : m = Len(stack[t])
  BY OwnPlaces
<1>2. stack[t] \in Seq(Frame) /\ m >= 1 /\ Top(t) = stack[t][1]
  <2>1. stack[t] \in Seq(Frame)
    BY OwnPlaces
  <2> QED BY <1>1, <2>1 DEF Top
<1>3. m \in 1..Len(stack[t]) /\ Len(stack[t]) + 1 - m = 1
  BY <1>1, <1>2
<1>4. <<t, m>> \in Places /\ FrameOf(<<t, m>>) = stack[t][Len(stack[t]) + 1 - m]
  BY <1>3, OwnPlaces
<1> QED BY <1>1, <1>2, <1>3, <1>4

-----------------------------------------------------------------------------
(* Why a function outlives its call. *)

-----------------------------------------------------------------------------
(* Quiet steps: they change no job's state, and of the calls in progress     *)
(* only those that wait, ask for cancellations, notify or close, and the     *)
(* lists that other calls go through.                                        *)

Outside(f) == f.op \in {"wait", "cancel", "notify", "cancelScope", "waitScope", "close"}

Alike(f, g) ==
    \/ g = f
    \/ /\ f.op \notin {"close", "submit"} /\ g.op = f.op /\ g.at = f.at /\ g.job = f.job /\ g.status = f.status
       /\ g.was = f.was /\ g.cause = f.cause /\ g.todo \subseteq f.todo
       /\ f.op \in {"finish", "notify"} \/ g.calls = f.calls

SweptBy(f, j) == IsSettled(j) \/ (Sweeps(f) /\ j \notin f.todo)

QuietData ==
    /\ UNCHANGED <<jobVars, linkVars, stateVars, scopeJobs, queue, count>>
    /\ cancelRequested \subseteq cancelRequested' /\ (scopeCancelled => scopeCancelled')
    /\ (accepting' => accepting)
Ended(f) == (f.op = "finish" /\ f.at = "release") \/ (f.op = "submit" /\ f.at = "return")

QuietFrames ==
    \A c \in Places' :
        \/ c \in Places /\ Alike(FrameOf(c), FrameOf(c)')
        \/ /\ Outside(FrameOf(c)') /\ CallOK(FrameOf(c))'
           /\ c \in Places => Outside(FrameOf(c)) /\ (FrameOf(c).op = "close" => FrameOf(c)'.op = "close")
           /\ c \notin Places => ~Sweeps(FrameOf(c)')
           /\ c \in Places /\ Sweeps(FrameOf(c)') =>
                 \A j \in Known \ FrameOf(c)'.todo : SweptBy(FrameOf(c), j)
QuietReturns ==
    \A c \in Places \ Places' :
        /\ Outside(FrameOf(c)) \/ Ended(FrameOf(c))
        /\ FrameOf(c).op = "close" =>
              Sweeps(FrameOf(c)) /\ FrameOf(c).todo = {} /\ <<c[1], c[2] + 1>> \notin Places
QuietClose == ~accepting' => ~accepting \/ \E c \in Places' : FrameOf(c)'.op = "close"

Quiet == QuietData /\ QuietFrames /\ QuietReturns /\ QuietClose

(* A step that leaves the stacks alone.                                      *)
LEMMA QuietStill ==
    ASSUME QuietData, UNCHANGED <<stack, accepting>> PROVE Quiet
<1>1. Places' = Places /\ \A c : FrameOf(c)' = FrameOf(c)
  BY DEF Places, FrameOf
<1> QED BY <1>1 DEF Quiet, QuietFrames, QuietReturns, QuietClose, Alike

(* A call is made.                                                           *)
LEMMA QuietEnter ==
    ASSUME DependencyInv, NEW t \in Threads, QuietData, NEW f \in Frame, Enter(t, f),
           Outside(f), CallOK(f)', ~Sweeps(f), accepting' = accepting \/ f.op = "close"
    PROVE  Quiet
<1>1. PICK a : Entering(t, a, f)
  BY CallFacts, EnterPlaces
<1>2. QuietFrames
  <2> SUFFICES ASSUME NEW c \in Places'
               PROVE  \/ c \in Places /\ Alike(FrameOf(c), FrameOf(c)')
                      \/ c \notin Places /\ FrameOf(c)' = f /\ CallOK(FrameOf(c))'
    BY DEF QuietFrames
  <2>1. CASE c = a
    <3>1. c \notin Places /\ FrameOf(c)' = f
      BY <1>1, <2>1 DEF Entering
    <3> QED BY <3>1
  <2>2. CASE c # a
    BY <1>1, <2>2 DEF Entering, Alike
  <2> QED BY <2>1, <2>2
<1>3. QuietReturns /\ QuietClose
  BY <1>1 DEF Entering, QuietReturns, QuietClose
<1> QED BY <1>2, <1>3 DEF Quiet

(* A call goes on.                                                           *)
LEMMA QuietTurn ==
    ASSUME DependencyInv, NEW t \in Threads, QuietData, stack[t] # <<>>, NEW f \in Frame, Become(t, f),
           accepting' = accepting,
           \/ Alike(Top(t), f)
           \/ /\ Outside(Top(t)) /\ Outside(f) /\ f.op = Top(t).op /\ CallOK(f)'
              /\ Sweeps(f) => \A j \in Known \ f.todo : SweptBy(Top(t), j)
    PROVE  Quiet
<1>1. PICK h : Turning(t, h, f)
  BY CallFacts, BecomePlaces
<1>2. QuietFrames
  <2>1. ASSUME NEW c \in Places', c = h
        PROVE  \/ c \in Places /\ Alike(FrameOf(c), FrameOf(c)')
               \/ /\ Outside(FrameOf(c)') /\ CallOK(FrameOf(c))'
                  /\ c \in Places => Outside(FrameOf(c)) /\ (FrameOf(c).op = "close" => FrameOf(c)'.op = "close")
                  /\ c \notin Places => ~Sweeps(FrameOf(c)')
                  /\ c \in Places /\ Sweeps(FrameOf(c)') =>
                       \A j \in Known \ FrameOf(c)'.todo : SweptBy(FrameOf(c), j)
    <3>1. c \in Places /\ FrameOf(c) = Top(t) /\ FrameOf(c)' = f
      BY <1>1, <2>1 DEF Turning
    <3>2. CASE Alike(Top(t), f)
      BY <3>1, <3>2
    <3>3. CASE /\ Outside(Top(t)) /\ Outside(f) /\ f.op = Top(t).op /\ CallOK(f)'
               /\ Sweeps(f) => \A j \in Known \ f.todo : SweptBy(Top(t), j)
      BY <3>1, <3>3
    <3> QED BY <3>2, <3>3
  <2>2. ASSUME NEW c \in Places', c # h PROVE c \in Places /\ Alike(FrameOf(c), FrameOf(c)')
    BY <1>1, <2>2 DEF Turning, Alike
  <2> QED BY <2>1, <2>2 DEF QuietFrames
<1>3. QuietReturns /\ QuietClose
  BY <1>1 DEF Turning, QuietReturns, QuietClose
<1> QED BY <1>2, <1>3 DEF Quiet

(* A call goes on and makes another one.                                     *)
LEMMA QuietCall ==
    ASSUME DependencyInv, NEW t \in Threads, QuietData, stack[t] # <<>>, NEW f \in Frame, NEW g \in Frame,
           BecomeAndEnter(t, f, g), accepting' = accepting,
           Alike(Top(t), f), Outside(g), CallOK(g)', ~Sweeps(g)
    PROVE  Quiet
<1>1. PICK h, a : Calling(t, h, a, f, g)
  BY CallFacts, CallPlaces
<1>2. QuietFrames
  <2> SUFFICES ASSUME NEW c \in Places'
               PROVE  \/ c \in Places /\ Alike(FrameOf(c), FrameOf(c)')
                      \/ c \notin Places /\ FrameOf(c)' = g /\ CallOK(FrameOf(c))'
    BY DEF QuietFrames
  <2>1. CASE c = a
    <3>1. c \notin Places /\ FrameOf(c)' = g
      BY <1>1, <2>1 DEF Calling
    <3> QED BY <3>1
  <2>2. CASE c = h
    BY <1>1, <2>2 DEF Calling
  <2>3. CASE c # a /\ c # h
    BY <1>1, <2>3 DEF Calling, Alike
  <2> QED BY <2>1, <2>2, <2>3
<1>3. QuietReturns /\ QuietClose
  BY <1>1 DEF Calling, QuietReturns, QuietClose
<1> QED BY <1>2, <1>3 DEF Quiet

(* A call returns.                                                           *)
LEMMA QuietLeave ==
    ASSUME DependencyInv, NEW t \in Threads, QuietData, stack[t] # <<>>, Return(t),
           accepting' = accepting, Outside(Top(t)) \/ Ended(Top(t)),
           Top(t).op = "close" => Sweeps(Top(t)) /\ Top(t).todo = {}
    PROVE  Quiet
<1>1. PICK h : Leaving(t, h)
  BY CallFacts, ReturnPlaces
<1>2. QuietFrames /\ QuietClose
  BY <1>1 DEF Leaving, QuietFrames, Alike, QuietClose
<1>3. QuietReturns
  <2>1. h[1] = t /\ h[2] = Len(stack[t]) /\ <<t, Len(stack[t]) + 1>> \notin Places
    BY <1>1, CallFacts, OwnPlaces DEF Leaving
  <2> QED BY <1>1, <2>1 DEF Leaving, QuietReturns
<1> QED BY <1>2, <1>3 DEF Quiet

(* Calls that wait, notify or ask for a cancellation assume little.          *)
LEMMA OutsideCall ==
    ASSUME NEW f, Outside(f), f.op # "close", AtPoint(f), f.at = "look" => f.job \in cancelRequested'
    PROVE  CallOK(f)'
<1>1. AtPoint(f)'
  BY DEF AtPoint
<1> QED BY <1>1 DEF CallOK, Outside, Carries, Claims, Started, AtPoint

(* A step that changes nothing but the stacks.                               *)
LEMMA QuietStackOnly ==
    ASSUME OnlyStackChanges PROVE QuietData /\ accepting' = accepting
  BY DEF OnlyStackChanges, QuietData, scopeVars, poolVars

(* A call and what became of its lists.                                      *)
LEMMA ListShortened ==
    ASSUME NEW f \in Frame, NEW X \in SUBSET f.todo
    PROVE  LET g == [f EXCEPT !.todo = X]
           IN g \in Frame /\ g.todo = X /\ g.op = f.op /\ g.at = f.at /\ g.job = f.job
              /\ g.calls = f.calls /\ (f.op \notin {"close", "submit"} => Alike(f, g))
  BY DEF Frame, Alike

(* The calls that user code and loops make for one job or for none.          *)
LEMMA PlainCall ==
    ASSUME NEW j \in Jobs \cup {None},
           NEW op \in {"wait", "cancel", "cancelScope", "waitScope"},
           NEW at \in {"check", "look", "collect"},
           AtPoint(Call(op, at, j)), at = "look" => j \in cancelRequested'
    PROVE  LET g == Call(op, at, j) IN g \in Frame /\ Outside(g) /\ CallOK(g)' /\ ~Sweeps(g) /\ g.op = op
<1> DEFINE g == Call(op, at, j)
<1>1. g \in Frame /\ g.op = op /\ g.at = at /\ g.job = j
  BY DEF Call, Frame, Statuses
<1> HIDE DEF g
<1>2. Outside(g) /\ ~Sweeps(g) /\ g.op # "close"
  BY <1>1 DEF Outside, Sweeps
<1>3. CallOK(g)'
  <2>1. AtPoint(g)
    BY DEF g
  <2> QED BY <1>1, <1>2, <2>1, OutsideCall
<1> QED BY <1>1, <1>2, <1>3 DEF g

(* A function or a scope that waits for a job, and a scope that asks for its *)
(* cancellation.                                                             *)
LEMMA CallsQuiet ==
    ASSUME ExecutionInv, NEW t \in Threads, NEW j \in Jobs,
           BodyWaits(t, j) \/ ScopeWaitEach(t, j) \/ ScopeCancelFlag(t, j)
    PROVE  Quiet
<1>1. /\ stack[t] # <<>> /\ Top(t).op \in {"execute", "waitScope", "cancelScope"} /\ DependencyInv
      /\ QuietData /\ accepting' = accepting
      /\ \E g \in {Call("wait", "check", j), Call("cancelScope", "look", j)} :
            /\ BecomeAndEnter(t, [Top(t) EXCEPT !.todo = Top(t).todo \ {j}], g)
            /\ g # Call("wait", "check", j) => j \in cancelRequested'
  BY QuietStackOnly DEF BodyWaits, ScopeWaitEach, ScopeCancelFlag, At, QuietData, poolVars, scopeVars, ExecutionInv
<1>2. PICK g \in {Call("wait", "check", j), Call("cancelScope", "look", j)} :
            /\ BecomeAndEnter(t, [Top(t) EXCEPT !.todo = Top(t).todo \ {j}], g)
            /\ g # Call("wait", "check", j) => j \in cancelRequested'
  BY <1>1
<1>3. g \in Frame /\ Outside(g) /\ CallOK(g)' /\ ~Sweeps(g)
  <2>1. CASE g = Call("wait", "check", j)
    <3>1. AtPoint(Call("wait", "check", j))
      BY DEF AtPoint, Call
    <3> QED BY <2>1, <3>1, PlainCall
  <2>2. CASE g # Call("wait", "check", j)
    <3>1. AtPoint(Call("cancelScope", "look", j))
      BY DEF AtPoint, Call
    <3> QED BY <1>2, <2>2, <3>1, PlainCall
  <2> QED BY <2>1, <2>2
<1>4. Top(t) \in Frame
  BY <1>1, CallFacts
<1>5. PICK f \in Frame : f = [Top(t) EXCEPT !.todo = Top(t).todo \ {j}] /\ Alike(Top(t), f)
  <2>1. Top(t).todo \ {j} \in SUBSET Top(t).todo
    OBVIOUS
  <2> QED BY <1>1, <1>4, <2>1, ListShortened
<1> QED BY <1>1, <1>2, <1>3, <1>5, QuietCall

(* Calls that clients make.                                                  *)
LEMMA ClientsQuiet ==
    ASSUME ExecutionInv, NEW t \in Threads,
           \/ ScopeWait(t) \/ ScopeCancel(t)
           \/ \E j \in Jobs : ClientWaits(t, j) \/ Cancel(t, j)
    PROVE  Quiet
<1>1. \E j \in Jobs \cup {None} : \E g \in {Call("wait", "check", j), Call("cancel", "look", j),
                Call("cancelScope", "collect", j), Call("waitScope", "collect", j)} :
          Enter(t, g) /\ (g = Call("cancel", "look", j) => j \in cancelRequested')
  <2>1. ScopeWait(t) => Enter(t, Call("waitScope", "collect", None)) /\ Call("waitScope", "collect", None) # Call("cancel", "look", None)
    BY DEF ScopeWait, Call
  <2>2. ScopeCancel(t) => Enter(t, Call("cancelScope", "collect", None)) /\ Call("cancelScope", "collect", None) # Call("cancel", "look", None)
    BY DEF ScopeCancel, Call
  <2>3. ASSUME NEW j \in Jobs PROVE ClientWaits(t, j) => Enter(t, Call("wait", "check", j)) /\ Call("wait", "check", j) # Call("cancel", "look", j)
    BY DEF ClientWaits, Call
  <2>4. ASSUME NEW j \in Jobs PROVE Cancel(t, j) => Enter(t, Call("cancel", "look", j)) /\ j \in cancelRequested'
    BY DEF Cancel
  <2> QED BY <2>1, <2>2, <2>3, <2>4
<1>2. QuietData /\ accepting' = accepting /\ DependencyInv
  BY QuietStackOnly DEF ScopeWait, ScopeCancel, ClientWaits, Cancel, QuietData, poolVars, scopeVars, ExecutionInv
<1>3. PICK j \in Jobs \cup {None} : \E g \in {Call("wait", "check", j), Call("cancel", "look", j),
                Call("cancelScope", "collect", j), Call("waitScope", "collect", j)} :
          Enter(t, g) /\ (g = Call("cancel", "look", j) => j \in cancelRequested')
  BY <1>1
<1>4. /\ AtPoint(Call("wait", "check", j)) /\ AtPoint(Call("cancel", "look", j))
      /\ AtPoint(Call("cancelScope", "collect", j)) /\ AtPoint(Call("waitScope", "collect", j))
  BY DEF AtPoint, Call
<1>5. \E g \in Frame : Enter(t, g) /\ Outside(g) /\ CallOK(g)' /\ ~Sweeps(g)
  BY <1>3, <1>4, PlainCall
<1> QED BY <1>2, <1>5, QuietEnter

(* Completion functions: handing them over, and running them.                *)
LEMMA CallbacksQuiet ==
    ASSUME ExecutionInv, NEW t \in Threads,
           \/ FinishCallbacks(t)
           \/ \E c \in Callbacks : RunCallback(t, c) \/ \E j \in Jobs : OnComplete(t, j, c)
    PROVE  Quiet
<1>1. QuietData /\ accepting' = accepting /\ DependencyInv
  <2>1. CASE FinishCallbacks(t)
    BY <2>1 DEF FinishCallbacks, QuietData, poolVars, scopeVars, ExecutionInv
  <2>2. ASSUME NEW c \in Callbacks, RunCallback(t, c)
        PROVE  QuietData /\ accepting' = accepting /\ DependencyInv
    BY <2>2 DEF RunCallback, QuietData, poolVars, scopeVars, ExecutionInv
  <2>3. ASSUME NEW c \in Callbacks, NEW j \in Jobs, OnComplete(t, j, c)
        PROVE  QuietData /\ accepting' = accepting /\ DependencyInv
    BY <2>3 DEF OnComplete, QuietData, poolVars, scopeVars, ExecutionInv
  <2> QED BY <2>1, <2>2, <2>3
<1>2. ASSUME stack[t] # <<>>, Top(t).op \in {"finish", "notify"}, NEW C \in SUBSET Callbacks,
             Become(t, [Top(t) EXCEPT !.calls = C])
      PROVE  Quiet
  <2>1. PICK f \in Frame : f = [Top(t) EXCEPT !.calls = C]
    BY <1>1, <1>2, CallFacts DEF Frame
  <2>2. Alike(Top(t), f)
    BY <1>1, <1>2, <2>1, CallFacts DEF Frame, Alike
  <2> QED BY <1>1, <1>2, <2>1, <2>2, QuietTurn
<1>3. CASE FinishCallbacks(t)
  <2>1. stack[t] # <<>> /\ Top(t).op = "finish" /\ Top(t).at = "release" /\ Top(t).job \in Jobs
    BY <1>1, <1>3, CallFacts DEF FinishCallbacks, At, FrameOK, Known
  <2>2. CASE Return(t)
    BY <1>1, <2>1, <2>2, QuietLeave DEF Ended
  <2>3. CASE Become(t, [Top(t) EXCEPT !.calls = callbacks[Top(t).job]])
    <3>1. callbacks[Top(t).job] \in SUBSET Callbacks
      BY <1>1, <2>1, CallFacts DEF DataType
    <3> QED BY <1>2, <2>1, <2>3, <3>1
  <2> QED BY <1>3, <2>2, <2>3 DEF FinishCallbacks
<1>4. ASSUME NEW c \in Callbacks, RunCallback(t, c) PROVE Quiet
  <2>1. stack[t] # <<>> /\ c \in Top(t).calls
    BY <1>4 DEF RunCallback
  <2>2. Top(t).op \in {"finish", "notify"} /\ Top(t).calls \ {c} \in SUBSET Callbacks
    <3>1. PICK h \in Places : FrameOf(h) = Top(t)
      BY <1>1, <2>1, CallFacts, OwnPlaces, TopPlace
    <3> QED BY <1>1, <2>1, <3>1, CallFacts DEF ExecutionInv, CallsOK, CallOK, AtPoint, Frame
  <2>3. CASE Return(t) /\ Top(t).op = "notify"
    BY <1>1, <2>1, <2>3, QuietLeave DEF Outside
  <2>4. CASE Become(t, [Top(t) EXCEPT !.calls = Top(t).calls \ {c}])
    BY <1>2, <2>1, <2>2, <2>4
  <2> QED BY <1>4, <2>3, <2>4 DEF RunCallback
<1>5. ASSUME NEW c \in Callbacks, NEW j \in Jobs, OnComplete(t, j, c) PROVE Quiet
  <2>1. CASE UNCHANGED stack
    BY <1>1, <2>1, QuietStill
  <2>2. CASE Enter(t, [Call("notify", "call", j) EXCEPT !.calls = {c}])
    <3>1. PICK f \in Frame : f = [Call("notify", "call", j) EXCEPT !.calls = {c}]
      BY DEF Call, Frame, Statuses
    <3>2. f.op = "notify" /\ f.at = "call"
      BY <3>1 DEF Call
    <3>3. Outside(f) /\ AtPoint(f) /\ ~Sweeps(f)
      BY <3>2 DEF Outside, AtPoint, Sweeps
    <3>4. CallOK(f)'
      BY <3>2, <3>3, OutsideCall
    <3> QED BY <1>1, <2>2, <3>1, <3>3, <3>4, QuietEnter
  <2> QED BY <1>5, <2>1, <2>2 DEF OnComplete
<1> QED BY <1>3, <1>4, <1>5

(* Waiting, and the ends of calls that have nothing left to do.              *)
LEMMA ReturnsQuiet ==
    ASSUME ExecutionInv, NEW t \in Threads,
           \/ WaitWake(t) \/ ScopeReturn(t) \/ SubmitReturn(t)
           \/ (WaitCheck(t) /\ queue' = queue)
           \/ ((CancelLook(t) \/ ScopeCancelLook(t)) /\ Return(t))
    PROVE  Quiet
<1>1. QuietData /\ accepting' = accepting /\ DependencyInv /\ stack[t] # <<>>
  BY DEF WaitWake, ScopeReturn, SubmitReturn, WaitCheck, CancelLook, ScopeCancelLook, At, QuietData,
         OnlyStackChanges, poolVars, scopeVars, ExecutionInv
<1>2. CASE Return(t)
  <2>1. (Outside(Top(t)) \/ Ended(Top(t))) /\ Top(t).op # "close"
    BY DEF WaitWake, ScopeReturn, SubmitReturn, WaitCheck, CancelLook, ScopeCancelLook, At, Outside, Ended
  <2> QED BY <1>1, <1>2, <2>1, QuietLeave
<1>3. ASSUME WaitCheck(t), queue' = queue, ~Return(t) PROVE Quiet
  <2>1. Top(t).op = "wait" /\ Top(t).at = "check"
    BY <1>3 DEF WaitCheck, At
  <2>2. Become(t, [Top(t) EXCEPT !.at = "sleep"])
    <3>1. ASSUME NEW j \in queue["Compute"], queue' = [queue EXCEPT !["Compute"] = queue["Compute"] \ {j}] PROVE FALSE
      <4>1. DataType
        BY <1>1, CallFacts
      <4> QED BY <1>3, <3>1, <4>1 DEF DataType
    <3> QED BY <1>3, <3>1 DEF WaitCheck
  <2>3. PICK f \in Frame : f = [Top(t) EXCEPT !.at = "sleep"] /\ f.op = "wait" /\ f.at = "sleep" /\ f.calls = Top(t).calls
    <3>1. Top(t) \in Frame
      BY <1>1, CallFacts
    <3>2. PICK f \in Frame : f = [Top(t) EXCEPT !.at = "sleep"]
      BY <3>1 DEF Frame
    <3>3. f.op = "wait" /\ f.at = "sleep" /\ f.calls = Top(t).calls
      BY <2>1, <3>1, <3>2 DEF Frame
    <3> QED BY <3>2, <3>3
  <2>4. PICK h \in Places : FrameOf(h) = Top(t)
    BY <1>1, CallFacts, TopPlace
  <2>5. Outside(f) /\ AtPoint(f) /\ Outside(Top(t)) /\ ~Sweeps(f)
    BY <2>1, <2>3, <2>4 DEF Outside, AtPoint, Sweeps, ExecutionInv, CallsOK, CallOK
  <2>6. CallOK(f)'
    BY <2>3, <2>5, OutsideCall
  <2> QED BY <1>1, <2>1, <2>2, <2>3, <2>5, <2>6, QuietTurn
<1> QED BY <1>2, <1>3 DEF WaitWake, ScopeReturn, SubmitReturn

(* A scope copies its list of jobs.                                          *)
LEMMA CollectQuiet ==
    ASSUME ExecutionInv, NEW t \in Threads, ScopeCollect(t) PROVE Quiet
<1>1. /\ QuietData /\ accepting' = accepting /\ DependencyInv /\ stack[t] # <<>>
      /\ Top(t).op \in {"cancelScope", "waitScope"}
      /\ Become(t, [Top(t) EXCEPT !.at = "each", !.todo = scopeJobs])
  BY QuietStackOnly DEF ScopeCollect, At, ExecutionInv
<1>2. scopeJobs \subseteq Jobs /\ Top(t) \in Frame
  BY <1>1, CallFacts DEF DataType
<1>3. PICK f \in Frame : /\ f = [Top(t) EXCEPT !.at = "each", !.todo = scopeJobs]
                         /\ f.op = Top(t).op /\ f.at = "each" /\ f.calls = Top(t).calls
  <2>1. PICK f \in Frame : f = [Top(t) EXCEPT !.at = "each", !.todo = scopeJobs]
    BY <1>2 DEF Frame
  <2>2. f.op = Top(t).op /\ f.at = "each" /\ f.calls = Top(t).calls
    BY <1>2, <2>1 DEF Frame
  <2> QED BY <2>1, <2>2
<1>4. PICK h \in Places : FrameOf(h) = Top(t)
  BY <1>1, CallFacts, TopPlace
<1>5. Outside(f) /\ AtPoint(f) /\ Outside(Top(t)) /\ ~Sweeps(f)
  BY <1>1, <1>3, <1>4 DEF Outside, AtPoint, Sweeps, ExecutionInv, CallsOK, CallOK
<1>6. CallOK(f)'
  BY <1>1, <1>3, <1>5, OutsideCall
<1> QED BY <1>1, <1>3, <1>5, <1>6, QuietTurn

(* The pool's threads and the simulation mode.                               *)
LEMMA PoolQuiet ==
    ASSUME ExecutionInv, NEW t \in Threads,
           \/ SetDeterministicSimulation(t) \/ WorkerExit(t)
           \/ \E w \in Pool : CloseRequestStop(t, w)
    PROVE  Quiet
<1>1. QuietData /\ UNCHANGED <<stack, accepting>>
  BY DEF SetDeterministicSimulation, WorkerExit, CloseRequestStop, QuietData, scopeVars
<1> QED BY <1>1, QuietStill

(* Close: from refusing jobs to the sweep over those that never started.     *)
LEMMA CloseQuiet ==
    ASSUME ExecutionInv, NEW t \in Threads, Close(t) PROVE Quiet
<1>1. /\ QuietData /\ DependencyInv /\ ~accepting'
      /\ Enter(t, [Call("close", "flag", None) EXCEPT !.todo = 1..(next - 1)])
      /\ next' = next
  BY DEF Close, QuietData, jobVars, scopeVars, ExecutionInv
<1>2. 1..(next - 1) = Known /\ Known \subseteq Jobs
  <2>1. next \in 1..(JobCount + 1)
    BY <1>1, CallFacts DEF DataType
  <2> QED BY <2>1, JobSystemAssumption DEF Known, Jobs
<1>3. PICK f \in Frame : /\ f = [Call("close", "flag", None) EXCEPT !.todo = 1..(next - 1)]
                         /\ f.op = "close" /\ f.at = "flag" /\ f.todo = Known /\ f.calls = {}
  <2>1. PICK f \in Frame : f = [Call("close", "flag", None) EXCEPT !.todo = 1..(next - 1)]
    BY <1>2 DEF Call, Frame, Statuses
  <2>2. f.op = "close" /\ f.at = "flag" /\ f.todo = Known /\ f.calls = {}
    BY <1>2, <2>1 DEF Call
  <2> QED BY <2>1, <2>2
<1>4. Known' = Known
  BY <1>1 DEF Known
<1>5. Outside(f) /\ ~Sweeps(f) /\ AtPoint(f)
  BY <1>3 DEF Outside, Sweeps, AtPoint
<1>6. CallOK(f)'
  <2>1. AtPoint(f)'
    BY <1>5 DEF AtPoint
  <2> QED BY <1>1, <1>3, <1>4, <2>1 DEF CallOK, Carries, Claims, Started
<1> QED BY <1>1, <1>3, <1>5, <1>6, QuietEnter

(* The turns of its loops.                                                   *)
LEMMA CloseTurnsQuiet ==
    ASSUME ExecutionInv, NEW t \in Threads,
           \/ CloseJoin(t)
           \/ \E j \in Jobs : CloseFlag(t, j) \/ (CloseSweep(t, j) /\ ~CloseEnds(status[j]))
    PROVE  Quiet
<1>1. /\ QuietData /\ accepting' = accepting /\ DependencyInv /\ stack[t] # <<>> /\ Top(t).op = "close"
      /\ next' = next
  <2>1. CASE CloseJoin(t)
    BY <2>1 DEF CloseJoin, At, QuietData, OnlyStackChanges, jobVars, scopeVars, poolVars, ExecutionInv
  <2>2. ASSUME NEW j \in Jobs, CloseFlag(t, j) \/ CloseSweep(t, j)
        PROVE  /\ QuietData /\ accepting' = accepting /\ DependencyInv /\ stack[t] # <<>> /\ Top(t).op = "close"
               /\ next' = next
    BY <2>2 DEF CloseFlag, CloseSweep, At, QuietData, OnlyStackChanges, jobVars, scopeVars, poolVars, ExecutionInv
  <2> QED BY <2>1, <2>2
<1>2. PICK h \in Places : FrameOf(h) = Top(t)
  BY <1>1, CallFacts, TopPlace
<1>3. Top(t) \in Frame /\ CallOK(Top(t)) /\ Known' = Known
  BY <1>1, <1>2, CallFacts DEF ExecutionInv, CallsOK, Known
<1>4. ASSUME NEW f \in Frame, Become(t, f), f.op = "close", f.calls = Top(t).calls,
             \/ f.at = "flag" /\ Known \subseteq cancelRequested' \cup f.todo
             \/ /\ f.at = "sweep" /\ f.todo \subseteq cancelRequested'
                /\ \A j \in Known \ f.todo : SweptBy(Top(t), j)
      PROVE  Quiet
  <2>1. AtPoint(f)
    BY <1>1, <1>3, <1>4 DEF AtPoint, CallOK
  <2>2. AtPoint(f)'
    BY <2>1 DEF AtPoint
  <2>3. ~accepting'
    BY <1>1, <1>3 DEF CallOK
  <2>4. CallOK(f)'
    BY <1>3, <1>4, <2>2, <2>3 DEF CallOK, Carries, Claims, Started
  <2> QED BY <1>1, <1>4, <2>4, QuietTurn DEF Outside, Sweeps
<1>5. CASE CloseJoin(t)
  <2>1. /\ Top(t).at = "flag" /\ Top(t).todo = {} /\ cancelRequested' = cancelRequested
        /\ Become(t, [Top(t) EXCEPT !.at = "sweep", !.todo = 1..(next - 1)])
    BY <1>5 DEF CloseJoin, At, OnlyStackChanges
  <2>2. 1..(next - 1) = Known /\ Known \subseteq Jobs
    <3>1. next \in 1..(JobCount + 1)
      BY <1>1, CallFacts DEF DataType
    <3> QED BY <3>1, JobSystemAssumption DEF Known, Jobs
  <2>3. PICK f \in Frame : /\ f = [Top(t) EXCEPT !.at = "sweep", !.todo = 1..(next - 1)]
                           /\ f.op = "close" /\ f.at = "sweep" /\ f.todo = Known /\ f.calls = Top(t).calls
    <3>1. PICK f \in Frame : f = [Top(t) EXCEPT !.at = "sweep", !.todo = 1..(next - 1)]
      BY <1>3, <2>2 DEF Frame
    <3>2. f.op = "close" /\ f.at = "sweep" /\ f.todo = Known /\ f.calls = Top(t).calls
      BY <1>1, <1>3, <2>2, <3>1 DEF Frame
    <3> QED BY <3>1, <3>2
  <2>4. Known \subseteq cancelRequested'
    BY <1>1, <1>3, <2>1 DEF CallOK
  <2> QED BY <1>4, <2>1, <2>3, <2>4
<1>6. ASSUME NEW j \in Jobs, CloseFlag(t, j) \/ (CloseSweep(t, j) /\ ~CloseEnds(status[j])) PROVE Quiet
  <2>1. /\ Become(t, [Top(t) EXCEPT !.todo = Top(t).todo \ {j}])
        /\ \/ Top(t).at = "flag" /\ cancelRequested' = cancelRequested \cup {j}
           \/ Top(t).at = "sweep" /\ cancelRequested' = cancelRequested /\ ~CloseEnds(status[j])
    BY <1>6 DEF CloseFlag, CloseSweep, At, OnlyStackChanges
  <2>2. PICK f \in Frame : /\ f = [Top(t) EXCEPT !.todo = Top(t).todo \ {j}]
                           /\ f.op = "close" /\ f.at = Top(t).at /\ f.todo = Top(t).todo \ {j}
                           /\ f.calls = Top(t).calls
    <3>1. Top(t).todo \ {j} \in SUBSET Top(t).todo
      OBVIOUS
    <3>2. PICK f : f = [Top(t) EXCEPT !.todo = Top(t).todo \ {j}]
      OBVIOUS
    <3>3. f \in Frame /\ f.todo = Top(t).todo \ {j} /\ f.op = Top(t).op /\ f.at = Top(t).at /\ f.calls = Top(t).calls
      BY <1>3, <3>1, <3>2, ListShortened
    <3> QED BY <1>1, <3>2, <3>3
  <2>3. Top(t).at = "flag" => Known \subseteq cancelRequested' \cup f.todo
    BY <1>1, <1>3, <2>1, <2>2 DEF CallOK
  <2>4. Top(t).at = "sweep" => f.todo \subseteq cancelRequested' /\ \A k \in Known \ f.todo : SweptBy(Top(t), k)
    BY <1>1, <1>3, <2>1, <2>2 DEF CallOK, SweptBy, Sweeps, IsSettled, CloseEnds, IsTerminal
  <2> QED BY <1>4, <2>1, <2>2, <2>3, <2>4
<1> QED BY <1>5, <1>6

(* Close returns.                                                            *)
LEMMA CloseReturnQuiet ==
    ASSUME ExecutionInv, NEW t \in Threads, CloseReturn(t) PROVE Quiet
<1>1. /\ QuietData /\ accepting' = accepting /\ DependencyInv /\ stack[t] # <<>> /\ Return(t)
      /\ Top(t).op = "close" /\ Top(t).at = "sweep" /\ Top(t).todo = {}
  BY QuietStackOnly DEF CloseReturn, At, ExecutionInv
<1> QED BY <1>1, QuietLeave DEF Outside, Sweeps

(* A step of something else.                                                 *)
LEMMA StutterQuiet == ASSUME UNCHANGED vars PROVE Quiet
  BY QuietStill DEF vars, QuietData, scopeVars, poolVars

-----------------------------------------------------------------------------
(* Cancellations: Cancel, JobScope::Cancel and Close end a job that they saw *)
(* waiting or queued after they had asked for its cancellation.              *)

EndsAt(p, j) ==
    /\ UNCHANGED <<jobVars, linkVars, stateVars, scopeJobs, queue, count, cancelRequested, scopeCancelled,
                   accepting>>
    /\ Places' = Places \cup {p} /\ FrameOf(p)' = FinishCall(j, "Cancelled", None)
    /\ p \in Places => Outside(FrameOf(p)) /\ FrameOf(p).op # "close"
    /\ \A c \in Places \ {p} :
          \/ FrameOf(c)' = FrameOf(c)
          \/ /\ Sweeps(FrameOf(c)) /\ p = <<c[1], c[2] + 1>> /\ p \notin Places
             /\ FrameOf(c)' = [FrameOf(c) EXCEPT !.todo = FrameOf(c).todo \ {j}]
    /\ j \in Known /\ j \in cancelRequested /\ status[j] \in {"Waiting", "Queued"}

Ends == \E p : \E j \in Jobs : EndsAt(p, j)

(* A cancellation whose look decides to cancel a job ends it.                *)
LEMMA LooksEnd ==
    ASSUME ExecutionInv, NEW t \in Threads, CancelLook(t) \/ ScopeCancelLook(t), ~Return(t) PROVE Ends
<1> DEFINE j == Top(t).job
<1>1. /\ DependencyInv /\ stack[t] # <<>> /\ Top(t).at = "look" /\ OnlyStackChanges
      /\ Top(t).op \in {"cancel", "cancelScope"}
      /\ status[j] \in {"Waiting", "Queued"} /\ Become(t, FinishCall(j, "Cancelled", None))
  BY DEF CancelLook, ScopeCancelLook, CancelEnds, ScopeCancelEnds, At, ExecutionInv
<1>2. PICK k : k = j
  OBVIOUS
<1>3. k \in Jobs /\ k \in Known /\ FinishCall(k, "Cancelled", None) \in Frame
  <2>1. k \in Jobs
    BY <1>1, <1>2, CallFacts DEF FrameOK, WithoutJob
  <2>2. k \in Known
    BY <1>1, <1>2, <2>1, InvParts
  <2> QED BY <2>1, <2>2, FinishWell DEF Well
<1>4. PICK h : Turning(t, h, FinishCall(k, "Cancelled", None))
  BY <1>1, <1>2, <1>3, CallFacts, BecomePlaces
<1>5. k \in cancelRequested
  BY <1>1, <1>2, <1>4 DEF ExecutionInv, CallsOK, CallOK, Turning
<1>6. EndsAt(h, k)
  <2>1. UNCHANGED <<jobVars, linkVars, stateVars, scopeJobs, queue, count, cancelRequested, scopeCancelled,
                    accepting>>
    BY <1>1 DEF OnlyStackChanges, scopeVars, poolVars
  <2>2. Outside(FrameOf(h)) /\ FrameOf(h).op # "close"
    BY <1>1, <1>4 DEF Turning, Outside
  <2> QED BY <1>1, <1>2, <1>3, <1>4, <1>5, <2>1, <2>2 DEF EndsAt, Turning
<1> QED BY <1>3, <1>6 DEF Ends

(* The sweep of a shutdown ends each job it finds waiting or queued.         *)
LEMMA SweepEnds ==
    ASSUME ExecutionInv, NEW t \in Threads, NEW j \in Jobs, CloseSweep(t, j), CloseEnds(status[j]) PROVE Ends
<1>1. /\ DependencyInv /\ stack[t] # <<>> /\ Sweeps(Top(t)) /\ j \in Top(t).todo /\ OnlyStackChanges
      /\ BecomeAndEnter(t, [Top(t) EXCEPT !.todo = Top(t).todo \ {j}], FinishCall(j, "Cancelled", None))
  BY DEF CloseSweep, At, ExecutionInv, Sweeps
<1>2. Top(t) \in Frame /\ j \in Known
  BY <1>1, CallFacts DEF FrameOK, Sweeps
<1>3. status[j] \in {"Waiting", "Queued"}
  <2>1. status[j] \in Statuses /\ status[j] # "Unsubmitted"
    BY <1>1, <1>2, CallFacts DEF DataType, ExecutionInv, StatesOK
  <2> QED BY <2>1 DEF CloseEnds, Statuses, IsTerminal
<1>4. FinishCall(j, "Cancelled", None) \in Frame
  BY <1>2, FinishWell DEF Well
<1>5. PICK f \in Frame : f = [Top(t) EXCEPT !.todo = Top(t).todo \ {j}]
  BY <1>2 DEF Frame
<1>6. PICK h, a : Calling(t, h, a, f, FinishCall(j, "Cancelled", None))
  BY <1>1, <1>4, <1>5, CallFacts, CallPlaces
<1>7. j \in cancelRequested
  BY <1>1, <1>6 DEF ExecutionInv, CallsOK, CallOK, Calling, Sweeps
<1>8. EndsAt(a, j)
  <2>1. UNCHANGED <<jobVars, linkVars, stateVars, scopeJobs, queue, count, cancelRequested, scopeCancelled,
                    accepting>>
    BY <1>1 DEF OnlyStackChanges, scopeVars, poolVars
  <2>2. /\ h \in Places /\ a \notin Places /\ FrameOf(h) = Top(t) /\ FrameOf(h)' = f
        /\ \A c \in Places \ {h} : FrameOf(c)' = FrameOf(c)
        /\ Places' = Places \cup {a} /\ FrameOf(a)' = FinishCall(j, "Cancelled", None)
    BY <1>6 DEF Calling
  <2>3. a = <<h[1], h[2] + 1>>
    BY <1>6 DEF Calling
  <2>4. \A c \in Places \ {a} :
          \/ FrameOf(c)' = FrameOf(c)
          \/ /\ Sweeps(FrameOf(c)) /\ a = <<c[1], c[2] + 1>> /\ a \notin Places
             /\ FrameOf(c)' = [FrameOf(c) EXCEPT !.todo = FrameOf(c).todo \ {j}]
    BY <1>1, <1>5, <2>2, <2>3
  <2> QED BY <1>2, <1>3, <1>7, <2>1, <2>2, <2>4 DEF EndsAt
<1> QED BY <1>8 DEF Ends

-----------------------------------------------------------------------------
(* The invariant is kept: steps that pass no job on. *)

(* Shorthands for the parts of the invariant, with the base.                 *)
ExecutionParts == CallsOK /\ OneCarrier /\ NoLateFinish /\ StatesOK

(* A quiet step keeps what is known of the calls and the states.             *)
LEMMA QuietExecution == ASSUME ExecutionInv, Quiet PROVE ExecutionParts'
<1>1. /\ UNCHANGED <<next, shape, deps, registered, status, hasFunction, blockedBy, queue>>
      /\ cancelRequested \subseteq cancelRequested' /\ (scopeCancelled => scopeCancelled')
      /\ accepting' => accepting
  BY DEF Quiet, QuietData, jobVars, linkVars, stateVars
<1>2. Known' = Known /\ \A j : Stopped(j) => Stopped(j)'
  BY <1>1 DEF Known, Stopped, ScopeStops
<1>3. ASSUME NEW f, NEW g, Alike(f, g)
      PROVE  /\ g.op = f.op /\ g.at = f.at /\ g.job = f.job
             /\ Carries(g)' => Carries(f)
             /\ Started(g) <=> Started(f)
             /\ Claims(g) <=> Claims(f)
             /\ CallOK(f) => CallOK(g)'
  <2>1. g.op = f.op /\ g.at = f.at /\ g.job = f.job
    BY <1>3 DEF Alike
  <2>2. Carries(g)' => Carries(f)
    BY <1>2, <2>1 DEF Carries, Claims
  <2>3. (Started(g) <=> Started(f)) /\ (Claims(g) <=> Claims(f))
    BY <2>1 DEF Started, Claims
  <2>4. AtPoint(f) => AtPoint(g)'
    BY <1>3, <2>1 DEF AtPoint, Alike
  <2>5. \A j : Ready(j, blockedBy)' = Ready(j, blockedBy) /\ IsQueued(j)' = IsQueued(j) /\ QueuedOrOver(j)' = QueuedOrOver(j)
    BY <1>1 DEF Ready, IsQueued, QueuedOrOver
  <2>6. f.op = "close" => g.todo = f.todo
    BY <1>3 DEF Alike
  <2>7. ASSUME CallOK(f) PROVE CallOK(g)'
    <3>1. g.op = "close" => ~accepting' /\ (g.at = "flag" => Known' \subseteq cancelRequested' \cup g.todo)
                                       /\ (g.at = "sweep" => g.todo \subseteq cancelRequested')
      BY <1>1, <1>2, <2>1, <2>6, <2>7 DEF CallOK
    <3>2. /\ g.at = "look" => g.job \in cancelRequested'
          /\ Carries(g)' => Ready(g.job, blockedBy)' /\ ~IsQueued(g.job)'
          /\ g.at \in {"publish", "begin"} => QueuedOrOver(g.job)'
      BY <1>1, <2>1, <2>2, <2>5, <2>7 DEF CallOK
    <3>3. Started(g) => status'[g.job] = "Running" \/ (g.job \in MayRunOut /\ IsTerminal(status'[g.job]))
      BY <1>1, <2>1, <2>3, <2>7 DEF CallOK
    <3>4. AtPoint(g)'
      BY <2>4, <2>7 DEF CallOK
    <3>5. Started(g)' = Started(g)
      BY DEF Started
    <3> QED BY <3>1, <3>2, <3>3, <3>4, <3>5 DEF CallOK
  <2> QED BY <2>1, <2>2, <2>3, <2>7
<1>4. ASSUME NEW c \in Places', Carries(FrameOf(c))' \/ Started(FrameOf(c)') \/ Claims(FrameOf(c)')
      PROVE  c \in Places /\ Alike(FrameOf(c), FrameOf(c)')
  BY <1>4 DEF Quiet, QuietFrames, Outside, Carries, Started, Claims
<1>5. CallsOK'
  <2> SUFFICES ASSUME NEW c \in Places' PROVE CallOK(FrameOf(c))'
    BY DEF CallsOK
  <2>1. CASE c \in Places /\ Alike(FrameOf(c), FrameOf(c)')
    <3>1. CallOK(FrameOf(c))
      BY <2>1 DEF ExecutionInv, CallsOK
    <3> QED BY <1>3, <2>1, <3>1
  <2> QED BY <2>1 DEF Quiet, QuietFrames
<1>6. OneCarrier'
  <2> SUFFICES ASSUME NEW c \in Places', NEW e \in Places', Carries(FrameOf(c))', Carries(FrameOf(e))',
                      FrameOf(c)'.job = FrameOf(e)'.job
               PROVE  c = e
    BY DEF OneCarrier
  <2>1. /\ c \in Places /\ Carries(FrameOf(c)) /\ FrameOf(c)'.job = FrameOf(c).job
        /\ e \in Places /\ Carries(FrameOf(e)) /\ FrameOf(e)'.job = FrameOf(e).job
    BY <1>3, <1>4
  <2> QED BY <2>1 DEF ExecutionInv, OneCarrier
<1>7. NoLateFinish'
  <2> SUFFICES ASSUME NEW c \in Places', NEW e \in Places', Started(FrameOf(c)'), Claims(FrameOf(e)'),
                      FrameOf(c)'.job = FrameOf(e)'.job
               PROVE  FrameOf(c)'.job \in MayRunOut
    BY DEF NoLateFinish, Started, Claims
  <2>1. /\ c \in Places /\ Started(FrameOf(c)) /\ FrameOf(c)'.job = FrameOf(c).job
        /\ e \in Places /\ Claims(FrameOf(e)) /\ FrameOf(e)'.job = FrameOf(e).job
    BY <1>3, <1>4
  <2> QED BY <2>1 DEF ExecutionInv, NoLateFinish
<1>8. StatesOK'
  BY <1>1, <1>2 DEF ExecutionInv, StatesOK, StillPending, Lane, QueuedOrOver
<1> QED BY <1>5, <1>6, <1>7, <1>8 DEF ExecutionParts

-----------------------------------------------------------------------------
(* The invariant is kept: steps that pass a job on. *)

(* Facts about the calls in progress that the steps below use.               *)
LEMMA CarrierFacts ==
    ASSUME ExecutionInv
    PROVE  /\ \A c \in Places : LET f == FrameOf(c) IN
                 /\ f \in Frame /\ CallOK(f)
                 /\ Carries(f) \/ Claims(f) \/ f.op = "submit" => f.job \in Known /\ f.job \in Jobs
                 /\ Carries(f) => Ready(f.job, blockedBy) /\ f.job \in registered /\ ~IsQueued(f.job)
                 /\ f.at \in {"publish", "begin"} \/ Started(f) => Carries(f)
           /\ \A j \in Jobs : IsQueued(j) => Ready(j, blockedBy) /\ QueuedOrOver(j)
           /\ \A lane \in Lanes : queue[lane] \subseteq Jobs
<1>1. DependencyInv /\ DataType /\ JobsOK
  BY InvParts DEF ExecutionInv
<1>2. ASSUME NEW c \in Places, NEW f, f = FrameOf(c)
      PROVE  /\ f \in Frame /\ CallOK(f)
             /\ Carries(f) \/ Claims(f) \/ f.op = "submit" => f.job \in Known /\ f.job \in Jobs
             /\ Carries(f) => Ready(f.job, blockedBy) /\ f.job \in registered /\ ~IsQueued(f.job)
             /\ f.at \in {"publish", "begin"} \/ Started(f) => Carries(f)
  <2>1. f \in Frame /\ CallOK(f) /\ FrameOK(c[1], f)
    BY <1>1, <1>2, CallFacts DEF ExecutionInv, CallsOK
  <2>2. Carries(f) => Ready(f.job, blockedBy) /\ f.job \in registered /\ ~IsQueued(f.job)
    BY <2>1 DEF CallOK, Ready
  <2>3. Carries(f) => f.job \in Jobs /\ f.job \in Known
    <3>1. Carries(f) => f.job \in Jobs
      BY <2>1, <2>2, <1>1 DEF DataType
    <3> QED BY <1>1, <2>2, <3>1, InvParts
  <2>4. Claims(f) \/ f.op = "submit" => f.job \in Known /\ f.job \in Jobs
    BY <2>1 DEF FrameOK, Claims, Known
  <2>5. f.at \in {"publish", "begin"} \/ Started(f) => Carries(f)
    BY <2>1 DEF CallOK, AtPoint, Carries, Started, Frame
  <2> QED BY <2>1, <2>2, <2>3, <2>4, <2>5
<1>3. \A lane \in Lanes : queue[lane] \subseteq Jobs
  BY <1>1 DEF DataType, Lanes
<1>4. \A j \in Jobs : IsQueued(j) => Ready(j, blockedBy) /\ QueuedOrOver(j)
  BY <1>1 DEF JobsOK, IsQueued, ExecutionInv, StatesOK, Lanes
<1> QED BY <1>2, <1>3, <1>4

(* Nothing that was asked for is taken back.                                 *)
Onward ==
    /\ cancelRequested \subseteq cancelRequested' /\ (accepting' => accepting)
    /\ Known' = Known \/ accepting
    /\ \A k \in Known : Stopped(k) => Stopped(k)'
    /\ Known \subseteq Known'

Kept(c) == c \in Places /\ FrameOf(c)' = FrameOf(c)
Bystander(g) == CallOK(g)' /\ ~Carries(g)' /\ ~Started(g) /\ ~Claims(g)

(* The call that carries job j, if any, is one that may go on.               *)
StillCarries(f) ==
    /\ Ready(f.job, blockedBy)' /\ ~IsQueued(f.job)'
    /\ f.at \in {"publish", "begin"} => QueuedOrOver(f.job)'
    /\ Started(f) => \/ status'[f.job] = "Running"
                     \/ f.job \in MayRunOut /\ IsTerminal(status'[f.job])

(* The call g, new at place p, is as it should be and comes into no other's  *)
(* way.                                                                      *)
Fits(p, g, j) ==
    /\ CallOK(g)' /\ (Carries(g)' \/ Started(g) \/ Claims(g) => g.job = j)
    /\ Carries(g)' => \A c \in Places \ {p} : Carries(FrameOf(c)) => FrameOf(c).job # j
    /\ Started(g) => (j \in MayRunOut) \/ \A c \in Places \ {p} : Claims(FrameOf(c)) => FrameOf(c).job # j
    /\ Claims(g) => (j \in MayRunOut) \/ \A c \in Places \ {p} : Started(FrameOf(c)) => FrameOf(c).job # j

CallsInv == CallsOK /\ OneCarrier /\ NoLateFinish

(* A step of one call, at place p, that concerns one job, j.                 *)
LEMMA JobStep ==
    ASSUME ExecutionInv, Onward, NEW p, NEW j,
           \A k \in Jobs \ {j} : /\ status'[k] = status[k] /\ (Ready(k, blockedBy) => Ready(k, blockedBy)')
                                 /\ (IsQueued(k)' => IsQueued(k)),
           \A c \in Places' \ {p} : Kept(c) \/ (c \in Places /\ \E g : (g = FrameOf(c)' /\ Bystander(g))),
           p \in Places' => \E g : (g = FrameOf(p)' /\ Fits(p, g, j)),
           \A c \in Places \ {p} : Carries(FrameOf(c)) /\ FrameOf(c).job = j => StillCarries(FrameOf(c))
    PROVE  CallsInv'
<1>1. ASSUME NEW c \in Places, c # p, NEW f, f = FrameOf(c)
      PROVE  CallOK(f)' /\ (Carries(f)' => Carries(f))
  <2>1. /\ CallOK(f) /\ (Carries(f) \/ Claims(f) => f.job \in Known /\ f.job \in Jobs)
        /\ Carries(f) => Ready(f.job, blockedBy) /\ ~IsQueued(f.job)
        /\ f.at \in {"publish", "begin"} \/ Started(f) => Carries(f)
    BY <1>1, CarrierFacts
  <2>2. Carries(f)' => Carries(f)
    BY <2>1 DEF Carries, Claims, Onward
  <2>3. Carries(f) => StillCarries(f)
    <3>1. CASE f.job = j
      BY <1>1, <3>1
    <3>2. CASE f.job # j
      <4> SUFFICES ASSUME Carries(f) PROVE StillCarries(f)
        OBVIOUS
      <4>1. PICK k \in Jobs \ {j} : k = f.job
        BY <2>1, <3>2
      <4>2. status'[k] = status[k] /\ Ready(k, blockedBy)' /\ ~IsQueued(k)'
        BY <2>1, <4>1
      <4>3. QueuedOrOver(k)' = QueuedOrOver(k)
        BY <4>2 DEF QueuedOrOver
      <4>4. f.at \in {"publish", "begin"} => QueuedOrOver(f.job)'
        BY <2>1, <4>1, <4>3 DEF CallOK
      <4>5. Started(f) => status'[k] = "Running" \/ (k \in MayRunOut /\ IsTerminal(status'[k]))
        BY <2>1, <4>1, <4>2 DEF CallOK
      <4> QED BY <4>1, <4>2, <4>4, <4>5 DEF StillCarries
    <3> QED BY <3>1, <3>2
  <2>4. f.op = "close" => ~accepting' /\ Known' = Known
    BY <2>1 DEF CallOK, Onward
  <2>5. AtPoint(f)' = AtPoint(f) /\ Started(f)' = Started(f)
    BY DEF AtPoint, Started
  <2>6. /\ AtPoint(f)' /\ (f.at = "look" => f.job \in cancelRequested')
        /\ f.op = "close" => ~accepting'
        /\ f.op = "close" /\ f.at = "flag" => Known' \subseteq cancelRequested' \cup f.todo
        /\ f.op = "close" /\ f.at = "sweep" => f.todo \subseteq cancelRequested'
    BY <2>1, <2>4, <2>5 DEF CallOK, Onward
  <2>7. /\ Carries(f)' => Ready(f.job, blockedBy)' /\ ~IsQueued(f.job)'
        /\ f.at \in {"publish", "begin"} => QueuedOrOver(f.job)'
        /\ Started(f)' => \/ status'[f.job] = "Running"
                          \/ f.job \in MayRunOut /\ IsTerminal(status'[f.job])
    BY <2>1, <2>2, <2>3, <2>5 DEF StillCarries
  <2>8. CallOK(f)'
    BY <2>6, <2>7 DEF CallOK
  <2> QED BY <2>2, <2>8
<1>2. ASSUME NEW c \in Places', c # p, NEW g, g = FrameOf(c)'
      PROVE  /\ CallOK(g)'
             /\ Carries(g)' \/ Started(g) \/ Claims(g) => c \in Places /\ g = FrameOf(c)
             /\ Carries(g)' => Carries(g)
  <2>1. CASE Kept(c)
    BY <1>1, <1>2, <2>1 DEF Kept
  <2>2. CASE Bystander(g)
    BY <2>2 DEF Bystander
  <2> QED BY <1>2, <2>1, <2>2
<1>3. ASSUME NEW g, g = FrameOf(p)', p \in Places' PROVE Fits(p, g, j)
  BY <1>3
<1>4. CallsOK'
  <2> SUFFICES ASSUME NEW c \in Places' PROVE CallOK(FrameOf(c))'
    BY DEF CallsOK
  <2>1. PICK g : g = FrameOf(c)'
    OBVIOUS
  <2>2. CallOK(g)'
    BY <1>2, <1>3, <2>1 DEF Fits
  <2> QED BY <2>1, <2>2
<1>5. OneCarrier'
  <2>1. ASSUME NEW c \in Places', NEW e \in Places', c # e, c # p, NEW f, NEW g, f = FrameOf(c)', g = FrameOf(e)',
               Carries(f)', Carries(g)', f.job = g.job
        PROVE  FALSE
    <3>1. c \in Places /\ f = FrameOf(c) /\ Carries(f)
      BY <1>2, <2>1
    <3>2. CASE e # p
      <4>1. e \in Places /\ g = FrameOf(e) /\ Carries(g)
        BY <1>2, <2>1, <3>2
      <4> QED BY <2>1, <3>1, <4>1 DEF ExecutionInv, OneCarrier
    <3>3. CASE e = p
      BY <1>3, <2>1, <3>1, <3>3 DEF Fits
    <3> QED BY <3>2, <3>3
  <2> SUFFICES ASSUME NEW c \in Places', NEW e \in Places', Carries(FrameOf(c))', Carries(FrameOf(e))',
                      FrameOf(c)'.job = FrameOf(e)'.job, c # e
               PROVE  FALSE
    BY DEF OneCarrier
  <2>2. PICK f, g : f = FrameOf(c)' /\ g = FrameOf(e)'
    OBVIOUS
  <2>3. Carries(f)' /\ Carries(g)' /\ f.job = g.job
    BY <2>2
  <2> QED BY <2>1, <2>2, <2>3
<1>6. NoLateFinish'
  <2> SUFFICES ASSUME NEW c \in Places', NEW e \in Places', Started(FrameOf(c)'), Claims(FrameOf(e)'),
                      FrameOf(c)'.job = FrameOf(e)'.job
               PROVE  FrameOf(c)'.job \in MayRunOut
    BY DEF NoLateFinish, Started, Claims
  <2>1. PICK f, g : f = FrameOf(c)' /\ g = FrameOf(e)'
    OBVIOUS
  <2>2. c # e
    BY <2>1 DEF Started, Claims
  <2>3. CASE c # p /\ e # p
    <3>1. c \in Places /\ f = FrameOf(c) /\ e \in Places /\ g = FrameOf(e)
      BY <1>2, <2>1, <2>3
    <3> QED BY <2>1, <3>1 DEF ExecutionInv, NoLateFinish
  <2>4. CASE c = p
    <3>1. Fits(p, f, j) /\ e \in Places /\ g = FrameOf(e)
      BY <1>2, <1>3, <2>1, <2>2, <2>4
    <3> QED BY <2>1, <2>2, <2>4, <3>1 DEF Fits
  <2>5. CASE e = p
    <3>1. Fits(p, g, j) /\ c \in Places /\ f = FrameOf(c)
      BY <1>2, <1>3, <2>1, <2>2, <2>5
    <3> QED BY <2>1, <2>2, <2>5, <3>1 DEF Fits
  <2> QED BY <2>3, <2>4, <2>5
<1> QED BY <1>4, <1>5, <1>6 DEF CallsInv

(* The data that the invariant speaks of.                                    *)
DataStill == UNCHANGED <<next, shape, registered, status, hasFunction, blockedBy, queue,
                         cancelRequested, scopeCancelled, accepting>>
RequestsStill == UNCHANGED <<next, shape, cancelRequested, scopeCancelled, accepting>>

(* What follows from what a step leaves alone.                               *)
LEMMA StillFacts ==
           /\ RequestsStill => (Onward /\ Known' = Known)
           /\ RequestsStill => \A j : Stopped(j)' = Stopped(j)
           /\ UNCHANGED <<blockedBy, registered>> => \A j : Ready(j, blockedBy)' = Ready(j, blockedBy)
           /\ UNCHANGED queue => \A j : IsQueued(j)' = IsQueued(j)
           /\ DataStill => (RequestsStill /\ (StatesOK => StatesOK'))
<1>1. RequestsStill => (Onward /\ Known' = Known)
  BY DEF RequestsStill, Onward, Known, Stopped, ScopeStops
<1>2. RequestsStill => \A j : Stopped(j)' = Stopped(j)
  BY DEF RequestsStill, Stopped, ScopeStops
<1>3. UNCHANGED <<blockedBy, registered>> => \A j : Ready(j, blockedBy)' = Ready(j, blockedBy)
  BY DEF Ready
<1>4. UNCHANGED queue => \A j : IsQueued(j)' = IsQueued(j)
  BY DEF IsQueued
<1>5. DataStill => (RequestsStill /\ (StatesOK => StatesOK'))
  BY DEF DataStill, RequestsStill, StatesOK, Known, StillPending, Lane, QueuedOrOver
<1> QED BY <1>1, <1>2, <1>3, <1>4, <1>5

(* No other call carries the job of a call that does.                        *)
LEMMA OnlyCarrier ==
    ASSUME ExecutionInv, NEW h \in Places, Carries(FrameOf(h))
    PROVE  \A c \in Places \ {h} : Carries(FrameOf(c)) => FrameOf(c).job # FrameOf(h).job
  BY DEF ExecutionInv, OneCarrier

(* A started job may be ended by another call only if it has not carried it. *)
LEMMA NoClaim ==
    ASSUME ExecutionInv, NEW h \in Places, Started(FrameOf(h)), FrameOf(h).job \notin MayRunOut
    PROVE  \A c \in Places : Claims(FrameOf(c)) => FrameOf(c).job # FrameOf(h).job
  BY DEF ExecutionInv, NoLateFinish

(* A call returns and changes nothing.                                       *)
LEMMA LeaveExecution ==
    ASSUME ExecutionInv, NEW t \in Threads, stack[t] # <<>>, Return(t), DataStill
    PROVE  ExecutionParts'
<1>1. PICK h : Leaving(t, h)
  BY CallFacts, ReturnPlaces DEF ExecutionInv
<1>2. UNCHANGED <<status, blockedBy, registered, queue>> /\ StatesOK' /\ Onward
  BY StillFacts DEF DataStill, ExecutionInv
<1>3. \A c \in Places' \ {h} : Kept(c)
  BY <1>1 DEF Leaving, Kept
<1>4. h \notin Places'
  BY <1>1 DEF Leaving
<1>5. PICK j : j \notin Jobs /\ \A c \in Places : Carries(FrameOf(c)) => FrameOf(c).job # j
  <2>1. PICK j : j = JobCount + 1
    OBVIOUS
  <2>2. j \notin Jobs
    BY <2>1, JobSystemAssumption DEF Jobs
  <2> QED BY <2>2, CarrierFacts
<1>6. CallsInv'
  BY <1>2, <1>3, <1>4, <1>5, StillFacts, JobStep
<1> QED BY <1>2, <1>6 DEF ExecutionParts, CallsInv

(* An enqueue that claims a ready job, or finds it claimed.                  *)
LEMMA EnqueueClaimExecution ==
    ASSUME ExecutionInv, NEW t \in Threads, EnqueueClaim(t) PROVE ExecutionParts'
<1>1. /\ DependencyInv /\ stack[t] # <<>> /\ Top(t) \in Frame /\ Top(t).op = "enqueue" /\ Top(t).at = "claim"
      /\ RequestsStill /\ UNCHANGED <<hasFunction, blockedBy, registered, queue>>
  BY CallFacts DEF ExecutionInv, EnqueueClaim, At, jobVars, linkVars, scopeVars, poolVars, RequestsStill
<1>2. PICK j : j = Top(t).job
  OBVIOUS
<1>3. CASE status[j] = "Waiting" /\ Ready(j, blockedBy)
  <2>1. PICK f \in Frame : f = [Top(t) EXCEPT !.at = "publish"]
    BY <1>1 DEF Frame
  <2>2. f.op = "enqueue" /\ f.at = "publish" /\ f.job = j /\ f.calls = Top(t).calls
    BY <1>1, <1>2, <2>1 DEF Frame
  <2>3. Become(t, f) /\ status' = [status EXCEPT ![j] = "Queued"]
    BY <1>2, <1>3, <2>1 DEF EnqueueClaim
  <2>4. PICK h : Turning(t, h, f)
    BY <1>1, <2>3, CallFacts, BecomePlaces
  <2>5. /\ h \in Places /\ FrameOf(h) = Top(t) /\ FrameOf(h)' = f /\ \A c \in Places' \ {h} : Kept(c)
        /\ Carries(Top(t)) /\ CallOK(Top(t)) /\ j \in Jobs /\ j \in Known
        /\ ~IsQueued(j)
    <3>1. h \in Places /\ FrameOf(h) = Top(t) /\ FrameOf(h)' = f /\ \A c \in Places' \ {h} : Kept(c)
      BY <2>4 DEF Turning, Kept
    <3>2. Carries(Top(t))
      BY <1>1 DEF Carries
    <3> QED BY <1>2, <3>1, <3>2, CarrierFacts
  <2>6. /\ status'[j] = "Queued" /\ \A k \in Jobs \ {j} : status'[k] = status[k]
        /\ StatesOK
    BY <1>1, <2>3, <2>5, CallFacts DEF DataType, ExecutionInv
  <2>7. Fits(h, f, j)
    <3>1. CallOK(f)'
      <4>1. Ready(j, blockedBy)' /\ ~IsQueued(j)' /\ QueuedOrOver(j)'
        BY <1>1, <1>3, <2>5, <2>6, StillFacts DEF QueuedOrOver
      <4>2. AtPoint(f)'
        BY <1>1, <2>2, <2>5 DEF AtPoint, CallOK
      <4> QED BY <2>2, <4>1, <4>2 DEF CallOK, Started
    <3>2. \A c \in Places \ {h} : Carries(FrameOf(c)) => FrameOf(c).job # j
      BY <1>2, <2>5, OnlyCarrier
    <3> QED BY <2>2, <3>1, <3>2 DEF Fits, Started, Claims
  <2>8. CallsInv'
    <3>1. \A c \in Places \ {h} : Carries(FrameOf(c)) /\ FrameOf(c).job = j => StillCarries(FrameOf(c))
      BY <1>2, <2>5, OnlyCarrier
    <3> QED BY <1>1, <2>5, <2>6, <2>7, <3>1, StillFacts, JobStep
  <2>9. StatesOK'
    <3>1. \A k \in Jobs : k \in hasFunction' <=> StillPending(k)'
      BY <1>1, <1>3, <2>5, <2>6 DEF StatesOK, StillPending
    <3>2. \A k \in Known' : status'[k] # "Unsubmitted"
      BY <1>1, <2>6, StillFacts DEF StatesOK, Known
    <3>3. \A k \in Jobs : QueuedOrOver(k) => QueuedOrOver(k)'
      BY <2>6 DEF QueuedOrOver
    <3>4. \A lane \in Lanes : \A k \in queue'[lane] : lane = Lane(k)' /\ QueuedOrOver(k)'
      BY <1>1, <2>6, <3>3, CarrierFacts DEF StatesOK, Lane, RequestsStill
    <3> QED BY <3>1, <3>2, <3>4 DEF StatesOK
  <2> QED BY <2>8, <2>9 DEF ExecutionParts, CallsInv
<1>4. CASE ~(status[j] = "Waiting" /\ Ready(j, blockedBy))
  <2>1. Return(t) /\ DataStill
    BY <1>1, <1>2, <1>4 DEF EnqueueClaim, DataStill, RequestsStill
  <2> QED BY <1>1, <2>1, LeaveExecution
<1> QED BY <1>3, <1>4

(* An enqueue publishes the job it has claimed.                              *)
LEMMA EnqueuePublishExecution ==
    ASSUME ExecutionInv, NEW t \in Threads, EnqueuePublish(t) PROVE ExecutionParts'
<1>1. /\ DependencyInv /\ stack[t] # <<>> /\ Top(t) \in Frame /\ Top(t).op = "enqueue" /\ Top(t).at = "publish"
      /\ RequestsStill /\ UNCHANGED <<status, hasFunction, blockedBy, registered>> /\ Return(t)
  BY CallFacts DEF ExecutionInv, EnqueuePublish, At, jobVars, linkVars, stateVars, scopeVars, poolVars,
     RequestsStill
<1>2. PICK j : j = Top(t).job
  OBVIOUS
<1>3. PICK h : Leaving(t, h)
  BY <1>1, CallFacts, ReturnPlaces
<1>4. /\ h \in Places /\ FrameOf(h) = Top(t) /\ h \notin Places' /\ \A c \in Places' \ {h} : Kept(c)
  BY <1>3 DEF Leaving, Kept
<1>5. Carries(Top(t)) /\ j \in Jobs /\ QueuedOrOver(j) /\ Ready(j, blockedBy)
  <2>1. Carries(Top(t))
    BY <1>1 DEF Carries
  <2>2. CallOK(Top(t)) /\ j \in Jobs /\ Ready(j, blockedBy)
    BY <1>2, <1>4, <2>1, CarrierFacts
  <2> QED BY <1>1, <1>2, <2>1, <2>2 DEF CallOK
<1>6. \A lane \in Lanes : queue'[lane] = IF lane = Lane(j) THEN queue[lane] \cup {j} ELSE queue[lane]
  BY <1>1, <1>2, CallFacts DEF DataType, Lanes, EnqueuePublish
<1>7. \A k \in Jobs \ {j} : IsQueued(k)' => IsQueued(k)
  BY <1>6 DEF IsQueued
<1>8. CallsInv'
  <2>1. \A c \in Places \ {h} : Carries(FrameOf(c)) /\ FrameOf(c).job = j => StillCarries(FrameOf(c))
    BY <1>2, <1>4, <1>5, OnlyCarrier
  <2>2. \A k \in Jobs \ {j} : /\ status'[k] = status[k] /\ (Ready(k, blockedBy) => Ready(k, blockedBy)')
                              /\ (IsQueued(k)' => IsQueued(k))
    BY <1>1, <1>7, StillFacts
  <2>3. Onward
    BY <1>1, StillFacts
  <2> QED BY <1>4, <2>1, <2>2, <2>3, JobStep
<1>9. StatesOK'
  <2>1. \A k \in Jobs : k \in hasFunction' <=> StillPending(k)'
    BY <1>1 DEF ExecutionInv, StatesOK, StillPending
  <2>2. \A k \in Known' : status'[k] # "Unsubmitted"
    BY <1>1, StillFacts DEF ExecutionInv, StatesOK
  <2>3. \A lane \in Lanes : \A k \in queue'[lane] : lane = Lane(k)' /\ QueuedOrOver(k)'
    <3> SUFFICES ASSUME NEW lane \in Lanes, NEW k \in queue'[lane]
                 PROVE  lane = Lane(k) /\ QueuedOrOver(k)
      BY <1>1 DEF Lane, QueuedOrOver, RequestsStill
    <3>1. k \in queue[lane] \/ (k = j /\ lane = Lane(j))
      BY <1>6
    <3> QED BY <1>5, <3>1 DEF ExecutionInv, StatesOK
  <2> QED BY <2>1, <2>2, <2>3 DEF StatesOK
<1> QED BY <1>8, <1>9 DEF ExecutionParts, CallsInv

(* A call that carries a job may carry it on.                                *)
LEMMA CarrierStays ==
    ASSUME ExecutionInv, NEW c \in Places, Carries(FrameOf(c)),
           UNCHANGED <<status, blockedBy, registered, queue>>
    PROVE  StillCarries(FrameOf(c))
<1>1. PICK f : f = FrameOf(c)
  OBVIOUS
<1>2. CallOK(f) /\ Carries(f)
  BY <1>1, CarrierFacts
<1>3. Ready(f.job, blockedBy)' = Ready(f.job, blockedBy) /\ IsQueued(f.job)' = IsQueued(f.job)
  BY StillFacts
<1>4. QueuedOrOver(f.job)' = QueuedOrOver(f.job)
  BY DEF QueuedOrOver
<1>5. StillCarries(f)
  BY <1>2, <1>3, <1>4 DEF StillCarries, CallOK
<1> QED BY <1>1, <1>5

(* A call goes on and changes nothing else.                                  *)
LEMMA TurnExecution ==
    ASSUME ExecutionInv, NEW t \in Threads, stack[t] # <<>>, DataStill, NEW f \in Frame, Become(t, f),
           NEW j, \A h \in Places : FrameOf(h) = Top(t) => Fits(h, f, j)
    PROVE  ExecutionParts'
<1>1. PICK h : Turning(t, h, f)
  BY CallFacts, BecomePlaces DEF ExecutionInv
<1>2. UNCHANGED <<status, blockedBy, registered, queue>> /\ StatesOK' /\ Onward
  BY StillFacts DEF DataStill, ExecutionInv
<1>3. h \in Places /\ FrameOf(h) = Top(t) /\ FrameOf(h)' = f /\ \A c \in Places' \ {h} : Kept(c)
  BY <1>1 DEF Turning, Kept
<1>4. Fits(h, f, j)
  BY <1>3
<1>5. \A c \in Places \ {h} : Carries(FrameOf(c)) /\ FrameOf(c).job = j => StillCarries(FrameOf(c))
  BY <1>2, CarrierStays
<1>6. \A k \in Jobs \ {j} : /\ status'[k] = status[k] /\ (Ready(k, blockedBy) => Ready(k, blockedBy)')
                            /\ (IsQueued(k)' => IsQueued(k))
  BY <1>2, StillFacts
<1>7. CallsInv'
  BY <1>2, <1>3, <1>4, <1>5, <1>6, JobStep
<1> QED BY <1>2, <1>7 DEF ExecutionParts, CallsInv

(* A finish tries to settle its job.                                         *)
LEMMA FinishSettleExecution ==
    ASSUME ExecutionInv, NEW t \in Threads, FinishSettle(t) PROVE ExecutionParts'
<1>1. /\ DependencyInv /\ stack[t] # <<>> /\ Top(t) \in Frame /\ Top(t).op = "finish" /\ DataStill
  BY CallFacts DEF ExecutionInv, FinishSettle, At, jobVars, linkVars, stateVars, scopeVars, poolVars,
     DataStill
<1>2. PICK f \in Frame : f = [Top(t) EXCEPT !.at = "release"]
  BY <1>1 DEF Frame
<1>3. f.op = "finish" /\ f.at = "release"
  BY <1>1, <1>2 DEF Frame
<1>4. Become(t, f)
  BY <1>2 DEF FinishSettle
<1>5. \A h : Fits(h, f, None)
  BY <1>3 DEF Fits, CallOK, AtPoint, Carries, Started, Claims
<1> QED BY <1>1, <1>4, <1>5, TurnExecution

(* A finish claims the job it settles, or leaves it to who did.              *)
LEMMA FinishClaimExecution ==
    ASSUME ExecutionInv, NEW t \in Threads, FinishClaim(t) PROVE ExecutionParts'
<1>1. /\ DependencyInv /\ stack[t] # <<>> /\ Top(t) \in Frame /\ Top(t).op = "finish" /\ Top(t).at = "claim"
      /\ RequestsStill /\ UNCHANGED <<blockedBy, registered, queue>> /\ FrameOK(t, Top(t)) /\ DataType
  BY CallFacts DEF ExecutionInv, FinishClaim, At, jobVars, linkVars, scopeVars, poolVars, RequestsStill
<1>2. PICK j \in Jobs : j = Top(t).job /\ j \in Known /\ IsTerminal(Top(t).status)
  BY <1>1 DEF FrameOK, Known
<1>3. CASE IsTerminal(status[j])
  <2>1. Return(t) /\ UNCHANGED stateVars
    BY <1>2, <1>3 DEF FinishClaim
  <2>2. DataStill
    BY <1>1, <2>1 DEF DataStill, RequestsStill, stateVars
  <2> QED BY <1>1, <2>1, <2>2, LeaveExecution
<1>4. CASE ~IsTerminal(status[j])
  <2>1. PICK f \in Frame : f = [Top(t) EXCEPT !.at = "settle", !.was = status[j], !.todo = dependents[j]]
    BY <1>1, <1>2 DEF Frame, DataType
  <2>2. f.op = "finish" /\ f.at = "settle"
    BY <1>1, <2>1 DEF Frame
  <2>3. /\ Become(t, f) /\ status' = [status EXCEPT ![j] = Top(t).status]
        /\ hasFunction' = hasFunction \ {j}
    BY <1>2, <1>4, <2>1 DEF FinishClaim
  <2>4. PICK h : Turning(t, h, f)
    BY <1>1, <2>3, CallFacts, BecomePlaces
  <2>5. /\ h \in Places /\ FrameOf(h) = Top(t) /\ FrameOf(h)' = f /\ \A c \in Places' \ {h} : Kept(c)
        /\ Claims(Top(t))
    BY <1>1, <2>4 DEF Turning, Kept, Claims
  <2>6. IsTerminal(status'[j]) /\ \A k \in Jobs \ {j} : status'[k] = status[k]
    BY <1>1, <1>2, <2>3 DEF DataType
  <2>7. Fits(h, f, j)
    BY <2>2 DEF Fits, CallOK, AtPoint, Carries, Started, Claims
  <2>8. ASSUME NEW c \in Places \ {h}, Carries(FrameOf(c)), FrameOf(c).job = j
        PROVE  StillCarries(FrameOf(c))
    <3>1. PICK f2 : f2 = FrameOf(c)
      OBVIOUS
    <3>2. CallOK(f2) /\ Carries(f2) /\ f2.job = j /\ Ready(j, blockedBy) /\ ~IsQueued(j)
      BY <2>8, <3>1, CarrierFacts
    <3>3. Ready(j, blockedBy)' /\ ~IsQueued(j)' /\ QueuedOrOver(j)'
      BY <1>1, <2>6, <3>2, StillFacts DEF QueuedOrOver
    <3>4. Started(f2) => j \in MayRunOut
      BY <1>2, <2>5, <3>1, <3>2 DEF ExecutionInv, NoLateFinish
    <3>5. StillCarries(f2)
      BY <2>6, <3>2, <3>3, <3>4 DEF StillCarries
    <3> QED BY <3>1, <3>5
  <2>9. CallsInv'
    BY <1>1, <2>5, <2>6, <2>7, <2>8, StillFacts, JobStep
  <2>10. StatesOK'
    <3>1. \A k \in Jobs : k \in hasFunction' <=> StillPending(k)'
      BY <2>3, <2>6 DEF ExecutionInv, StatesOK, StillPending, IsTerminal
    <3>2. \A k \in Known' : status'[k] # "Unsubmitted"
      BY <1>1, <2>6, StillFacts DEF ExecutionInv, StatesOK, Known, IsTerminal
    <3>3. \A k \in Jobs : QueuedOrOver(k) => QueuedOrOver(k)'
      BY <2>6 DEF QueuedOrOver
    <3>4. \A lane \in Lanes : \A k \in queue'[lane] : lane = Lane(k)' /\ QueuedOrOver(k)'
      BY <1>1, <2>6, <3>3, CarrierFacts DEF ExecutionInv, StatesOK, Lane, RequestsStill
    <3> QED BY <3>1, <3>2, <3>4 DEF StatesOK
  <2> QED BY <2>9, <2>10 DEF ExecutionParts, CallsInv
<1> QED BY <1>3, <1>4

(* A finish tells one dependent that its job is over.                        *)
LEMMA FinishReleaseExecution ==
    ASSUME ExecutionInv, NEW t \in Threads, NEW d \in Jobs, FinishRelease(t, d) PROVE ExecutionParts'
<1>1. /\ DependencyInv /\ stack[t] # <<>> /\ Top(t) \in Frame /\ Top(t).op = "finish" /\ Top(t).at = "release"
      /\ RequestsStill /\ UNCHANGED <<status, hasFunction, registered, queue>> /\ DataType
  BY CallFacts DEF ExecutionInv, FinishRelease, At, jobVars, linkVars, scopeVars, poolVars, RequestsStill
<1>2. PICK f \in Frame : f = [Top(t) EXCEPT !.todo = Top(t).todo \ {d}]
  BY <1>1 DEF Frame
<1>3. f.op = "finish" /\ f.at = "release"
  BY <1>1, <1>2 DEF Frame
<1>4. Bystander(f) /\ \A h, j : Fits(h, f, j)
  BY <1>3 DEF Bystander, Fits, CallOK, AtPoint, Carries, Started, Claims
<1>5. CASE IsTerminal(status[d]) \/ blockedBy[d] = {}
  <2>1. Become(t, f) /\ DataStill
    BY <1>1, <1>2, <1>5 DEF FinishRelease, DataStill, RequestsStill
  <2> QED BY <1>1, <1>4, <2>1, TurnExecution
<1>6. CASE ~(IsTerminal(status[d]) \/ blockedBy[d] = {})
  <2>1. /\ blockedBy' = [blockedBy EXCEPT ![d] = blockedBy[d] \ {Top(t).job}]
        /\ ~Ready(d, blockedBy)
    BY <1>6 DEF FinishRelease, Ready
  <2>2. \A c \in Places : Carries(FrameOf(c)) => FrameOf(c).job # d
    BY <2>1, CarrierFacts
  <2>3. ~IsQueued(d) /\ ~IsQueued(d)'
    BY <1>1, <2>1, CarrierFacts, StillFacts
  <2>4. /\ Onward
        /\ \A k \in Jobs \ {d} : /\ status'[k] = status[k] /\ (Ready(k, blockedBy) => Ready(k, blockedBy)')
                                 /\ (IsQueued(k)' => IsQueued(k))
    <3>1. \A k \in Jobs \ {d} : Ready(k, blockedBy) => Ready(k, blockedBy)'
      BY <1>1, <2>1 DEF Ready, DataType
    <3> QED BY <1>1, <3>1, StillFacts
  <2>5. StatesOK'
    BY <1>1 DEF ExecutionInv, StatesOK, RequestsStill, Known, StillPending, Lane, QueuedOrOver
  <2>6. CASE ~Ready(d, blockedBy')
    <3>1. Become(t, f)
      BY <1>2, <1>6, <2>6 DEF FinishRelease
    <3>2. PICK h : Turning(t, h, f)
      BY <1>1, <3>1, CallFacts, BecomePlaces
    <3>3. FrameOf(h)' = f /\ \A c \in Places' \ {h} : Kept(c)
      BY <3>2 DEF Turning, Kept
    <3>4. CallsInv'
      BY <1>4, <2>2, <2>4, <3>3, JobStep
    <3> QED BY <2>5, <3>4 DEF ExecutionParts, CallsInv
  <2>7. CASE Ready(d, blockedBy')
    <3>1. PICK e \in Jobs \cup {None} : e = depFailure'[d]
      <4>1. depFailure'[d] = depFailure[d] \/ depFailure'[d] = Top(t).cause
        BY <1>1, <1>6 DEF FinishRelease, DataType
      <4> QED BY <1>1, <4>1 DEF DataType, Frame
    <3>2. PICK g : /\ BecomeAndEnter(t, f, g)
                   /\ g = FinishCall(d, "Cancelled", e) \/ g = Call("enqueue", "claim", d)
      BY <1>2, <1>6, <2>7, <3>1 DEF FinishRelease
    <3>3. g \in Frame /\ g.job = d /\ g.calls = {} /\ (Claims(g) \/ (g.op = "enqueue" /\ g.at = "claim"))
      <4>1. CASE g = FinishCall(d, "Cancelled", e)
        BY <3>1, <4>1 DEF FinishCall, Call, Frame, Statuses, Claims
      <4>2. CASE g = Call("enqueue", "claim", d)
        BY <4>2 DEF Call, Frame, Statuses
      <4> QED BY <3>2, <4>1, <4>2
    <3>4. PICK h, a : Calling(t, h, a, f, g)
      BY <1>1, <3>2, <3>3, CallFacts, CallPlaces
    <3>5. /\ h \in Places /\ a \notin Places /\ FrameOf(h)' = f /\ FrameOf(a)' = g
          /\ \A c \in Places' \ {a} : Kept(c) \/ c = h
      BY <3>4 DEF Calling, Kept
    <3>6. Fits(a, g, d)
      <4>1. Ready(d, blockedBy)' /\ ~IsQueued(d)'
        BY <1>1, <2>3, <2>7 DEF Ready
      <4>2. CallOK(g)'
        BY <3>3, <4>1 DEF CallOK, AtPoint, Claims, Started
      <4>3. ~Started(g) /\ \A c \in Places : Started(FrameOf(c)) => FrameOf(c).job # d
        BY <2>2, <3>3, CarrierFacts DEF Claims, Started
      <4> QED BY <2>2, <3>3, <4>2, <4>3 DEF Fits
    <3>7. CallsInv'
      <4>1. \A c \in Places' \ {a} : Kept(c) \/ (c \in Places /\ \E b : (b = FrameOf(c)' /\ Bystander(b)))
        BY <1>4, <3>5
      <4>2. \E b : b = FrameOf(a)' /\ Fits(a, b, d)
        BY <3>5, <3>6
      <4> QED BY <2>2, <2>4, <4>1, <4>2, JobStep
    <3> QED BY <2>5, <3>7 DEF ExecutionParts, CallsInv
  <2> QED BY <2>6, <2>7
<1> QED BY <1>5, <1>6

(* A thread takes job j from a lane to execute it.                           *)
LEMMA TakeExecution ==
    ASSUME ExecutionInv, NEW t \in Threads, NEW l \in Lanes, NEW j \in queue[l],
           queue' = [queue EXCEPT ![l] = queue[l] \ {j}], Enter(t, Call("execute", "begin", j)),
           RequestsStill, UNCHANGED <<status, hasFunction, blockedBy, registered>>
    PROVE  ExecutionParts'
<1>1. DependencyInv /\ DataType /\ StatesOK /\ j \in Jobs
  BY CallFacts, CarrierFacts DEF ExecutionInv
<1>2. PICK g \in Frame : g = Call("execute", "begin", j)
  BY <1>1 DEF Call, Frame, Statuses
<1>3. g.op = "execute" /\ g.at = "begin" /\ g.job = j /\ g.calls = {}
  BY <1>2 DEF Call
<1>4. PICK a : Entering(t, a, g)
  BY <1>1, <1>2, CallFacts, EnterPlaces
<1>5. a \notin Places /\ FrameOf(a)' = g /\ \A c \in Places' \ {a} : Kept(c)
  BY <1>4 DEF Entering, Kept
<1>6. \A k \in Lanes : queue'[k] = IF k = l THEN queue[l] \ {j} ELSE queue[k]
  BY <1>1 DEF DataType, Lanes
<1>7. IsQueued(j) /\ ~IsQueued(j)' /\ \A k \in Jobs \ {j} : IsQueued(k)' => IsQueued(k)
  BY <1>1, <1>6 DEF IsQueued, StatesOK
<1>8. Ready(j, blockedBy) /\ QueuedOrOver(j) /\ \A c \in Places : Carries(FrameOf(c)) => FrameOf(c).job # j
  BY <1>1, <1>7, CarrierFacts
<1>9. Fits(a, g, j)
  <2>1. CallOK(g)'
    <3>1. Ready(j, blockedBy)' /\ QueuedOrOver(j)'
      BY <1>8, StillFacts DEF QueuedOrOver
    <3> QED BY <1>3, <1>7, <3>1 DEF CallOK, AtPoint, Started
  <2> QED BY <1>3, <1>8, <2>1 DEF Fits, Started, Claims
<1>10. CallsInv'
  <2>1. \A k \in Jobs \ {j} : /\ status'[k] = status[k] /\ (Ready(k, blockedBy) => Ready(k, blockedBy)')
                              /\ (IsQueued(k)' => IsQueued(k))
    BY <1>7, StillFacts
  <2>2. \A c \in Places \ {a} : Carries(FrameOf(c)) /\ FrameOf(c).job = j => StillCarries(FrameOf(c))
    BY <1>8
  <2>3. Onward
    BY StillFacts
  <2> QED BY <1>5, <1>9, <2>1, <2>2, <2>3, JobStep
<1>11. StatesOK'
  <2>1. \A k \in Jobs : k \in hasFunction' <=> StillPending(k)'
    BY <1>1 DEF StatesOK, StillPending
  <2>2. \A k \in Known' : status'[k] # "Unsubmitted"
    BY <1>1, StillFacts DEF StatesOK
  <2>3. \A lane \in Lanes : \A k \in queue'[lane] : lane = Lane(k)' /\ QueuedOrOver(k)'
    <3> SUFFICES ASSUME NEW lane \in Lanes, NEW k \in queue'[lane]
                 PROVE  lane = Lane(k) /\ QueuedOrOver(k)
      BY DEF Lane, QueuedOrOver, RequestsStill
    <3> QED BY <1>1, <1>6 DEF StatesOK
  <2> QED BY <2>1, <2>2, <2>3 DEF StatesOK
<1> QED BY <1>10, <1>11 DEF ExecutionParts, CallsInv

(* A worker takes a queued job.                                              *)
LEMMA WorkerTakes ==
    ASSUME ExecutionInv, NEW t \in Threads, Take(t) PROVE ExecutionParts'
<1>1. PICK l \in Lanes : l = TakesFrom(t)
  BY DEF Lanes, TakesFrom
<1>2. PICK j \in queue[l] : /\ queue' = [queue EXCEPT ![l] = queue[l] \ {j}]
                            /\ Enter(t, Call("execute", "begin", j))
  BY <1>1 DEF Take
<1>3. RequestsStill /\ UNCHANGED <<status, hasFunction, blockedBy, registered>>
  BY DEF Take, jobVars, linkVars, stateVars, scopeVars, poolVars, RequestsStill
<1> QED BY <1>2, <1>3, TakeExecution

(* A thread that waits takes a queued job to help.                           *)
LEMMA WaiterTakes ==
    ASSUME ExecutionInv, NEW t \in Threads, WaitCheck(t), ~Complete(Top(t).job), CanHelp(t)
    PROVE  ExecutionParts'
<1>1. PICK l \in Lanes : l = "Compute"
  BY DEF Lanes
<1>2. PICK j \in queue[l] : /\ queue' = [queue EXCEPT ![l] = queue[l] \ {j}]
                            /\ Enter(t, Call("execute", "begin", j))
  BY <1>1 DEF WaitCheck
<1>3. RequestsStill /\ UNCHANGED <<status, hasFunction, blockedBy, registered>>
  BY DEF WaitCheck, jobVars, linkVars, stateVars, scopeVars, poolVars, RequestsStill
<1> QED BY <1>2, <1>3, TakeExecution

(* The execution of a job ends in its FinishJob.                             *)
LEMMA FinishFits ==
    ASSUME ExecutionInv, NEW h \in Places, FrameOf(h).op = "execute", NEW j, j = FrameOf(h).job,
           Ready(j, blockedBy)', ~IsQueued(j)', NEW g, Claims(g), g.job = j, g.calls = {}
    PROVE  Fits(h, g, j)
<1>1. Carries(FrameOf(h)) /\ j \in Jobs
  BY CarrierFacts DEF Carries
<1>2. \A c \in Places \ {h} : Carries(FrameOf(c)) => FrameOf(c).job # j
  BY <1>1, OnlyCarrier
<1>3. \A c \in Places : Started(FrameOf(c)) => Carries(FrameOf(c))
  BY CarrierFacts
<1>4. CallOK(g)'
  BY DEF CallOK, AtPoint, Claims, Started
<1> QED BY <1>2, <1>3, <1>4 DEF Fits, Claims, Started

(* What is known of a job whose execution is the innermost call.             *)
LEMMA ExecutingFacts ==
    ASSUME ExecutionInv, NEW t \in Threads, stack[t] # <<>>, Top(t).op = "execute",
           NEW j, j = Top(t).job
    PROVE  /\ DependencyInv /\ DataType /\ Top(t) \in Frame /\ j \in Jobs /\ j \in Known
           /\ Carries(Top(t)) /\ CallOK(Top(t)) /\ Ready(j, blockedBy) /\ ~IsQueued(j) /\ Top(t).calls = {}
<1>1. PICK h \in Places : FrameOf(h) = Top(t)
  BY CallFacts, TopPlace DEF ExecutionInv
<1>2. Carries(Top(t))
  BY DEF Carries
<1>3. CallOK(Top(t)) /\ j \in Jobs /\ j \in Known /\ Ready(j, blockedBy) /\ ~IsQueued(j)
  BY <1>1, <1>2, CarrierFacts
<1>4. Top(t).calls = {}
  BY <1>3 DEF CallOK, AtPoint
<1>5. DependencyInv /\ DataType /\ Top(t) \in Frame
  BY CallFacts DEF ExecutionInv
<1> QED BY <1>2, <1>3, <1>4, <1>5

(* A job function that ends goes on to the finish of its job.                *)
LEMMA BodyEndsExecution ==
    ASSUME ExecutionInv, NEW t \in Threads, stack[t] # <<>>, Top(t).op = "execute", DataStill,
           NEW s \in Statuses, NEW e \in Jobs \cup {None}, Become(t, FinishCall(Top(t).job, s, e))
    PROVE  ExecutionParts'
<1>1. PICK j : j = Top(t).job
  OBVIOUS
<1>2. j \in Jobs /\ Ready(j, blockedBy) /\ ~IsQueued(j)
  BY <1>1, ExecutingFacts
<1>3. PICK g \in Frame : g = FinishCall(j, s, e)
  BY <1>2 DEF FinishCall, Call, Frame, Statuses
<1>4. Claims(g) /\ g.job = j /\ g.calls = {}
  BY <1>3 DEF FinishCall, Call, Claims
<1>5. Ready(j, blockedBy)' /\ ~IsQueued(j)'
  BY <1>2, StillFacts DEF DataStill
<1>6. \A h \in Places : FrameOf(h) = Top(t) => Fits(h, g, j)
  BY <1>1, <1>4, <1>5, FinishFits
<1>7. Become(t, g)
  BY <1>1, <1>3
<1> QED BY <1>6, <1>7, TurnExecution

(* A step that moves calls only leaves the rest alone.                       *)
LEMMA StackOnlyStill == ASSUME OnlyStackChanges PROVE DataStill
  BY DEF OnlyStackChanges, DataStill, jobVars, linkVars, stateVars, scopeVars, poolVars

(* A job function returns or throws.                                         *)
LEMMA BodiesEnd ==
    ASSUME ExecutionInv, NEW t \in Threads, BodyReturns(t) \/ BodyThrows(t) PROVE ExecutionParts'
<1>1. stack[t] # <<>> /\ Top(t).op = "execute" /\ DataStill
  BY StackOnlyStill DEF BodyReturns, BodyThrows, At
<1>2. CASE BodyReturns(t)
  <2>1. PICK s \in Statuses : Become(t, FinishCall(Top(t).job, s, None))
    BY <1>2 DEF BodyReturns, Statuses
  <2> QED BY <1>1, <2>1, BodyEndsExecution
<1>3. CASE BodyThrows(t)
  <2>1. "Failed" \in Statuses /\ Top(t).job \in Jobs \cup {None}
    BY <1>1, ExecutingFacts DEF Statuses
  <2>2. Become(t, FinishCall(Top(t).job, "Failed", Top(t).job))
    BY <1>3 DEF BodyThrows
  <2> QED BY <1>1, <2>1, <2>2, BodyEndsExecution
<1> QED BY <1>2, <1>3

(* A worker calls the job function it has moved out.                         *)
LEMMA ExecuteCallExecution ==
    ASSUME ExecutionInv, NEW t \in Threads, ExecuteCall(t) PROVE ExecutionParts'
<1>1. stack[t] # <<>> /\ Top(t).op = "execute" /\ Top(t).at = "call" /\ DataStill
  BY StackOnlyStill DEF ExecuteCall, At
<1>2. PICK j : j = Top(t).job
  OBVIOUS
<1>3. /\ DataType /\ Top(t) \in Frame /\ j \in Jobs /\ Carries(Top(t)) /\ CallOK(Top(t))
      /\ Ready(j, blockedBy) /\ ~IsQueued(j) /\ Top(t).calls = {} /\ Started(Top(t))
  BY <1>1, <1>2, ExecutingFacts DEF Started
<1>4. CASE j \in hasFunction
  <2>1. PICK f \in Frame : f = [Top(t) EXCEPT !.at = "body", !.todo = shape[j].awaits]
    <3>1. shape[j].awaits \subseteq Jobs
      BY <1>3 DEF DataType, Shape
    <3> QED BY <1>3, <3>1 DEF Frame
  <2>2. f.op = "execute" /\ f.at = "body" /\ f.job = j /\ f.calls = {}
    BY <1>1, <1>2, <1>3, <2>1 DEF Frame
  <2>3. Become(t, f)
    BY <1>2, <1>4, <2>1 DEF ExecuteCall
  <2>4. CallOK(f)'
    <3>1. Ready(j, blockedBy)' /\ ~IsQueued(j)' /\ status' = status
      BY <1>1, <1>3, StillFacts DEF DataStill
    <3>2. status[j] = "Running" \/ (j \in MayRunOut /\ IsTerminal(status[j]))
      BY <1>2, <1>3 DEF CallOK
    <3> QED BY <2>2, <3>1, <3>2 DEF CallOK, AtPoint
  <2>5. ASSUME NEW h \in Places, FrameOf(h) = Top(t) PROVE Fits(h, f, j)
    <3>1. \A c \in Places \ {h} : Carries(FrameOf(c)) => FrameOf(c).job # j
      BY <1>2, <1>3, <2>5, OnlyCarrier
    <3>2. j \in MayRunOut \/ \A c \in Places : Claims(FrameOf(c)) => FrameOf(c).job # j
      BY <1>2, <1>3, <2>5, NoClaim
    <3> QED BY <2>2, <2>4, <3>1, <3>2 DEF Fits, Claims
  <2> QED BY <1>1, <2>3, <2>5, TurnExecution
<1>5. CASE j \notin hasFunction
  <2>1. "Failed" \in Statuses /\ j \in Jobs \cup {None}
    BY <1>3 DEF Statuses
  <2>2. Become(t, FinishCall(Top(t).job, "Failed", j))
    BY <1>2, <1>5 DEF ExecuteCall
  <2> QED BY <1>1, <2>1, <2>2, BodyEndsExecution
<1> QED BY <1>4, <1>5

(* A worker begins the job it took, or finds it over.                        *)
LEMMA ExecuteBeginExecution ==
    ASSUME ExecutionInv, NEW t \in Threads, ExecuteBegin(t) PROVE ExecutionParts'
<1>1. /\ stack[t] # <<>> /\ Top(t).op = "execute" /\ Top(t).at = "begin" /\ RequestsStill
      /\ UNCHANGED <<hasFunction, blockedBy, registered, queue>>
  BY DEF ExecuteBegin, At, jobVars, linkVars, scopeVars, poolVars, RequestsStill
<1>2. PICK j : j = Top(t).job
  OBVIOUS
<1>3. /\ DependencyInv /\ DataType /\ Top(t) \in Frame /\ j \in Jobs /\ j \in Known /\ Carries(Top(t))
      /\ CallOK(Top(t)) /\ Ready(j, blockedBy) /\ ~IsQueued(j) /\ Top(t).calls = {} /\ QueuedOrOver(j)
      /\ StatesOK
  <2>1. /\ DependencyInv /\ DataType /\ Top(t) \in Frame /\ j \in Jobs /\ j \in Known /\ Carries(Top(t))
        /\ CallOK(Top(t)) /\ Ready(j, blockedBy) /\ ~IsQueued(j) /\ Top(t).calls = {}
    BY <1>1, <1>2, ExecutingFacts
  <2> QED BY <1>1, <1>2, <2>1 DEF CallOK, ExecutionInv
<1>4. CASE IsTerminal(status[j])
  <2>1. Return(t) /\ DataStill
    BY <1>1, <1>2, <1>4 DEF ExecuteBegin, DataStill, RequestsStill
  <2> QED BY <1>1, <2>1, LeaveExecution
<1>5. CASE ~IsTerminal(status[j])
  <2>1. /\ status' = [status EXCEPT ![j] = "Running"] /\ status[j] = "Queued"
        /\ Become(t, IF j \notin cancelRequested /\ ~ScopeStops(j) THEN [Top(t) EXCEPT !.at = "call"]
                                                                   ELSE FinishCall(j, "Cancelled", None))
    BY <1>2, <1>3, <1>5 DEF ExecuteBegin, QueuedOrOver
  <2>2. status'[j] = "Running" /\ \A k \in Jobs \ {j} : status'[k] = status[k]
    BY <1>3, <2>1 DEF DataType
  <2>3. Ready(j, blockedBy)' /\ ~IsQueued(j)'
    BY <1>1, <1>3, StillFacts
  <2>4. ASSUME NEW f \in Frame, Become(t, f), \A h \in Places : FrameOf(h) = Top(t) => Fits(h, f, j)
        PROVE  CallsInv'
    <3>1. PICK h : Turning(t, h, f)
      BY <1>1, <1>3, <2>4, CallFacts, BecomePlaces
    <3>2. h \in Places /\ FrameOf(h) = Top(t) /\ FrameOf(h)' = f /\ \A c \in Places' \ {h} : Kept(c)
      BY <3>1 DEF Turning, Kept
    <3>3. Fits(h, f, j)
      BY <2>4, <3>2
    <3>4. \A c \in Places \ {h} : Carries(FrameOf(c)) /\ FrameOf(c).job = j => StillCarries(FrameOf(c))
      BY <1>2, <1>3, <3>2, OnlyCarrier
    <3>5. \A k \in Jobs \ {j} : /\ status'[k] = status[k] /\ (Ready(k, blockedBy) => Ready(k, blockedBy)')
                                /\ (IsQueued(k)' => IsQueued(k))
      BY <1>1, <2>2, StillFacts
    <3>6. Onward
      BY <1>1, StillFacts
    <3> QED BY <3>2, <3>3, <3>4, <3>5, <3>6, JobStep
  <2>5. CallsInv'
    <3>1. CASE j \notin cancelRequested /\ ~ScopeStops(j)
      <4>1. PICK f \in Frame : f = [Top(t) EXCEPT !.at = "call"]
        BY <1>3 DEF Frame
      <4>2. f.op = "execute" /\ f.at = "call" /\ f.job = j /\ f.calls = {}
        BY <1>1, <1>2, <1>3, <4>1 DEF Frame
      <4>3. Become(t, f)
        BY <2>1, <3>1, <4>1
      <4>4. CallOK(f)'
        BY <2>2, <2>3, <4>2 DEF CallOK, AtPoint
      <4>5. ASSUME NEW h \in Places, FrameOf(h) = Top(t) PROVE Fits(h, f, j)
        <5>1. \A c \in Places \ {h} : Carries(FrameOf(c)) => FrameOf(c).job # j
          BY <1>2, <1>3, <4>5, OnlyCarrier
        <5>2. j \in MayRunOut \/ \A c \in Places \ {h} : Claims(FrameOf(c)) => FrameOf(c).job # j
          BY <3>1, <5>1 DEF Carries, Stopped
        <5> QED BY <4>2, <4>4, <5>1, <5>2 DEF Fits, Claims
      <4> QED BY <2>4, <4>3, <4>5
    <3>2. CASE ~(j \notin cancelRequested /\ ~ScopeStops(j))
      <4>1. PICK g \in Frame : g = FinishCall(j, "Cancelled", None)
        BY <1>3 DEF FinishCall, Call, Frame, Statuses
      <4>2. Claims(g) /\ g.job = j /\ g.calls = {}
        BY <4>1 DEF FinishCall, Call, Claims
      <4>3. Become(t, g)
        BY <2>1, <3>2, <4>1
      <4>4. \A h \in Places : FrameOf(h) = Top(t) => Fits(h, g, j)
        BY <1>1, <1>2, <2>3, <4>2, FinishFits
      <4> QED BY <2>4, <4>3, <4>4
    <3> QED BY <3>1, <3>2
  <2>6. StatesOK'
    <3>1. \A k \in Jobs : k \in hasFunction' <=> StillPending(k)'
      BY <1>1, <1>3, <2>1, <2>2 DEF StatesOK, StillPending
    <3>2. \A k \in Known' : status'[k] # "Unsubmitted"
      BY <1>1, <1>3, <2>2, StillFacts DEF StatesOK, Known
    <3>3. \A k \in Jobs \ {j} : QueuedOrOver(k) => QueuedOrOver(k)'
      BY <2>2 DEF QueuedOrOver
    <3>4. \A lane \in Lanes : \A k \in queue'[lane] : lane = Lane(k)' /\ QueuedOrOver(k)'
      BY <1>1, <1>3, <3>3, CarrierFacts DEF StatesOK, Lane, RequestsStill, IsQueued
    <3> QED BY <3>1, <3>2, <3>4 DEF StatesOK
  <2> QED BY <2>5, <2>6 DEF ExecutionParts, CallsInv
<1> QED BY <1>4, <1>5

(* A call of Submit stands in no other call's way.                           *)
LEMMA SubmitBystander ==
    ASSUME NEW f, f.op = "submit", f.at \in {"register", "return"}, f.calls = {}
    PROVE  Bystander(f) /\ \A h, j : Fits(h, f, j)
  BY DEF Bystander, Fits, CallOK, AtPoint, Carries, Started, Claims

(* A submission stores the job with its state and its dependencies.          *)
LEMMA SubmitBeginExecution ==
    ASSUME ExecutionInv, NEW t \in Threads, NEW sh, SubmitBegin(t, sh) PROVE ExecutionParts'
<1>1. /\ DependencyInv /\ DataType /\ StatesOK /\ JobsOK /\ accepting
      /\ UNCHANGED <<blockedBy, registered, queue, cancelRequested, scopeCancelled, accepting>>
  BY InvParts, TypePart DEF ExecutionInv, SubmitBegin, linkVars, scopeVars, poolVars
<1>2. PICK j \in Jobs : j = next
  BY <1>1, JobSystemAssumption DEF SubmitBegin, DataType, Jobs
<1>3. /\ next' = j + 1 /\ shape' = [shape EXCEPT ![j] = sh]
      /\ status' = [status EXCEPT ![j] = "Waiting"] /\ hasFunction' = hasFunction \cup {j}
  BY <1>2 DEF SubmitBegin
<1>4. PICK todo : /\ todo \subseteq Jobs
                  /\ Enter(t, [Call("submit", "register", j) EXCEPT !.todo = todo])
  <2>1. PICK before \in SUBSET {lastSimulation} :
            /\ deps' = [deps EXCEPT ![j] = sh.needs \cup before]
            /\ Enter(t, [Call("submit", "register", j) EXCEPT !.todo = sh.needs \cup before])
    BY <1>2 DEF SubmitBegin
  <2>2. deps'[j] \subseteq Jobs
    BY SubmitBeginInv, <1>1, CallFacts DEF DataType, DependencyInv, TypeOK
  <2>3. deps'[j] = sh.needs \cup before
    BY <1>1, <2>1 DEF DataType
  <2> QED BY <2>1, <2>2, <2>3
<1>5. PICK f \in Frame : f = [Call("submit", "register", j) EXCEPT !.todo = todo]
  BY <1>4 DEF Call, Frame, Statuses
<1>6. f.op = "submit" /\ f.at = "register" /\ f.calls = {}
  BY <1>5 DEF Call
<1>7. PICK a : Entering(t, a, f)
  BY <1>1, <1>4, <1>5, CallFacts, EnterPlaces
<1>8. a \notin Places /\ FrameOf(a)' = f /\ \A c \in Places' \ {a} : Kept(c)
  BY <1>7 DEF Entering, Kept
<1>9. /\ j \notin Known /\ Known' = Known \cup {j} /\ status[j] = "Unsubmitted" /\ ~Ready(j, blockedBy)
      /\ ~IsQueued(j)
  <2>1. j \notin Known /\ Known' = Known \cup {j}
    BY <1>1, <1>2, <1>3, JobSystemAssumption DEF Known, DataType, Jobs
  <2> QED BY <1>1, <2>1, InvParts, CarrierFacts DEF JobsOK, Ready
<1>10. status'[j] = "Waiting" /\ \A k \in Jobs \ {j} : status'[k] = status[k] /\ shape'[k] = shape[k]
  BY <1>1, <1>3 DEF DataType
<1>11. Onward
  <2>1. \A k \in Known : Stopped(k) => Stopped(k)'
    BY <1>1, <1>9, <1>10 DEF Stopped, ScopeStops, Known
  <2> QED BY <1>1, <1>9, <2>1 DEF Onward
<1>12. CallsInv'
  <2>1. \A c \in Places : Carries(FrameOf(c)) => FrameOf(c).job # j
    BY <1>9, CarrierFacts
  <2>2. \A k \in Jobs \ {j} : /\ status'[k] = status[k] /\ (Ready(k, blockedBy) => Ready(k, blockedBy)')
                              /\ (IsQueued(k)' => IsQueued(k))
    BY <1>1, <1>10, StillFacts
  <2>3. \E g : g = FrameOf(a)' /\ Fits(a, g, j)
    BY <1>6, <1>8, SubmitBystander
  <2> QED BY <1>8, <1>11, <2>1, <2>2, <2>3, JobStep
<1>13. StatesOK'
  <2>1. \A k \in Jobs : k \in hasFunction' <=> StillPending(k)'
    BY <1>1, <1>3, <1>9, <1>10 DEF StatesOK, StillPending
  <2>2. \A k \in Known' : status'[k] # "Unsubmitted"
    BY <1>1, <1>9, <1>10 DEF StatesOK, Known
  <2>3. \A lane \in Lanes : \A k \in queue'[lane] : lane = Lane(k)' /\ QueuedOrOver(k)'
    <3> SUFFICES ASSUME NEW lane \in Lanes, NEW k \in queue[lane]
                 PROVE  lane = Lane(k)' /\ QueuedOrOver(k)'
      BY <1>1
    <3>1. k \in Jobs \ {j}
      BY <1>1, <1>9, CarrierFacts DEF IsQueued
    <3> QED BY <1>1, <1>10, <3>1 DEF StatesOK, Lane, QueuedOrOver
  <2> QED BY <2>1, <2>2, <2>3 DEF StatesOK
<1> QED BY <1>12, <1>13 DEF ExecutionParts, CallsInv

(* What is known of a job while Submit registers it.                         *)
LEMMA RegisteringFacts ==
    ASSUME ExecutionInv, NEW t \in Threads, At(t, "submit", "register"), NEW j, j = Top(t).job
    PROVE  /\ DependencyInv /\ DataType /\ StatesOK /\ stack[t] # <<>> /\ Top(t) \in Frame
           /\ Top(t).op = "submit" /\ Top(t).at = "register" /\ Top(t).calls = {}
           /\ j \in Jobs /\ j \in Known /\ j \notin registered /\ ~Ready(j, blockedBy) /\ ~IsQueued(j)
           /\ \A c \in Places : Carries(FrameOf(c)) \/ Started(FrameOf(c)) => FrameOf(c).job # j
<1>1. /\ DependencyInv /\ DataType /\ StatesOK /\ stack[t] # <<>> /\ Top(t) \in Frame
      /\ Top(t).op = "submit" /\ Top(t).at = "register" /\ FrameOK(t, Top(t))
  BY CallFacts DEF ExecutionInv, At
<1>2. j \in Jobs /\ j \in Known /\ j \notin registered /\ ~Ready(j, blockedBy)
  BY <1>1 DEF FrameOK, Known, Ready
<1>3. ~IsQueued(j) /\ \A c \in Places : Carries(FrameOf(c)) \/ Started(FrameOf(c)) => FrameOf(c).job # j
  BY <1>2, CarrierFacts
<1>4. Top(t).calls = {}
  <2>1. PICK h \in Places : FrameOf(h) = Top(t)
    BY <1>1, CallFacts, TopPlace
  <2>2. CallOK(Top(t))
    BY <2>1, CarrierFacts
  <2> QED BY <1>1, <2>2 DEF CallOK, AtPoint
<1> QED BY <1>1, <1>2, <1>3, <1>4

(* A submission registers with one dependency.                               *)
LEMMA RegisterDependencyExecution ==
    ASSUME ExecutionInv, NEW t \in Threads, NEW d \in Jobs, RegisterDependency(t, d) PROVE ExecutionParts'
<1>1. PICK j : j = Top(t).job
  OBVIOUS
<1>2. /\ DependencyInv /\ DataType /\ StatesOK /\ stack[t] # <<>> /\ Top(t) \in Frame
      /\ Top(t).op = "submit" /\ Top(t).at = "register" /\ Top(t).calls = {}
      /\ j \in Jobs /\ ~IsQueued(j)
      /\ \A c \in Places : Carries(FrameOf(c)) => FrameOf(c).job # j
  BY <1>1, RegisteringFacts DEF RegisterDependency
<1>3. RequestsStill /\ UNCHANGED <<status, hasFunction, registered, queue>>
  BY DEF RegisterDependency, jobVars, scopeVars, poolVars, RequestsStill
<1>4. \A k \in Jobs \ {j} : blockedBy'[k] = blockedBy[k]
  BY <1>1, <1>2 DEF RegisterDependency, linkVars, DataType
<1>5. PICK f \in Frame : f = [Top(t) EXCEPT !.todo = Top(t).todo \ {d}]
  BY <1>2 DEF Frame
<1>6. f.op = "submit" /\ f.at = "register" /\ f.calls = {}
  BY <1>2, <1>5 DEF Frame
<1>7. Become(t, f)
  BY <1>5 DEF RegisterDependency
<1>8. PICK h : Turning(t, h, f)
  BY <1>2, <1>7, CallFacts, BecomePlaces
<1>9. FrameOf(h)' = f /\ \A c \in Places' \ {h} : Kept(c)
  BY <1>8 DEF Turning, Kept
<1>10. CallsInv'
  <2>1. \A k \in Jobs \ {j} : Ready(k, blockedBy) => Ready(k, blockedBy)'
    BY <1>3, <1>4 DEF Ready
  <2>2. \A k \in Jobs \ {j} : /\ status'[k] = status[k] /\ (Ready(k, blockedBy) => Ready(k, blockedBy)')
                              /\ (IsQueued(k)' => IsQueued(k))
    BY <1>3, <2>1, StillFacts
  <2>3. \E g : g = FrameOf(h)' /\ Fits(h, g, j)
    BY <1>6, <1>9, SubmitBystander
  <2>4. Onward
    BY <1>3, StillFacts
  <2> QED BY <1>2, <1>9, <2>2, <2>3, <2>4, JobStep
<1>11. StatesOK'
  BY <1>2, <1>3 DEF StatesOK, RequestsStill, Known, StillPending, Lane, QueuedOrOver
<1> QED BY <1>10, <1>11 DEF ExecutionParts, CallsInv

(* Submit's registration ends, and passes the job on if it is ready.         *)
LEMMA RegisterEndsExecution ==
    ASSUME ExecutionInv, NEW t \in Threads, At(t, "submit", "register"), NEW j, j = Top(t).job,
           registered' = registered \cup {j}, cancelRequested \subseteq cancelRequested',
           UNCHANGED <<next, shape, scopeCancelled, accepting, status, hasFunction, blockedBy, queue>>,
           \/ Become(t, Call("submit", "return", j))
           \/ \E g \in Frame : /\ BecomeAndEnter(t, Call("submit", "return", j), g)
                               /\ g.job = j /\ g.calls = {}
                               /\ \/ Claims(g) /\ (j \in MayRunOut \/ blockedBy[j] = {})
                                  \/ g.op = "enqueue" /\ g.at = "claim" /\ blockedBy[j] = {}
    PROVE  ExecutionParts'
<1>1. /\ DependencyInv /\ DataType /\ StatesOK /\ stack[t] # <<>> /\ j \in Jobs /\ ~IsQueued(j)
      /\ \A c \in Places : Carries(FrameOf(c)) \/ Started(FrameOf(c)) => FrameOf(c).job # j
  BY RegisteringFacts
<1>2. Onward
  BY DEF Onward, Known, Stopped, ScopeStops
<1>3. \A k \in Jobs \ {j} : /\ status'[k] = status[k] /\ (Ready(k, blockedBy) => Ready(k, blockedBy)')
                            /\ (IsQueued(k)' => IsQueued(k))
  BY StillFacts DEF Ready
<1>4. StatesOK'
  BY <1>1 DEF StatesOK, Known, StillPending, Lane, QueuedOrOver
<1>5. PICK f \in Frame : f = Call("submit", "return", j)
  BY <1>1 DEF Call, Frame, Statuses
<1>6. Bystander(f) /\ \A h, k : Fits(h, f, k)
  BY <1>5, SubmitBystander DEF Call
<1>7. CASE Become(t, f)
  <2>1. PICK h : Turning(t, h, f)
    BY <1>1, <1>7, CallFacts, BecomePlaces
  <2>2. FrameOf(h)' = f /\ \A c \in Places' \ {h} : Kept(c)
    BY <2>1 DEF Turning, Kept
  <2>3. \E b : b = FrameOf(h)' /\ Fits(h, b, j)
    BY <1>6, <2>2
  <2>4. CallsInv'
    BY <1>1, <1>2, <1>3, <2>2, <2>3, JobStep
  <2> QED BY <1>4, <2>4 DEF ExecutionParts, CallsInv
<1>8. ASSUME NEW g \in Frame, BecomeAndEnter(t, f, g), g.job = j, g.calls = {},
             \/ Claims(g) /\ (j \in MayRunOut \/ blockedBy[j] = {})
             \/ g.op = "enqueue" /\ g.at = "claim" /\ blockedBy[j] = {}
      PROVE  ExecutionParts'
  <2>1. PICK h, a : Calling(t, h, a, f, g)
    BY <1>1, <1>8, CallFacts, CallPlaces
  <2>2. /\ h \in Places /\ a \notin Places /\ FrameOf(h)' = f /\ FrameOf(a)' = g
        /\ \A c \in Places' \ {a} : Kept(c) \/ c = h
    BY <2>1 DEF Calling, Kept
  <2>3. Fits(a, g, j)
    <3>1. Carries(g)' => Ready(j, blockedBy)'
      BY <1>8 DEF Carries, Ready, Claims
    <3>2. ~IsQueued(j)'
      BY <1>1, StillFacts
    <3>3. CallOK(g)'
      BY <1>8, <3>1, <3>2 DEF CallOK, AtPoint, Claims, Started
    <3> QED BY <1>1, <1>8, <3>3 DEF Fits, Claims, Started
  <2>4. CallsInv'
    <3>1. \A c \in Places' \ {a} : Kept(c) \/ (c \in Places /\ \E b : (b = FrameOf(c)' /\ Bystander(b)))
      BY <1>6, <2>2
    <3>2. \E b : b = FrameOf(a)' /\ Fits(a, b, j)
      BY <2>2, <2>3
    <3> QED BY <1>1, <1>2, <1>3, <3>1, <3>2, JobStep
  <2> QED BY <1>4, <2>4 DEF ExecutionParts, CallsInv
<1> QED BY <1>5, <1>7, <1>8

(* A submission registers and then enqueues.                                 *)
LEMMA RegistersExecution ==
    ASSUME ExecutionInv, NEW t \in Threads, RegisterDone(t) \/ RegisterThrows(t) PROVE ExecutionParts'
<1>1. At(t, "submit", "register")
  BY DEF RegisterDone, RegisterThrows
<1>2. PICK j : j = Top(t).job
  OBVIOUS
<1>3. DataType /\ j \in Jobs
  BY <1>1, <1>2, RegisteringFacts
<1>4. /\ registered' = registered \cup {j} /\ cancelRequested \subseteq cancelRequested'
      /\ UNCHANGED <<next, shape, scopeCancelled, accepting, status, hasFunction, blockedBy, queue>>
  BY <1>2 DEF RegisterDone, RegisterThrows, linkVars, stateVars, scopeVars, poolVars
<1>5. \A e \in Jobs \cup {None} : LET g == FinishCall(j, "Cancelled", e)
                                  IN g \in Frame /\ g.job = j /\ g.calls = {} /\ Claims(g)
  BY <1>3 DEF FinishCall, Call, Frame, Statuses, Claims
<1>6. LET g == Call("enqueue", "claim", j)
      IN g \in Frame /\ g.job = j /\ g.calls = {} /\ g.op = "enqueue" /\ g.at = "claim"
  BY <1>3 DEF Call, Frame, Statuses
<1>7. \/ Become(t, Call("submit", "return", j))
      \/ \E g \in Frame : /\ BecomeAndEnter(t, Call("submit", "return", j), g)
                          /\ g.job = j /\ g.calls = {}
                          /\ \/ Claims(g) /\ (j \in MayRunOut \/ blockedBy[j] = {})
                             \/ g.op = "enqueue" /\ g.at = "claim" /\ blockedBy[j] = {}
  <2>1. CASE RegisterThrows(t)
    <3>1. j \in MayRunOut /\ BecomeAndEnter(t, Call("submit", "return", j), FinishCall(j, "Cancelled", j))
      BY <1>2, <2>1 DEF RegisterThrows
    <3> QED BY <1>3, <1>5, <3>1
  <2>2. CASE RegisterDone(t)
    <3>1. \/ Become(t, Call("submit", "return", j))
          \/ /\ blockedBy[j] = {}
             /\ BecomeAndEnter(t, Call("submit", "return", j), FinishCall(j, "Cancelled", depFailure[j]))
          \/ /\ blockedBy[j] = {}
             /\ BecomeAndEnter(t, Call("submit", "return", j), Call("enqueue", "claim", j))
      BY <1>2, <2>2 DEF RegisterDone
    <3>2. depFailure[j] \in Jobs \cup {None}
      BY <1>3 DEF DataType
    <3> QED BY <1>5, <1>6, <3>1, <3>2
  <2> QED BY <2>1, <2>2
<1> QED BY <1>1, <1>2, <1>4, <1>7, RegisterEndsExecution

(* Ending a job that has not started.                                        *)
LEMMA EndsExecution == ASSUME ExecutionInv, Ends PROVE ExecutionParts'
<1>1. PICK p : \E j \in Jobs : EndsAt(p, j)
  BY DEF Ends
<1>2. PICK j \in Jobs : EndsAt(p, j)
  BY <1>1
<1>3. /\ DataStill /\ j \in cancelRequested /\ status[j] \in {"Waiting", "Queued"}
      /\ UNCHANGED <<status, blockedBy, registered, queue>>
  BY <1>2 DEF EndsAt, jobVars, linkVars, stateVars, DataStill
<1>4. PICK g : g = FinishCall(j, "Cancelled", None)
  OBVIOUS
<1>5. g.calls = {} /\ g.job = j /\ Claims(g) /\ FrameOf(p)' = g
  BY <1>2, <1>4 DEF FinishCall, Call, Claims, EndsAt
<1>6. Fits(p, g, j)
  <2>1. Stopped(j)'
    BY <1>3, StillFacts DEF Stopped
  <2>2. CallOK(g)' /\ ~Carries(g)'
    BY <1>5, <2>1 DEF CallOK, AtPoint, Carries, Claims, Started
  <2>3. \A c \in Places : Started(FrameOf(c)) => FrameOf(c).job # j
    BY <1>3, CarrierFacts DEF CallOK, IsTerminal
  <2> QED BY <1>5, <2>2, <2>3 DEF Fits, Claims, Started
<1>7. ASSUME NEW c \in Places' \ {p}, ~Kept(c)
      PROVE  c \in Places /\ \E b : (b = FrameOf(c)' /\ Bystander(b))
  <2>1. c \in Places /\ Sweeps(FrameOf(c)) /\ FrameOf(c)' = [FrameOf(c) EXCEPT !.todo = FrameOf(c).todo \ {j}]
    BY <1>2, <1>7 DEF EndsAt, Kept
  <2>2. PICK f, b : f = FrameOf(c) /\ b = FrameOf(c)'
    OBVIOUS
  <2>3. f \in Frame /\ CallOK(f)
    BY <2>1, <2>2, CarrierFacts
  <2>4. b.op = "close" /\ b.at = "sweep" /\ b.todo \subseteq f.todo /\ b.calls = f.calls
    BY <2>1, <2>2, <2>3 DEF Frame, Sweeps
  <2>5. f.op = "close" /\ f.at = "sweep"
    BY <2>1, <2>2 DEF Sweeps
  <2>6. CallOK(b)'
    BY <1>3, <2>3, <2>4, <2>5 DEF CallOK, Carries, Claims, Started, AtPoint, DataStill
  <2> QED BY <2>1, <2>2, <2>4, <2>6 DEF Bystander, Carries, Claims, Started
<1>8. \A k \in Jobs \ {j} : /\ status'[k] = status[k] /\ (Ready(k, blockedBy) => Ready(k, blockedBy)')
                            /\ (IsQueued(k)' => IsQueued(k))
  BY <1>3, StillFacts
<1>9. Onward /\ StatesOK'
  BY <1>3, StillFacts DEF ExecutionInv
<1>10. \A c \in Places \ {p} : Carries(FrameOf(c)) /\ FrameOf(c).job = j => StillCarries(FrameOf(c))
  BY <1>3, CarrierStays
<1>11. CallsInv'
  <2>1. \A c \in Places' \ {p} : Kept(c) \/ (c \in Places /\ \E b : (b = FrameOf(c)' /\ Bystander(b)))
    BY <1>7
  <2>2. \E b : b = FrameOf(p)' /\ Fits(p, b, j)
    BY <1>5, <1>6
  <2> QED BY <1>8, <1>9, <1>10, <2>1, <2>2, JobStep
<1> QED BY <1>9, <1>11 DEF ExecutionParts, CallsInv

-----------------------------------------------------------------------------
(* Every step is of one of these kinds. *)

(* Steps of the calls that submit, queue, execute and finish jobs.           *)
Submits(t) ==
    \/ \E sh \in UNION {Shapes[j] : j \in Jobs} : SubmitBegin(t, sh)
    \/ \E d \in Jobs : RegisterDependency(t, d)
    \/ RegisterDone(t) \/ RegisterThrows(t)
Finishes(t) == FinishClaim(t) \/ FinishSettle(t) \/ \E d \in Jobs : FinishRelease(t, d)
Helps(t) == WaitCheck(t) /\ ~Complete(Top(t).job) /\ CanHelp(t)
Executions(t) ==
    \/ EnqueueClaim(t) \/ EnqueuePublish(t) \/ Take(t) \/ Helps(t)
    \/ ExecuteBegin(t) \/ ExecuteCall(t) \/ BodyReturns(t) \/ BodyThrows(t)

(* The kinds of steps cover the next-state relation.                         *)
LEMMA StepKinds ==
    ASSUME ExecutionInv, [Next]_vars
    PROVE  Quiet \/ Ends \/ \E t \in Threads : Submits(t) \/ Finishes(t) \/ Executions(t)
<1>1. CASE UNCHANGED vars
  BY <1>1, StutterQuiet
<1>2. ASSUME NEW t \in Threads, Request(t) PROVE Quiet \/ Submits(t)
  <2>1. CASE \E sh \in UNION {Shapes[j] : j \in Jobs} : SubmitBegin(t, sh)
    BY <2>1 DEF Submits
  <2>2. CASE \E j \in Jobs : ClientWaits(t, j) \/ Cancel(t, j)
    BY <2>2, ClientsQuiet
  <2>3. CASE \E j \in Jobs : \E c \in Callbacks : OnComplete(t, j, c)
    BY <2>3, CallbacksQuiet
  <2>4. CASE ScopeCancel(t) \/ ScopeWait(t)
    BY <2>4, ClientsQuiet
  <2>5. CASE SetDeterministicSimulation(t)
    BY <2>5, PoolQuiet
  <2>6. CASE Close(t)
    BY <2>6, CloseQuiet
  <2> QED BY <1>2, <2>1, <2>2, <2>3, <2>4, <2>5, <2>6 DEF Request
<1>3. ASSUME NEW t \in Threads, Step(t)
      PROVE  Quiet \/ Ends \/ Submits(t) \/ Finishes(t) \/ Executions(t)
  <2>1. ASSUME NEW d \in Jobs, \/ RegisterDependency(t, d) \/ FinishRelease(t, d) \/ BodyWaits(t, d)
                               \/ ScopeCancelFlag(t, d) \/ ScopeWaitEach(t, d)
        PROVE  Quiet \/ Submits(t) \/ Finishes(t)
    BY <2>1, CallsQuiet DEF Submits, Finishes
  <2>2. ASSUME NEW d \in Jobs, CloseFlag(t, d) PROVE Quiet
    BY <2>2, CloseTurnsQuiet
  <2>3. ASSUME NEW d \in Jobs, CloseSweep(t, d) PROVE Quiet \/ Ends
    BY <2>3, CloseTurnsQuiet, SweepEnds
  <2>4. CASE \E c \in Callbacks : RunCallback(t, c)
    BY <2>4, CallbacksQuiet
  <2>5. CASE (\E w \in Pool : CloseRequestStop(t, w)) \/ WorkerExit(t)
    BY <2>5, PoolQuiet
  <2>6. CASE RegisterDone(t) \/ RegisterThrows(t) \/ FinishClaim(t) \/ FinishSettle(t)
    BY <2>6 DEF Submits, Finishes
  <2>7. CASE SubmitReturn(t) \/ WaitWake(t) \/ ScopeReturn(t)
    BY <2>7, ReturnsQuiet
  <2>8. CASE FinishCallbacks(t)
    BY <2>8, CallbacksQuiet
  <2>9. CASE \/ EnqueueClaim(t) \/ EnqueuePublish(t) \/ Take(t)
             \/ ExecuteBegin(t) \/ ExecuteCall(t) \/ BodyReturns(t) \/ BodyThrows(t)
    BY <2>9 DEF Executions
  <2>10. CASE WaitCheck(t)
    <3>1. ~Complete(Top(t).job) /\ CanHelp(t) => Executions(t)
      BY <2>10 DEF Executions, Helps
    <3>2. ~(~Complete(Top(t).job) /\ CanHelp(t)) => queue' = queue
      BY <2>10 DEF WaitCheck
    <3> QED BY <2>10, <3>1, <3>2, ReturnsQuiet
  <2>11. CASE CancelLook(t) \/ ScopeCancelLook(t)
    BY <2>11, ReturnsQuiet, LooksEnd
  <2>12. CASE Close(t)
    BY <2>12, CloseQuiet
  <2>13. CASE ScopeCollect(t) \/ CloseJoin(t) \/ CloseReturn(t)
    BY <2>13, CollectQuiet, CloseTurnsQuiet, CloseReturnQuiet
  <2> QED BY <1>3, <2>1, <2>2, <2>3, <2>4, <2>5, <2>6, <2>7, <2>8, <2>9, <2>10, <2>11, <2>12, <2>13 DEF Step
<1>4. ASSUME Next PROVE Quiet \/ Ends \/ \E t \in Threads : Submits(t) \/ Finishes(t) \/ Executions(t)
  <2>1. PICK t \in Threads : Step(t) \/ Request(t)
    BY <1>4 DEF Next
  <2> QED BY <1>2, <1>3, <2>1
<1> QED BY <1>1, <1>4

(* Every step keeps the dependency invariant.                                *)
LEMMA DependencyStep == ASSUME DependencyInv, [Next]_vars PROVE DependencyInv'
  BY StepInv, RequestInv, StutterInv DEF Next

(* Every step keeps the execution invariant.                                 *)
LEMMA ExecutionStep == ASSUME ExecutionInv, [Next]_vars PROVE ExecutionInv'
<1>1. DependencyInv'
  BY DependencyStep DEF ExecutionInv
<1>2. ExecutionParts'
  <2>1. CASE Quiet
    BY <2>1, QuietExecution
  <2>2. CASE Ends
    BY <2>2, EndsExecution
  <2>3. ASSUME NEW t \in Threads, Submits(t) PROVE ExecutionParts'
    BY <2>3, SubmitBeginExecution, RegisterDependencyExecution, RegistersExecution DEF Submits
  <2>4. ASSUME NEW t \in Threads, Finishes(t) PROVE ExecutionParts'
    BY <2>4, FinishClaimExecution, FinishSettleExecution, FinishReleaseExecution DEF Finishes
  <2>5. ASSUME NEW t \in Threads, Executions(t) PROVE ExecutionParts'
    <3>1. CASE EnqueueClaim(t) \/ EnqueuePublish(t)
      BY <3>1, EnqueueClaimExecution, EnqueuePublishExecution
    <3>2. CASE Take(t) \/ Helps(t)
      BY <3>2, WorkerTakes, WaiterTakes DEF Helps
    <3>3. CASE ExecuteBegin(t) \/ ExecuteCall(t) \/ BodyReturns(t) \/ BodyThrows(t)
      BY <3>3, ExecuteBeginExecution, ExecuteCallExecution, BodiesEnd
    <3> QED BY <2>5, <3>1, <3>2, <3>3 DEF Executions
  <2> QED BY <2>1, <2>2, <2>3, <2>4, <2>5, StepKinds
<1> QED BY <1>1, <1>2 DEF ExecutionInv, ExecutionParts

(* A new JobSystem has no calls in progress.                                 *)
LEMMA NoPlaces == ASSUME Init PROVE Places = {}
  BY DEF Init, Places

(* It holds at the start.                                                    *)
LEMMA ExecutionInit == ASSUME Init PROVE ExecutionInv
<1>1. CallsOK /\ OneCarrier /\ NoLateFinish
  BY NoPlaces DEF CallsOK, OneCarrier, NoLateFinish
<1>2. StatesOK
  BY JobSystemAssumption DEF Init, StatesOK, StillPending, Known, Lanes, Jobs
<1> QED BY <1>1, <1>2, InitInv DEF ExecutionInv

(* From the moment a job is ready one call at a time carries it, and a late  *)
(* FinishJob that a cancellation made finds it over.                         *)
THEOREM ExecutionInvariant == Spec => []ExecutionInv
  BY ExecutionInit, ExecutionStep, PTL DEF Spec

(* The worker that runs a job's function has it until the function returns:  *)
(* no Cancel, JobScope::Cancel or Close that read an older status ends the   *)
(* job under it or takes the function away, whatever the number of jobs,     *)
(* threads and clients.                                                      *)
THEOREM FunctionsOutliveCalls == Spec => []FunctionOutlivesCall
<1>1. ASSUME ExecutionInv PROVE FunctionOutlivesCall
  <2> SUFFICES ASSUME NEW j \in Jobs \ MayRunOut, NEW c \in Calls("execute"),
                      FrameOf(c).at = "body", FrameOf(c).job = j
               PROVE  status[j] = "Running" /\ j \in hasFunction
    BY DEF FunctionOutlivesCall, Executes
  <2>1. Started(FrameOf(c)) /\ CallOK(FrameOf(c))
    BY <1>1, CarrierFacts DEF Calls, Started
  <2> QED BY <1>1, <2>1 DEF CallOK, ExecutionInv, StatesOK, StillPending
<1> QED BY ExecutionInvariant, <1>1, PTL

-----------------------------------------------------------------------------
(* Who is told of a failure. *)

(* A dependency of j reaches it, and so does what reaches the dependency.    *)
LEMMA ReachesDirectly ==
    ASSUME FailureInv, NEW j \in Jobs, NEW d \in deps[j] PROVE Reaches(d, j)
<1>1. j \in 1..JobCount /\ d \in 1..(j - 1) /\ d \in Jobs /\ JobCount \in Nat
  BY JobSystemAssumption DEF FailureInv, FailuresOK, Jobs
<1>2. PICK path : path = [i \in 1..2 |-> IF i = 1 THEN d ELSE j]
  OBVIOUS
<1>3. PICK n \in 1..(j - d) : n = 1
  BY <1>1
<1>4. path \in [1..(n + 1) -> Jobs] /\ path[1] = d /\ path[n + 1] = j
  BY <1>1, <1>2, <1>3
<1>5. \A i \in 1..n : path[i] \in deps[path[i + 1]]
  BY <1>3, <1>4
<1> QED BY <1>4, <1>5 DEF Reaches

(* What reaches a dependency of a job reaches the job.                       *)
LEMMA ReachesOn ==
    ASSUME FailureInv, NEW j \in Jobs, NEW d \in deps[j], NEW k \in Jobs, Reaches(k, d) PROVE Reaches(k, j)
<1>1. j \in 1..JobCount /\ d \in 1..(j - 1) /\ d \in Jobs /\ k \in 1..JobCount /\ JobCount \in Nat
  BY JobSystemAssumption DEF FailureInv, FailuresOK, Jobs
<1>2. PICK n \in 1..(d - k) : \E path \in [1..(n + 1) -> Jobs] :
          path[1] = k /\ path[n + 1] = d /\ \A i \in 1..n : path[i] \in deps[path[i + 1]]
  BY DEF Reaches
<1>3. PICK path \in [1..(n + 1) -> Jobs] :
          path[1] = k /\ path[n + 1] = d /\ \A i \in 1..n : path[i] \in deps[path[i + 1]]
  BY <1>2
<1>4. PICK m \in 1..(j - k) : m = n + 1
  BY <1>1
<1>5. PICK longer : longer = [i \in 1..(m + 1) |-> IF i <= m THEN path[i] ELSE j]
  OBVIOUS
<1>6. /\ longer \in [1..(m + 1) -> Jobs] /\ longer[1] = k /\ longer[m + 1] = j /\ longer[m] = d
      /\ \A i \in 1..m : longer[i] = path[i]
  BY <1>1, <1>3, <1>4, <1>5
<1>7. ASSUME NEW i \in 1..m PROVE longer[i] \in deps[longer[i + 1]]
  <2>1. CASE i = m
    BY <1>6, <2>1
  <2>2. CASE i # m
    <3>1. i \in 1..n /\ i + 1 \in 1..m
      BY <1>4, <2>2
    <3> QED BY <1>3, <1>6, <3>1
  <2> QED BY <2>1, <2>2
<1> QED BY <1>6, <1>7 DEF Reaches

(* What j is told by a dependency.                                           *)
LEMMA BlamesOn ==
    ASSUME FailureInv, NEW j \in Jobs, NEW d \in deps[j], NEW e \in Jobs \cup {None}, Blames(d, e)
    PROVE  Blames(j, e)
<1>1. CASE e # None
  <2>1. e \in Jobs /\ Origin(e) /\ (e = d \/ Reaches(e, d))
    BY <1>1 DEF Blames
  <2> QED BY <2>1, ReachesDirectly, ReachesOn DEF Blames
<1> QED BY <1>1 DEF Blames

(* What is known of failures stays known.                                    *)
Told ==
    /\ \A k \in Jobs : deps[k] \subseteq deps'[k]
    /\ \A k \in Jobs : IsTerminal(status[k]) => status'[k] = status[k] /\ failure'[k] = failure[k]
    /\ \A k \in Known : \A ahead : /\ k \in MayRunOut \/ Attached(k, ahead)
                                   /\ Noted(k, ahead)
                                   => Noted(k, ahead)'
    /\ \A k \in Jobs : Ready(k, blockedBy) /\ MayStart(k) => MayStart(k)'

(* A blame stays right, for failures are never taken back.                   *)
LEMMA BlamesStay ==
    ASSUME FailureInv, Told, NEW j \in Jobs, NEW e \in Jobs \cup {None}, Blames(j, e)
    PROVE  Blames(j, e)'
<1> SUFFICES ASSUME e # None PROVE Origin(e)' /\ (e = j \/ Reaches(e, j)')
  BY DEF Blames
<1>1. e \in Jobs /\ Origin(e) /\ (e = j \/ Reaches(e, j))
  BY DEF Blames
<1>2. e # None /\ failure[e] # None
  BY <1>1 DEF Origin
<1>3. status[e] \in {"Failed", "Cancelled"}
  BY <1>1, <1>2 DEF FailureInv, FailuresOK
<1>4. Origin(e)'
  BY <1>1, <1>3 DEF Told, IsTerminal, Origin
<1>5. ASSUME Reaches(e, j) PROVE Reaches(e, j)'
  <2>1. PICK n \in 1..(j - e) : \E path \in [1..(n + 1) -> Jobs] :
            path[1] = e /\ path[n + 1] = j /\ \A i \in 1..n : path[i] \in deps[path[i + 1]]
    BY <1>5 DEF Reaches
  <2>2. PICK path \in [1..(n + 1) -> Jobs] :
            path[1] = e /\ path[n + 1] = j /\ \A i \in 1..n : path[i] \in deps[path[i + 1]]
    BY <2>1
  <2>3. n \in Nat
    <3>1. j - e \in Int
      BY <1>1, JobSystemAssumption DEF Jobs
    <3> QED BY <2>1, <3>1
  <2>4. \A i \in 1..n : path[i + 1] \in Jobs
    BY <2>3
  <2>5. \A i \in 1..n : path[i] \in deps'[path[i + 1]]
    BY <2>2, <2>4 DEF Told
  <2> QED BY <2>2, <2>5 DEF Reaches
<1> QED BY <1>1, <1>4, <1>5

(* Calls that do not go on keep what they know.                              *)
LEMMA BlameStays ==
    ASSUME FailureInv, Told, NEW c \in Places, NEW f, f = FrameOf(c)
    PROVE  BlameOK(f)'
<1>1. /\ f \in Frame /\ FrameOK(c[1], f) /\ BlameOK(f)
      /\ f.op \in {"enqueue", "execute"} => f.job \in Jobs /\ Ready(f.job, blockedBy)
      /\ Claims(f) => f.job \in Jobs
  <2>1. f \in Frame /\ FrameOK(c[1], f)
    BY CallFacts DEF FailureInv, ExecutionInv
  <2>2. Carries(f) \/ Claims(f) => f.job \in Jobs
    BY CarrierFacts DEF FailureInv
  <2>3. f.op \in {"enqueue", "execute"} => Ready(f.job, blockedBy)
    BY CarrierFacts DEF FailureInv, Carries
  <2> QED BY <2>1, <2>2, <2>3 DEF FailureInv, CausesOK, Carries
<1>2. f.op = "submit" /\ f.at = "register" =>
          f.todo \subseteq deps'[f.job] /\ Noted(f.job, f.todo)'
  <2> SUFFICES ASSUME f.op = "submit", f.at = "register"
               PROVE  f.todo \subseteq deps'[f.job] /\ Noted(f.job, f.todo)'
    OBVIOUS
  <2>1. f.job \in Known /\ f.job \in Jobs /\ Attached(f.job, f.todo)
    BY <1>1 DEF FrameOK, Known
  <2>2. f.todo \subseteq deps[f.job] /\ Noted(f.job, f.todo)
    BY <1>1 DEF BlameOK
  <2> QED BY <2>1, <2>2 DEF Told
<1>3. Claims(f) => (Blames(f.job, f.cause) => Blames(f.job, f.cause)')
  <2>1. f.cause \in Jobs \cup {None}
    BY <1>1 DEF Frame
  <2> QED BY <1>1, <2>1, BlamesStay
<1>4. f.op = "finish" /\ ~Claims(f) => /\ f.status = status'[f.job] /\ f.cause = failure'[f.job]
                                       /\ \A d \in f.todo : f.job \in deps'[d]
  <2> SUFFICES ASSUME f.op = "finish", ~Claims(f)
               PROVE  /\ f.status = status'[f.job] /\ f.cause = failure'[f.job]
                      /\ \A d \in f.todo : f.job \in deps'[d]
    OBVIOUS
  <2>1. f.job \in Jobs /\ IsTerminal(status[f.job]) /\ f.todo \subseteq Jobs
    BY <1>1 DEF FrameOK, Known, Claims, Frame
  <2> QED BY <1>1, <2>1 DEF BlameOK, Told
<1>5. f.op \in {"enqueue", "execute"} => MayStart(f.job)'
  BY <1>1 DEF Told, BlameOK
<1>6. Claims(f)' = Claims(f)
  BY DEF Claims
<1> QED BY <1>1, <1>2, <1>3, <1>4, <1>5, <1>6 DEF BlameOK

(* A step of one call, at place p.                                           *)
LEMMA CausesStep ==
    ASSUME FailureInv, Told, NEW p,
           \A c \in Places' \ {p} : Kept(c) \/ \E g : (g = FrameOf(c)' /\ BlameOK(g)'),
           p \in Places' => \E g : (g = FrameOf(p)' /\ BlameOK(g)')
    PROVE  CausesOK'
<1> SUFFICES ASSUME NEW c \in Places' PROVE BlameOK(FrameOf(c))'
  BY DEF CausesOK
<1>1. CASE Kept(c)
  <2>1. PICK g : g = FrameOf(c)
    OBVIOUS
  <2>2. BlameOK(g)' /\ FrameOf(c)' = g
    BY <1>1, <2>1, BlameStays DEF Kept
  <2> QED BY <2>2
<1>2. ASSUME NEW g, g = FrameOf(c)', BlameOK(g)' PROVE BlameOK(FrameOf(c))'
  BY <1>2
<1> QED BY <1>1, <1>2

(* Steps that end no job and tell no job anything.                           *)
FailureStill ==
    /\ UNCHANGED <<next, shape, deps, registered, lastSimulation, blockedBy, dependents, failure, depFailure>>
    /\ \A k \in Jobs : \/ status'[k] = status[k]
                       \/ ~IsTerminal(status[k]) /\ ~IsTerminal(status'[k])
    /\ \A lane \in Lanes : \A k \in queue'[lane] : IsQueued(k) \/ MayStart(k)

(* A step that records no failure leaves the recorded ones right.            *)
LEMMA FailureStillFacts ==
    ASSUME FailureInv, FailureStill
    PROVE  /\ Told /\ FailuresOK'
           /\ \A k : (MayStart(k)' <=> MayStart(k))
<1>1. /\ UNCHANGED <<next, shape, deps, registered, lastSimulation, blockedBy, dependents, failure, depFailure>>
      /\ Known' = Known
  BY DEF FailureStill, Known
<1>2. \A k \in Jobs : (IsTerminal(status'[k]) <=> IsTerminal(status[k])) /\ (IsTerminal(status[k]) => status'[k] = status[k])
  BY DEF FailureStill
<1>3. \A k : (MayStart(k)' <=> MayStart(k))
  BY <1>1 DEF MayStart, RequiresSuccess
<1>4. DataType /\ FailuresOK
  BY CallFacts DEF FailureInv, ExecutionInv
<1>5. \A k \in Jobs : \A ahead : (Noted(k, ahead)' <=> Noted(k, ahead))
  <2> SUFFICES ASSUME NEW k \in Jobs, NEW ahead PROVE Noted(k, ahead)' <=> Noted(k, ahead)
    OBVIOUS
  <2>1. deps[k] \subseteq Jobs
    BY <1>4 DEF DataType
  <2> QED BY <1>1, <1>2, <2>1 DEF Noted, RequiresSuccess
<1>6. Told
  BY <1>1, <1>2, <1>3, <1>5 DEF Told, Known
<1>7. \A j \in Jobs : Blames(j, failure[j])' /\ Blames(j, depFailure[j])'
  <2> SUFFICES ASSUME NEW j \in Jobs PROVE Blames(j, failure[j])' /\ Blames(j, depFailure[j])'
    OBVIOUS
  <2>1. PICK e, g : e = failure[j] /\ g = depFailure[j]
    OBVIOUS
  <2>2. e \in Jobs \cup {None} /\ g \in Jobs \cup {None} /\ Blames(j, e) /\ Blames(j, g)
    BY <1>4, <2>1 DEF DataType, FailuresOK
  <2>3. Blames(j, e)' /\ Blames(j, g)'
    BY <1>6, <2>2, BlamesStay
  <2>4. failure'[j] = e /\ depFailure'[j] = g
    BY <1>1, <2>1
  <2> QED BY <2>3, <2>4
<1>8. \A j \in Jobs : failure'[j] # None => status'[j] \in {"Failed", "Cancelled"}
  BY <1>1, <1>2, <1>4 DEF FailuresOK, IsTerminal
<1>9. \A j \in registered' : Noted(j, {})'
  BY <1>1, <1>4, <1>5 DEF FailuresOK, DataType
<1>10. \A lane \in Lanes : \A j \in queue'[lane] : MayStart(j)'
  BY <1>3, <1>4 DEF FailureStill, FailuresOK, IsQueued
<1>11. FailuresOK'
  BY <1>1, <1>4, <1>7, <1>8, <1>9, <1>10 DEF FailuresOK
<1> QED BY <1>3, <1>6, <1>11

(* Entering a call, when no failure is recorded.                             *)
LEMMA FailureEnter ==
    ASSUME FailureInv, FailureStill, NEW t \in Threads, NEW f \in Frame, Enter(t, f), BlameOK(f)'
    PROVE  CausesOK' /\ FailuresOK'
<1>1. PICK a : Entering(t, a, f)
  BY CallFacts, EnterPlaces DEF FailureInv, ExecutionInv
<1>2. FrameOf(a)' = f /\ \A c \in Places' \ {a} : Kept(c)
  BY <1>1 DEF Entering, Kept
<1>3. \E g : g = FrameOf(a)' /\ BlameOK(g)'
  BY <1>2
<1> QED BY <1>2, <1>3, FailureStillFacts, CausesStep

(* Going on within a call, when no failure is recorded.                      *)
LEMMA FailureTurn ==
    ASSUME FailureInv, FailureStill, NEW t \in Threads, stack[t] # <<>>, NEW f \in Frame, Become(t, f), BlameOK(f)'
    PROVE  CausesOK' /\ FailuresOK'
<1>1. PICK h : Turning(t, h, f)
  BY CallFacts, BecomePlaces DEF FailureInv, ExecutionInv
<1>2. FrameOf(h)' = f /\ \A c \in Places' \ {h} : Kept(c)
  BY <1>1 DEF Turning, Kept
<1>3. \E g : g = FrameOf(h)' /\ BlameOK(g)'
  BY <1>2
<1> QED BY <1>2, <1>3, FailureStillFacts, CausesStep

(* Leaving a call, when no failure is recorded.                              *)
LEMMA FailureLeave ==
    ASSUME FailureInv, FailureStill, NEW t \in Threads, stack[t] # <<>>, Return(t)
    PROVE  CausesOK' /\ FailuresOK'
<1>1. PICK h : Leaving(t, h)
  BY CallFacts, ReturnPlaces DEF FailureInv, ExecutionInv
<1>2. h \notin Places' /\ \A c \in Places' \ {h} : Kept(c)
  BY <1>1 DEF Leaving, Kept
<1> QED BY <1>2, FailureStillFacts, CausesStep

(* A call that blames no one.                                                *)
LEMMA Blameless ==
    ASSUME NEW f, \/ f.op \notin {"submit", "enqueue", "execute", "finish"}
                  \/ f.op = "submit" /\ f.at # "register"
                  \/ Claims(f) /\ f.cause = None /\ f.status # "Failed"
                  \/ Claims(f) /\ f.cause = f.job /\ f.status = "Failed"
    PROVE  BlameOK(f)'
<1>1. Claims(f)' = Claims(f) /\ (Claims(f) => f.op = "finish" /\ f.at = "claim")
  BY DEF Claims
<1>2. f.cause = None => Blames(f.job, f.cause)'
  BY DEF Blames
<1> QED BY <1>1, <1>2 DEF BlameOK

(* A quiet step blames no one anew.                                          *)
LEMMA QuietFailure == ASSUME FailureInv, Quiet PROVE CausesOK' /\ FailuresOK'
<1>1. UNCHANGED <<jobVars, linkVars, stateVars, queue>>
  BY DEF Quiet, QuietData
<1>2. FailureStill
  BY <1>1 DEF FailureStill, jobVars, linkVars, stateVars, IsQueued
<1>3. Told /\ FailuresOK'
  BY <1>2, FailureStillFacts
<1>4. \A c \in Places' : Kept(c) \/ \E g : (g = FrameOf(c)' /\ BlameOK(g)')
  <2> SUFFICES ASSUME NEW c \in Places' PROVE Kept(c) \/ \E g : (g = FrameOf(c)' /\ BlameOK(g)')
    OBVIOUS
  <2>1. PICK g : g = FrameOf(c)'
    OBVIOUS
  <2>2. CASE Outside(g)
    <3>1. BlameOK(g)'
      BY <2>2, Blameless DEF Outside
    <3> QED BY <2>1, <3>1
  <2>3. CASE c \in Places /\ Alike(FrameOf(c), g)
    <3>1. PICK f : f = FrameOf(c)
      OBVIOUS
    <3>2. CASE g = f
      BY <2>1, <2>3, <3>1, <3>2 DEF Kept
    <3>3. CASE g # f
      <4>1. /\ f.op \notin {"close", "submit"} /\ g.op = f.op /\ g.at = f.at /\ g.job = f.job
            /\ g.status = f.status /\ g.cause = f.cause /\ g.todo \subseteq f.todo
        BY <2>3, <3>1, <3>3 DEF Alike
      <4>2. BlameOK(f)'
        BY <1>3, <2>3, <3>1, BlameStays
      <4>3. Claims(g)' = Claims(f)' /\ (Blames(g.job, g.cause)' <=> Blames(f.job, f.cause)')
            /\ (MayStart(g.job)' <=> MayStart(f.job)')
        BY <4>1 DEF Claims
      <4>4. BlameOK(g)'
        BY <4>1, <4>2, <4>3 DEF BlameOK
      <4> QED BY <2>1, <4>4
    <3> QED BY <3>2, <3>3
  <2> QED BY <2>1, <2>2, <2>3 DEF Quiet, QuietFrames
<1>5. \A p \in Places' : \E g : (g = FrameOf(p)' /\ BlameOK(g)')
  <2> SUFFICES ASSUME NEW p \in Places', Kept(p) PROVE \E g : (g = FrameOf(p)' /\ BlameOK(g)')
    BY <1>4
  <2>1. PICK g : g = FrameOf(p)
    OBVIOUS
  <2>2. BlameOK(g)' /\ g = FrameOf(p)'
    BY <1>3, <2>1, BlameStays DEF Kept
  <2> QED BY <2>2
<1>6. CausesOK'
  BY <1>3, <1>4, <1>5, CausesStep
<1> QED BY <1>3, <1>6

(* Ending a job that has not started blames no one.                          *)
LEMMA EndsFailure == ASSUME FailureInv, Ends PROVE CausesOK' /\ FailuresOK'
<1>1. PICK p : \E j \in Jobs : EndsAt(p, j)
  BY DEF Ends
<1>2. PICK j \in Jobs : EndsAt(p, j)
  BY <1>1
<1>3. FailureStill
  BY <1>2 DEF EndsAt, FailureStill, jobVars, linkVars, stateVars, IsQueued
<1>4. Told /\ FailuresOK'
  BY <1>3, FailureStillFacts
<1>5. \E g : (g = FrameOf(p)' /\ BlameOK(g)')
  <2>1. PICK g : g = FinishCall(j, "Cancelled", None)
    OBVIOUS
  <2>2. Claims(g) /\ g.cause = None /\ g.status # "Failed"
    BY <2>1 DEF FinishCall, Call, Claims
  <2>3. g = FrameOf(p)' /\ BlameOK(g)'
    BY <1>2, <2>1, <2>2, Blameless DEF EndsAt
  <2> QED BY <2>3
<1>6. \A c \in Places' \ {p} : Kept(c) \/ \E g : (g = FrameOf(c)' /\ BlameOK(g)')
  <2> SUFFICES ASSUME NEW c \in Places' \ {p}, ~Kept(c) PROVE \E g : (g = FrameOf(c)' /\ BlameOK(g)')
    OBVIOUS
  <2>1. c \in Places /\ Sweeps(FrameOf(c)) /\ FrameOf(c)' = [FrameOf(c) EXCEPT !.todo = FrameOf(c).todo \ {j}]
    BY <1>2 DEF EndsAt, Kept
  <2>2. PICK g : g = FrameOf(c)'
    OBVIOUS
  <2>3. g.op = "close"
    BY <2>1, <2>2, CarrierFacts DEF FailureInv, Frame, Sweeps
  <2> QED BY <2>2, <2>3, Blameless
<1>7. CausesOK'
  BY <1>4, <1>5, <1>6, CausesStep
<1> QED BY <1>4, <1>7

(* What the innermost call knows.                                            *)
LEMMA TopBlame ==
    ASSUME FailureInv, NEW t \in Threads, stack[t] # <<>>
    PROVE  /\ BlameOK(Top(t)) /\ CallOK(Top(t)) /\ Top(t) \in Frame /\ FrameOK(t, Top(t))
           /\ ExecutionInv /\ DependencyInv /\ DataType /\ FailuresOK /\ JobsOK
<1>1. ExecutionInv /\ DependencyInv /\ DataType /\ FailuresOK /\ JobsOK /\ Top(t) \in Frame /\ FrameOK(t, Top(t))
  BY CallFacts, InvParts DEF FailureInv, ExecutionInv
<1>2. PICK h \in Places : FrameOf(h) = Top(t)
  BY <1>1, CallFacts, TopPlace
<1>3. BlameOK(FrameOf(h)) /\ CallOK(FrameOf(h))
  BY <1>2, CarrierFacts DEF FailureInv, CausesOK
<1> QED BY <1>1, <1>2, <1>3

(* An enqueue, by whether a dependency has failed.                           *)
LEMMA EnqueueFailure ==
    ASSUME FailureInv, NEW t \in Threads, EnqueueClaim(t) \/ EnqueuePublish(t)
    PROVE  CausesOK' /\ FailuresOK'
<1>1. /\ stack[t] # <<>> /\ Top(t).op = "enqueue"
      /\ UNCHANGED <<next, shape, deps, registered, lastSimulation, blockedBy, dependents, failure, depFailure>>
  BY DEF EnqueueClaim, EnqueuePublish, At, jobVars, linkVars, stateVars
<1>2. BlameOK(Top(t)) /\ CallOK(Top(t)) /\ Top(t) \in Frame /\ DataType /\ FailuresOK
  BY <1>1, TopBlame
<1>3. PICK j : j = Top(t).job
  OBVIOUS
<1>4. MayStart(j)
  BY <1>1, <1>2, <1>3 DEF BlameOK
<1>5. CASE EnqueueClaim(t)
  <2>1. queue' = queue
    BY <1>5 DEF EnqueueClaim
  <2>2. \A k \in Jobs : \/ status'[k] = status[k]
                        \/ ~IsTerminal(status[k]) /\ ~IsTerminal(status'[k])
    BY <1>2, <1>3, <1>5 DEF EnqueueClaim, IsTerminal, DataType
  <2>3. FailureStill
    BY <1>1, <2>1, <2>2 DEF FailureStill, IsQueued
  <2>4. PICK f \in Frame : f = [Top(t) EXCEPT !.at = "publish"]
    BY <1>2 DEF Frame
  <2>5. f.op = "enqueue" /\ f.job = j
    BY <1>1, <1>2, <1>3, <2>4 DEF Frame
  <2>6. MayStart(j)'
    BY <1>4, <2>3, FailureStillFacts
  <2>7. BlameOK(f)'
    BY <2>5, <2>6 DEF BlameOK, Claims
  <2>8. Become(t, f) \/ Return(t)
    BY <1>5, <2>4 DEF EnqueueClaim
  <2> QED BY <1>1, <2>3, <2>7, <2>8, FailureTurn, FailureLeave
<1>6. CASE EnqueuePublish(t)
  <2>1. Return(t) /\ status' = status
    BY <1>6 DEF EnqueuePublish, stateVars
  <2>2. \A lane \in Lanes : \A k \in queue'[lane] : IsQueued(k) \/ k = j
    BY <1>2, <1>3, <1>6 DEF EnqueuePublish, DataType, Lanes, IsQueued
  <2>3. FailureStill
    BY <1>1, <1>4, <2>1, <2>2 DEF FailureStill
  <2> QED BY <1>1, <2>1, <2>3, FailureLeave
<1> QED BY <1>5, <1>6

(* Taking a job from its queue.                                              *)
LEMMA TakeFailure ==
    ASSUME FailureInv, NEW t \in Threads, Take(t) \/ Helps(t)
    PROVE  CausesOK' /\ FailuresOK'
<1>1. /\ UNCHANGED <<next, shape, deps, registered, lastSimulation, blockedBy, dependents, failure, depFailure>>
      /\ UNCHANGED status
  BY DEF Take, Helps, WaitCheck, jobVars, linkVars, stateVars
<1>2. DataType /\ FailuresOK
  BY CallFacts DEF FailureInv, ExecutionInv
<1>3. PICK l \in Lanes : \E j \in queue[l] : /\ queue' = [queue EXCEPT ![l] = queue[l] \ {j}]
                                             /\ Enter(t, Call("execute", "begin", j))
  <2>1. CASE Take(t)
    BY <2>1 DEF Take, TakesFrom, Lanes
  <2>2. CASE Helps(t)
    BY <2>2 DEF Helps, WaitCheck, Lanes
  <2> QED BY <2>1, <2>2
<1>4. PICK j \in queue[l] : /\ queue' = [queue EXCEPT ![l] = queue[l] \ {j}]
                            /\ Enter(t, Call("execute", "begin", j))
  BY <1>3
<1>5. \A lane \in Lanes : \A k \in queue'[lane] : IsQueued(k)
  BY <1>2, <1>4 DEF DataType, Lanes, IsQueued
<1>6. FailureStill
  BY <1>1, <1>5 DEF FailureStill
<1>7. j \in Jobs /\ MayStart(j)
  BY <1>2 DEF DataType, FailuresOK, Lanes
<1>8. PICK g \in Frame : g = Call("execute", "begin", j)
  BY <1>7 DEF Call, Frame, Statuses
<1>9. BlameOK(g)'
  <2>1. MayStart(j)' /\ g.op = "execute" /\ g.job = j
    BY <1>6, <1>7, <1>8, FailureStillFacts DEF Call
  <2> QED BY <2>1 DEF BlameOK, Claims
<1> QED BY <1>4, <1>6, <1>8, <1>9, FailureEnter

(* Running a job: one that throws is the origin of its failure.              *)
LEMMA ExecuteFailure ==
    ASSUME FailureInv, NEW t \in Threads,
           ExecuteBegin(t) \/ ExecuteCall(t) \/ BodyReturns(t) \/ BodyThrows(t)
    PROVE  CausesOK' /\ FailuresOK'
<1>1. /\ stack[t] # <<>> /\ Top(t).op = "execute"
      /\ UNCHANGED <<next, shape, deps, registered, lastSimulation, blockedBy, dependents, failure, depFailure,
                     queue>>
  BY DEF ExecuteBegin, ExecuteCall, BodyReturns, BodyThrows, At, OnlyStackChanges, jobVars, linkVars, stateVars
<1>2. PICK j : j = Top(t).job
  OBVIOUS
<1>3. BlameOK(Top(t)) /\ CallOK(Top(t)) /\ Top(t) \in Frame /\ DataType /\ FailuresOK /\ j \in Jobs /\ MayStart(j)
  <2>1. BlameOK(Top(t)) /\ CallOK(Top(t)) /\ Top(t) \in Frame /\ DataType /\ FailuresOK
    BY <1>1, TopBlame
  <2>2. j \in Jobs
    BY <1>1, <1>2, ExecutingFacts DEF FailureInv
  <2> QED BY <1>1, <1>2, <2>1, <2>2 DEF BlameOK
<1>4. \A k \in Jobs : \/ status'[k] = status[k]
                      \/ ~IsTerminal(status[k]) /\ ~IsTerminal(status'[k])
  <2>1. CASE ExecuteBegin(t)
    BY <1>2, <1>3, <2>1 DEF ExecuteBegin, IsTerminal, DataType
  <2>2. CASE ExecuteCall(t) \/ BodyReturns(t) \/ BodyThrows(t)
    BY <2>2 DEF ExecuteCall, BodyReturns, BodyThrows, OnlyStackChanges, stateVars
  <2> QED BY <2>1, <2>2
<1>5. FailureStill
  BY <1>1, <1>4 DEF FailureStill, IsQueued
<1>6. ASSUME NEW f \in Frame, f.op = "execute", f.job = j PROVE BlameOK(f)'
  <2>1. MayStart(j)'
    BY <1>3, <1>5, FailureStillFacts
  <2> QED BY <1>6, <2>1 DEF BlameOK, Claims
<1>7. ASSUME NEW f, f \in Frame => BlameOK(f)', f \in Frame, Become(t, f) PROVE CausesOK' /\ FailuresOK'
  BY <1>1, <1>5, <1>7, FailureTurn
<1>8. ASSUME NEW s \in {"Cancelled", "Succeeded"}
      PROVE  LET f == FinishCall(j, s, None) IN f \in Frame /\ BlameOK(f)'
  <2>1. PICK f : f = FinishCall(j, s, None)
    OBVIOUS
  <2>2. f \in Frame /\ Claims(f) /\ f.cause = None /\ f.status # "Failed"
    BY <1>3, <2>1 DEF FinishCall, Call, Frame, Claims, Statuses
  <2>3. BlameOK(f)'
    BY <2>2, Blameless
  <2> QED BY <2>1, <2>2, <2>3
<1>9. LET f == FinishCall(j, "Failed", j) IN f \in Frame /\ BlameOK(f)'
  <2>1. PICK f : f = FinishCall(j, "Failed", j)
    OBVIOUS
  <2>2. f \in Frame /\ Claims(f) /\ f.cause = f.job /\ f.status = "Failed"
    BY <1>3, <2>1 DEF FinishCall, Call, Frame, Claims, Statuses
  <2>3. BlameOK(f)'
    BY <2>2, Blameless
  <2> QED BY <2>1, <2>2, <2>3
<1>10. CASE ExecuteBegin(t)
  <2>1. PICK f \in Frame : f = [Top(t) EXCEPT !.at = "call"]
    BY <1>3 DEF Frame
  <2>2. BlameOK(f)'
    BY <1>1, <1>2, <1>3, <1>6, <2>1 DEF Frame
  <2>3. Return(t) \/ Become(t, f) \/ Become(t, FinishCall(j, "Cancelled", None))
    BY <1>2, <1>10, <2>1 DEF ExecuteBegin
  <2>4. CASE Return(t)
    BY <1>1, <1>5, <2>4, FailureLeave
  <2>5. CASE Become(t, f)
    BY <1>7, <2>2, <2>5
  <2>6. CASE Become(t, FinishCall(j, "Cancelled", None))
    <3>1. FinishCall(j, "Cancelled", None) \in Frame /\ BlameOK(FinishCall(j, "Cancelled", None))'
      BY <1>8
    <3> QED BY <1>7, <2>6, <3>1
  <2> QED BY <2>3, <2>4, <2>5, <2>6
<1>11. CASE ExecuteCall(t)
  <2>1. PICK f \in Frame : f = [Top(t) EXCEPT !.at = "body", !.todo = shape[j].awaits]
    <3>1. shape[j].awaits \subseteq Jobs
      BY <1>3 DEF DataType, Shape
    <3> QED BY <1>3, <3>1 DEF Frame
  <2>2. BlameOK(f)'
    <3>1. f.op = "execute" /\ f.job = j
      BY <1>1, <1>2, <1>3, <2>1 DEF Frame
    <3> QED BY <1>6, <3>1
  <2>3. Become(t, f) \/ Become(t, FinishCall(j, "Failed", j))
    BY <1>2, <1>11, <2>1 DEF ExecuteCall
  <2>4. CASE Become(t, f)
    BY <1>7, <2>2, <2>4
  <2>5. CASE Become(t, FinishCall(j, "Failed", j))
    BY <1>7, <1>9, <2>5
  <2> QED BY <2>3, <2>4, <2>5
<1>12. CASE BodyReturns(t)
  <2>1. PICK s \in {"Cancelled", "Succeeded"} : Become(t, FinishCall(j, s, None))
    BY <1>2, <1>12 DEF BodyReturns
  <2> QED BY <1>7, <1>8, <2>1
<1>13. CASE BodyThrows(t)
  <2>1. Become(t, FinishCall(j, "Failed", j))
    BY <1>2, <1>13 DEF BodyThrows
  <2> QED BY <1>7, <1>9, <2>1
<1> QED BY <1>10, <1>11, <1>12, <1>13

(* A finish tries to settle its job.                                         *)
LEMMA SettleFailure ==
    ASSUME FailureInv, NEW t \in Threads,
           FinishSettle(t) \/ (FinishClaim(t) /\ IsTerminal(status[Top(t).job]))
    PROVE  CausesOK' /\ FailuresOK'
<1>1. /\ stack[t] # <<>> /\ Top(t).op = "finish"
      /\ UNCHANGED <<next, shape, deps, registered, lastSimulation, blockedBy, dependents, failure, depFailure,
                     queue, status>>
  BY DEF FinishSettle, FinishClaim, At, jobVars, linkVars, stateVars
<1>2. FailureStill
  BY <1>1 DEF FailureStill, IsQueued
<1>3. BlameOK(Top(t)) /\ Top(t) \in Frame
  BY <1>1, TopBlame
<1>4. CASE FinishClaim(t) /\ IsTerminal(status[Top(t).job])
  BY <1>1, <1>2, <1>4, FailureLeave DEF FinishClaim
<1>5. CASE FinishSettle(t)
  <2>1. PICK f \in Frame : f = [Top(t) EXCEPT !.at = "release"]
    BY <1>3 DEF Frame
  <2>2. /\ f.op = "finish" /\ f.at = "release" /\ f.job = Top(t).job /\ f.status = Top(t).status
        /\ f.cause = Top(t).cause /\ f.todo = Top(t).todo
    BY <1>1, <1>3, <2>1 DEF Frame
  <2>3. ~Claims(Top(t)) /\ Become(t, f)
    BY <1>5, <2>1 DEF FinishSettle, At, Claims
  <2>4. f.status = status'[f.job] /\ f.cause = failure'[f.job] /\ \A d \in f.todo : f.job \in deps'[d]
    BY <1>1, <1>3, <2>2, <2>3 DEF BlameOK
  <2>5. BlameOK(f)'
    BY <2>2, <2>4 DEF BlameOK, Claims
  <2> QED BY <1>1, <1>2, <2>3, <2>5, FailureTurn
<1> QED BY <1>4, <1>5

(* A finish records the failure with the state it settles on.                *)
LEMMA FinishClaimFailure ==
    ASSUME FailureInv, NEW t \in Threads, FinishClaim(t), ~IsTerminal(status[Top(t).job])
    PROVE  CausesOK' /\ FailuresOK'
<1>1. /\ stack[t] # <<>> /\ Top(t).op = "finish" /\ Top(t).at = "claim" /\ Claims(Top(t))
      /\ UNCHANGED <<next, shape, deps, registered, lastSimulation, blockedBy, depFailure, queue>>
  BY DEF FinishClaim, At, jobVars, stateVars, Claims
<1>2. /\ BlameOK(Top(t)) /\ Top(t) \in Frame /\ FrameOK(t, Top(t)) /\ DependencyInv /\ DataType
      /\ FailuresOK /\ JobsOK
  BY <1>1, TopBlame
<1>3. PICK j \in Jobs : j = Top(t).job /\ ~IsTerminal(status[j]) /\ IsTerminal(Top(t).status)
  BY <1>1, <1>2 DEF FrameOK, Known
<1>4. PICK f \in Frame : f = [Top(t) EXCEPT !.at = "settle", !.was = status[j], !.todo = dependents[j]]
  BY <1>2, <1>3 DEF Frame, DataType
<1>5. /\ f.op = "finish" /\ f.at = "settle" /\ f.job = j /\ f.status = Top(t).status
      /\ f.cause = Top(t).cause /\ f.todo = dependents[j]
  BY <1>1, <1>2, <1>3, <1>4 DEF Frame
<1>6. /\ Become(t, f) /\ status' = [status EXCEPT ![j] = f.status]
      /\ failure' = [failure EXCEPT ![j] = f.cause] /\ dependents' = [dependents EXCEPT ![j] = {}]
  BY <1>3, <1>4, <1>5 DEF FinishClaim
<1>7. /\ status'[j] = f.status /\ failure'[j] = f.cause /\ IsTerminal(f.status)
      /\ \A k \in Jobs \ {j} : status'[k] = status[k] /\ failure'[k] = failure[k]
      /\ \A k \in Jobs : dependents'[k] \subseteq dependents[k]
  BY <1>2, <1>3, <1>5, <1>6 DEF DataType
<1>8. ASSUME NEW k \in Jobs, NEW ahead, k \in MayRunOut \/ Attached(k, ahead), Noted(k, ahead)
      PROVE  Noted(k, ahead)'
  <2> SUFFICES ASSUME k \notin MayRunOut, RequiresSuccess(k), NEW d \in deps[k] \ ahead,
                      IsTerminal(status'[d]), failure'[d] # None
               PROVE  depFailure[k] # None \/ d \in blockedBy[k]
    BY <1>1 DEF Noted, RequiresSuccess
  <2>1. d \in Jobs
    BY <1>2 DEF DataType
  <2>2. CASE d = j
    BY <1>3, <1>8, <2>2 DEF Attached
  <2>3. CASE d # j
    BY <1>7, <1>8, <2>1, <2>3 DEF Noted
  <2> QED BY <2>2, <2>3
<1>9. Told
  <2>1. \A k : MayStart(k)' <=> MayStart(k)
    BY <1>1 DEF MayStart, RequiresSuccess
  <2> QED BY <1>1, <1>3, <1>7, <1>8, <2>1 DEF Told, Known
<1>10. BlameOK(f)'
  <2>1. \A d \in f.todo : f.job \in deps'[d]
    BY <1>1, <1>2, <1>3, <1>5 DEF FailuresOK
  <2> QED BY <1>5, <1>7, <2>1 DEF BlameOK, Claims
<1>11. CausesOK'
  <2>1. PICK h : Turning(t, h, f)
    BY <1>1, <1>2, <1>6, CallFacts, BecomePlaces
  <2>2. FrameOf(h)' = f /\ \A c \in Places' \ {h} : Kept(c)
    BY <2>1 DEF Turning, Kept
  <2>3. \E g : g = FrameOf(h)' /\ BlameOK(g)'
    BY <1>10, <2>2
  <2> QED BY <1>9, <2>2, <2>3, CausesStep
<1>12. Blames(j, f.cause)'
  <2>1. CASE f.cause = j /\ (f.status = "Failed" \/ (j \in MayRunOut /\ f.status = "Cancelled"))
    BY <1>7, <2>1 DEF Blames, Origin
  <2>2. CASE Blames(j, f.cause)
    <3>1. f.cause \in Jobs \cup {None}
      BY DEF Frame
    <3> QED BY <1>9, <2>2, <3>1, BlamesStay
  <2> QED BY <1>1, <1>2, <1>3, <1>5, <2>1, <2>2 DEF BlameOK
<1>13. ASSUME NEW k \in Jobs PROVE Blames(k, failure[k])' /\ Blames(k, depFailure[k])'
  <2>1. PICK e, g : e = failure[k] /\ g = depFailure[k]
    OBVIOUS
  <2>2. Blames(k, e)' /\ Blames(k, g)'
    BY <1>2, <1>9, <2>1, BlamesStay DEF DataType, FailuresOK
  <2>3. Blames(k, depFailure[k])'
    BY <1>1, <2>1, <2>2
  <2>4. CASE k = j
    BY <1>7, <1>12, <2>3, <2>4
  <2>5. CASE k # j
    <3>1. failure'[k] = e
      BY <1>7, <2>1, <2>5
    <3> QED BY <2>2, <2>3, <3>1
  <2> QED BY <2>4, <2>5
<1>14. f.cause # None => f.status \in {"Failed", "Cancelled"}
  BY <1>1, <1>2, <1>5, <1>7 DEF BlameOK, IsTerminal
<1>15. \A k \in registered' : Noted(k, {})'
  <2> SUFFICES ASSUME NEW k \in registered PROVE Noted(k, {})'
    BY <1>1
  <2>1. k \in Jobs /\ (k \in MayRunOut \/ Attached(k, {})) /\ Noted(k, {})
    BY <1>2 DEF DataType, JobsOK, FailuresOK
  <2> QED BY <1>8, <2>1
<1>16. FailuresOK'
  <2>1. \A k \in Jobs : failure'[k] # None => status'[k] \in {"Failed", "Cancelled"}
    BY <1>2, <1>7, <1>14 DEF FailuresOK
  <2>2. \A lane \in Lanes : \A k \in queue'[lane] : MayStart(k)'
    BY <1>1, <1>2 DEF FailuresOK, MayStart, RequiresSuccess
  <2>3. Known' = Known /\ lastSimulation' = lastSimulation /\ deps' = deps
    BY <1>1 DEF Known
  <2> QED BY <1>1, <1>2, <1>7, <1>13, <1>15, <2>1, <2>2, <2>3 DEF FailuresOK
<1> QED BY <1>11, <1>16

(* A finish hands its failure on to a dependent.                             *)
LEMMA FinishReleaseFailure ==
    ASSUME FailureInv, NEW t \in Threads, NEW d \in Jobs, FinishRelease(t, d)
    PROVE  CausesOK' /\ FailuresOK'
<1>1. /\ stack[t] # <<>> /\ Top(t).op = "finish" /\ Top(t).at = "release" /\ ~Claims(Top(t)) /\ d \in Top(t).todo
      /\ UNCHANGED <<next, shape, deps, registered, lastSimulation, dependents, failure, status, queue>>
  BY DEF FinishRelease, At, jobVars, Claims
<1>2. /\ BlameOK(Top(t)) /\ Top(t) \in Frame /\ FrameOK(t, Top(t)) /\ DependencyInv /\ DataType
      /\ FailuresOK /\ JobsOK
  BY <1>1, TopBlame
<1>3. PICK j, e : j = Top(t).job /\ e = Top(t).cause
  OBVIOUS
<1>4. /\ j \in Jobs /\ e \in Jobs \cup {None} /\ e = failure[j] /\ Top(t).status = status[j] /\ j \in deps[d]
  BY <1>1, <1>2, <1>3 DEF BlameOK, FrameOK, Known, Frame
<1>5. PICK f \in Frame : f = [Top(t) EXCEPT !.todo = Top(t).todo \ {d}]
  BY <1>2 DEF Frame
<1>6. /\ f.op = "finish" /\ f.at = "release" /\ f.job = j /\ f.status = status[j]
      /\ f.cause = e /\ f.todo \subseteq Top(t).todo
  BY <1>1, <1>2, <1>3, <1>4, <1>5 DEF Frame
<1>7. BlameOK(f)'
  <2>1. \A k \in f.todo : j \in deps'[k]
    BY <1>1, <1>2, <1>3, <1>6 DEF BlameOK
  <2> QED BY <1>1, <1>4, <1>6, <2>1 DEF BlameOK, Claims
<1>8. CASE IsTerminal(status[d]) \/ blockedBy[d] = {}
  <2>1. Become(t, f) /\ FailureStill
    BY <1>1, <1>5, <1>8 DEF FinishRelease, FailureStill, IsQueued
  <2> QED BY <1>1, <1>7, <2>1, FailureTurn
<1>9. CASE ~(IsTerminal(status[d]) \/ blockedBy[d] = {})
  <2>1. /\ blockedBy' = [blockedBy EXCEPT ![d] = blockedBy[d] \ {j}]
        /\ depFailure' = IF status[j] # "Succeeded" /\ RequiresSuccess(d) /\ depFailure[d] = None
                         THEN [depFailure EXCEPT ![d] = e] ELSE depFailure
    BY <1>3, <1>4, <1>9 DEF FinishRelease
  <2>2. /\ \A k \in Jobs \ {d} : blockedBy'[k] = blockedBy[k] /\ depFailure'[k] = depFailure[k]
        /\ blockedBy'[d] = blockedBy[d] \ {j}
        /\ depFailure[d] # None => depFailure'[d] = depFailure[d]
        /\ depFailure'[d] = depFailure[d] \/ depFailure'[d] = e
        /\ status[j] # "Succeeded" /\ RequiresSuccess(d) /\ depFailure[d] = None => depFailure'[d] = e
    BY <1>2, <2>1 DEF DataType
  <2>3. d \in Known
    BY <1>2, <1>9 DEF JobsOK
  <2>4. ASSUME NEW k \in Jobs, NEW ahead, Noted(k, ahead) PROVE Noted(k, ahead)'
    <3> SUFFICES ASSUME k \notin MayRunOut, RequiresSuccess(k), NEW x \in deps[k] \ ahead,
                        IsTerminal(status[x]), failure[x] # None
                 PROVE  depFailure'[k] # None \/ x \in blockedBy'[k]
      BY <1>1 DEF Noted, RequiresSuccess
    <3>1. depFailure[k] # None \/ x \in blockedBy[k]
      BY <2>4 DEF Noted
    <3>2. CASE k # d \/ x # j \/ depFailure[k] # None
      BY <2>2, <3>1, <3>2
    <3>3. CASE k = d /\ x = j /\ depFailure[k] = None
      <4>1. e # None /\ status[j] # "Succeeded"
        BY <1>2, <1>4, <3>3 DEF FailuresOK
      <4> QED BY <2>2, <3>3, <4>1
    <3> QED BY <3>2, <3>3
  <2>5. Told
    <3>1. \A k \in Jobs : Ready(k, blockedBy) /\ MayStart(k) => MayStart(k)'
      BY <1>1, <1>9, <2>2 DEF Ready, MayStart, RequiresSuccess
    <3> QED BY <1>1, <2>4, <3>1 DEF Told, Known
  <2>6. Blames(d, e)
    BY <1>2, <1>4, BlamesOn DEF FailuresOK
  <2>7. FailuresOK'
    <3>1. ASSUME NEW k \in Jobs PROVE Blames(k, failure[k])' /\ Blames(k, depFailure[k])'
      <4>1. PICK x, g : x = failure[k] /\ g = depFailure'[k]
        OBVIOUS
      <4>2. Blames(k, x) /\ Blames(k, g) /\ x \in Jobs \cup {None} /\ g \in Jobs \cup {None}
        BY <1>2, <1>4, <2>2, <2>6, <4>1 DEF FailuresOK, DataType
      <4>3. Blames(k, x)' /\ Blames(k, g)' /\ failure'[k] = x
        BY <1>1, <2>5, <4>1, <4>2, BlamesStay
      <4> QED BY <4>1, <4>3
    <3>2. \A k \in Jobs \ Known' : deps'[k] = {} /\ depFailure'[k] = None
      BY <1>1, <1>2, <2>2, <2>3 DEF FailuresOK, Known
    <3>3. \A k \in registered' : Noted(k, {})'
      BY <1>1, <1>2, <2>4 DEF FailuresOK, DataType
    <3>4. \A lane \in Lanes : \A k \in queue'[lane] : MayStart(k)'
      BY <1>1, <1>2, <2>5 DEF FailuresOK, JobsOK, Told, DataType, Lanes
    <3>5. Known' = Known
      BY <1>1 DEF Known
    <3> QED BY <1>1, <1>2, <3>1, <3>2, <3>3, <3>4, <3>5 DEF FailuresOK
  <2>8. CASE ~Ready(d, blockedBy')
    <3>1. Become(t, f)
      BY <1>5, <1>9, <2>8 DEF FinishRelease
    <3>2. PICK h : Turning(t, h, f)
      BY <1>1, <1>2, <3>1, CallFacts, BecomePlaces
    <3>3. FrameOf(h)' = f /\ \A c \in Places' \ {h} : Kept(c)
      BY <3>2 DEF Turning, Kept
    <3>4. \E g : g = FrameOf(h)' /\ BlameOK(g)'
      BY <1>7, <3>3
    <3> QED BY <2>5, <2>7, <3>3, <3>4, CausesStep
  <2>9. CASE Ready(d, blockedBy')
    <3>1. PICK x \in Jobs \cup {None} : x = depFailure'[d]
      BY <1>2, <1>4, <2>2 DEF DataType
    <3>2. PICK g : /\ BecomeAndEnter(t, f, g)
                   /\ \/ g = FinishCall(d, "Cancelled", x)
                      \/ g = Call("enqueue", "claim", d) /\ ~(RequiresSuccess(d) /\ x # None)
      <4>1. DependenciesStop(d, Top(t).status # "Succeeded", x) \/ ~(RequiresSuccess(d) /\ x # None)
        BY DEF DependenciesStop
      <4> QED BY <1>5, <1>9, <2>9, <3>1, <4>1 DEF FinishRelease
    <3>3. g \in Frame /\ BlameOK(g)'
      <4>1. CASE g = FinishCall(d, "Cancelled", x)
        <5>1. g \in Frame /\ Claims(g) /\ g.cause = x /\ g.job = d /\ g.status = "Cancelled"
          BY <3>1, <4>1 DEF FinishCall, Call, Frame, Statuses, Claims
        <5>2. Blames(d, x)'
          BY <2>7, <3>1 DEF FailuresOK
        <5> QED BY <5>1, <5>2 DEF BlameOK, Claims
      <4>2. CASE g = Call("enqueue", "claim", d) /\ ~(RequiresSuccess(d) /\ x # None)
        <5>1. g \in Frame /\ g.op = "enqueue" /\ g.job = d
          BY <4>2 DEF Call, Frame, Statuses
        <5>2. MayStart(d)'
          BY <1>1, <3>1, <4>2 DEF MayStart, RequiresSuccess
        <5> QED BY <5>1, <5>2 DEF BlameOK, Claims
      <4> QED BY <3>2, <4>1, <4>2
    <3>4. PICK h, a : Calling(t, h, a, f, g)
      BY <1>1, <1>2, <3>2, <3>3, CallFacts, CallPlaces
    <3>5. FrameOf(h)' = f /\ FrameOf(a)' = g /\ \A c \in Places' \ {a} : Kept(c) \/ c = h
      BY <3>4 DEF Calling, Kept
    <3>6. \A c \in Places' \ {a} : Kept(c) \/ \E b : (b = FrameOf(c)' /\ BlameOK(b)')
      BY <1>7, <3>5
    <3>7. \E b : (b = FrameOf(a)' /\ BlameOK(b)')
      BY <3>3, <3>5
    <3> QED BY <2>5, <2>7, <3>6, <3>7, CausesStep
  <2> QED BY <2>8, <2>9
<1> QED BY <1>8, <1>9

(* A job that is just submitted has recorded nothing.                        *)
LEMMA SubmitBeginFailure ==
    ASSUME FailureInv, NEW t \in Threads, NEW sh, SubmitBegin(t, sh)
    PROVE  CausesOK' /\ FailuresOK'
<1>1. /\ DependencyInv /\ DataType /\ JobsOK /\ FailuresOK
      /\ UNCHANGED <<registered, linkVars, failure, depFailure, queue>>
  BY InvParts, TypePart DEF FailureInv, ExecutionInv, SubmitBegin
<1>2. PICK j \in Jobs : j = next
  BY <1>1, JobSystemAssumption DEF SubmitBegin, DataType, Jobs
<1>3. PICK before \in SUBSET {lastSimulation} :
          /\ (lastSimulation = None => before = {})
          /\ deps' = [deps EXCEPT ![j] = sh.needs \cup before]
          /\ Enter(t, [Call("submit", "register", j) EXCEPT !.todo = sh.needs \cup before])
          /\ lastSimulation' = j \/ lastSimulation' = lastSimulation
  BY <1>2 DEF SubmitBegin
<1>4. /\ next' = j + 1 /\ shape' = [shape EXCEPT ![j] = sh]
      /\ status' = [status EXCEPT ![j] = "Waiting"]
      /\ \A d \in sh.needs : status[d] # "Unsubmitted"
  BY <1>2 DEF SubmitBegin, HasHandle
<1>5. sh.needs \cup before \subseteq Jobs
  <2>1. deps'[j] \subseteq Jobs
    BY SubmitBeginInv, <1>1, CallFacts DEF DataType, DependencyInv, TypeOK
  <2>2. deps'[j] = sh.needs \cup before
    BY <1>1, <1>3 DEF DataType
  <2> QED BY <2>1, <2>2
<1>6. sh.needs \cup before \subseteq Known
  <2>1. sh.needs \subseteq Known
    BY <1>1, <1>4, <1>5 DEF JobsOK
  <2>2. before \subseteq Known
    BY <1>1, <1>3 DEF FailuresOK
  <2> QED BY <2>1, <2>2
<1>7. /\ j \notin Known /\ Known' = Known \cup {j} /\ Known \subseteq 1..(j - 1)
      /\ status[j] = "Unsubmitted" /\ j \notin registered /\ ~Ready(j, blockedBy) /\ ~IsQueued(j)
  <2>1. j \notin Known /\ Known' = Known \cup {j} /\ Known \subseteq 1..(j - 1)
    BY <1>1, <1>2, <1>4, JobSystemAssumption DEF Known, DataType, Jobs
  <2> QED BY <1>1, <2>1, InvParts, CarrierFacts DEF JobsOK, Ready, FailureInv
<1>8. /\ deps'[j] = sh.needs \cup before /\ status'[j] = "Waiting"
      /\ \A k \in Jobs \ {j} : /\ status'[k] = status[k] /\ shape'[k] = shape[k] /\ deps'[k] = deps[k]
                               /\ RequiresSuccess(k)' = RequiresSuccess(k)
  BY <1>1, <1>3, <1>4 DEF DataType, RequiresSuccess
<1>9. ASSUME NEW k \in Jobs \ {j}, NEW ahead, Noted(k, ahead) PROVE Noted(k, ahead)'
  <2>1. \A d \in deps[k] : d \in Jobs
    BY <1>1 DEF DataType
  <2>2. \A d \in deps[k] : IsTerminal(status'[d]) => IsTerminal(status[d])
    BY <1>8, <2>1 DEF IsTerminal
  <2> QED BY <1>1, <1>8, <1>9, <2>2 DEF Noted, linkVars
<1>10. Told
  <2>1. \A k \in Jobs : deps[k] \subseteq deps'[k]
    <3>1. deps[j] = {}
      BY <1>1, <1>7 DEF FailuresOK
    <3> QED BY <1>8, <3>1
  <2>2. \A k \in Jobs : Ready(k, blockedBy) /\ MayStart(k) => MayStart(k)'
    BY <1>1, <1>7, <1>8 DEF MayStart
  <2>3. \A k \in Jobs : IsTerminal(status[k]) => status'[k] = status[k] /\ failure'[k] = failure[k]
    BY <1>1, <1>7, <1>8 DEF IsTerminal
  <2>4. \A k \in Known : k \in Jobs \ {j}
    BY <1>7 DEF Known
  <2> QED BY <1>9, <2>1, <2>2, <2>3, <2>4 DEF Told
<1>11. PICK f \in Frame : f = [Call("submit", "register", j) EXCEPT !.todo = sh.needs \cup before]
  BY <1>5 DEF Call, Frame, Statuses
<1>12. f.op = "submit" /\ f.at = "register" /\ f.job = j /\ f.todo = deps'[j]
  BY <1>8, <1>11 DEF Call
<1>13. BlameOK(f)'
  <2>1. Noted(j, f.todo)'
    BY <1>12 DEF Noted
  <2> QED BY <1>12, <2>1 DEF BlameOK, Claims
<1>14. CausesOK'
  <2>1. PICK a : Entering(t, a, f)
    BY <1>1, <1>3, <1>11, CallFacts, EnterPlaces
  <2>2. FrameOf(a)' = f /\ \A c \in Places' \ {a} : Kept(c)
    BY <2>1 DEF Entering, Kept
  <2>3. \E g : g = FrameOf(a)' /\ BlameOK(g)'
    BY <1>13, <2>2
  <2> QED BY <1>10, <2>2, <2>3, CausesStep
<1>15. FailuresOK'
  <2>1. ASSUME NEW k \in Jobs PROVE Blames(k, failure[k])' /\ Blames(k, depFailure[k])'
    <3>1. PICK x, g : x = failure[k] /\ g = depFailure[k]
      OBVIOUS
    <3>2. Blames(k, x)' /\ Blames(k, g)' /\ failure'[k] = x /\ depFailure'[k] = g
      BY <1>1, <1>10, <3>1, BlamesStay DEF FailuresOK, DataType
    <3> QED BY <3>2
  <2>2. \A k \in Jobs : failure'[k] # None => status'[k] \in {"Failed", "Cancelled"}
    BY <1>1, <1>7, <1>8 DEF FailuresOK
  <2>3. \A d \in Jobs : \A k \in dependents'[d] : d \in deps'[k]
    <3> SUFFICES ASSUME NEW d \in Jobs, NEW k \in dependents[d] PROVE d \in deps'[k]
      BY <1>1 DEF linkVars
    <3>1. k \in Jobs /\ d \in deps[k]
      BY <1>1 DEF DataType, FailuresOK
    <3> QED BY <1>10, <3>1 DEF Told
  <2>4. \A k \in Jobs : deps'[k] \subseteq 1..(k - 1)
    BY <1>1, <1>6, <1>7, <1>8 DEF FailuresOK
  <2>5. \A k \in Jobs \ Known' : deps'[k] = {} /\ depFailure'[k] = None
    BY <1>1, <1>7, <1>8 DEF FailuresOK
  <2>6. lastSimulation' \in Known' \cup {None}
    BY <1>1, <1>3, <1>7 DEF FailuresOK
  <2>7. \A k \in registered' : Noted(k, {})'
    <3> SUFFICES ASSUME NEW k \in registered PROVE Noted(k, {})'
      BY <1>1
    <3>1. k \in Jobs \ {j} /\ Noted(k, {})
      BY <1>1, <1>7 DEF DataType, FailuresOK
    <3> QED BY <1>9, <3>1
  <2>8. \A lane \in Lanes : \A k \in queue'[lane] : MayStart(k)'
    <3> SUFFICES ASSUME NEW lane \in Lanes, NEW k \in queue[lane] PROVE MayStart(k)'
      BY <1>1
    <3>1. k \in Jobs /\ Ready(k, blockedBy) /\ MayStart(k)
      BY <1>1 DEF DataType, JobsOK, FailuresOK, Lanes
    <3> QED BY <1>10, <3>1 DEF Told
  <2> QED BY <2>1, <2>2, <2>3, <2>4, <2>5, <2>6, <2>7, <2>8 DEF FailuresOK
<1> QED BY <1>14, <1>15

(* Registering with a job that has failed takes over its failure.            *)
LEMMA RegisterDependencyFailure ==
    ASSUME FailureInv, NEW t \in Threads, NEW d \in Jobs, RegisterDependency(t, d)
    PROVE  CausesOK' /\ FailuresOK'
<1>1. PICK j : j = Top(t).job
  OBVIOUS
<1>2. /\ DependencyInv /\ DataType /\ stack[t] # <<>> /\ Top(t) \in Frame
      /\ Top(t).op = "submit" /\ Top(t).at = "register"
      /\ j \in Jobs /\ j \in Known /\ j \notin registered /\ ~Ready(j, blockedBy) /\ ~IsQueued(j)
  BY <1>1, RegisteringFacts DEF RegisterDependency, FailureInv
<1>3. BlameOK(Top(t)) /\ FailuresOK /\ JobsOK
  BY <1>2, TopBlame
<1>4. /\ UNCHANGED <<next, shape, deps, registered, lastSimulation, status, failure, queue>>
      /\ d \in Top(t).todo
  BY DEF RegisterDependency, jobVars
<1>5. d \in deps[j] /\ Noted(j, Top(t).todo)
  BY <1>1, <1>2, <1>3, <1>4 DEF BlameOK
<1>6. PICK e : e = ResultFailure(d)
  OBVIOUS
<1>7. e \in Jobs \cup {None} /\ Blames(d, e) /\ (failure[d] # None => e # None)
  BY <1>2, <1>3, <1>6 DEF ResultFailure, DataType, FailuresOK
<1>8. \/ status[d] = "Succeeded" /\ UNCHANGED <<linkVars, depFailure>>
      \/ /\ depFailure' = [depFailure EXCEPT ![j] = IF depFailure[j] # None THEN depFailure[j] ELSE e]
         /\ UNCHANGED linkVars
      \/ /\ StillPending(d)
         /\ dependents' = [dependents EXCEPT ![d] = dependents[d] \cup {j}]
         /\ blockedBy' = [blockedBy EXCEPT ![j] = blockedBy[j] \cup {d}]
         /\ UNCHANGED depFailure
  BY <1>1, <1>6 DEF RegisterDependency
<1>9. /\ \A k \in Jobs \ {j} : blockedBy'[k] = blockedBy[k] /\ depFailure'[k] = depFailure[k]
      /\ blockedBy[j] \subseteq blockedBy'[j]
      /\ depFailure[j] # None => depFailure'[j] = depFailure[j]
      /\ depFailure'[j] = depFailure[j] \/ depFailure'[j] = e
      /\ \A k \in Jobs : \A x \in dependents'[k] : x \in dependents[k] \/ (k = d /\ x = j)
      /\ IsTerminal(status[d]) /\ failure[d] # None => depFailure'[j] # None
  <2>1. StillPending(d) => ~IsTerminal(status[d])
    BY DEF StillPending, IsTerminal
  <2>2. status[d] = "Succeeded" => failure[d] = None
    BY <1>3 DEF FailuresOK
  <2>3. CASE status[d] = "Succeeded" /\ UNCHANGED <<linkVars, depFailure>>
    BY <2>2, <2>3 DEF linkVars
  <2>4. CASE /\ depFailure' = [depFailure EXCEPT ![j] = IF depFailure[j] # None THEN depFailure[j] ELSE e]
             /\ UNCHANGED linkVars
    BY <1>2, <1>7, <2>4 DEF linkVars, DataType
  <2>5. CASE /\ StillPending(d)
             /\ dependents' = [dependents EXCEPT ![d] = dependents[d] \cup {j}]
             /\ blockedBy' = [blockedBy EXCEPT ![j] = blockedBy[j] \cup {d}]
             /\ UNCHANGED depFailure
    BY <1>2, <2>1, <2>5 DEF DataType
  <2> QED BY <1>8, <2>3, <2>4, <2>5
<1>10. ASSUME NEW k \in Jobs, NEW ahead, Noted(k, ahead) PROVE Noted(k, ahead)'
  <2> SUFFICES ASSUME k \notin MayRunOut, RequiresSuccess(k), NEW x \in deps[k] \ ahead,
                      IsTerminal(status[x]), failure[x] # None
               PROVE  depFailure'[k] # None \/ x \in blockedBy'[k]
    BY <1>4 DEF Noted, RequiresSuccess
  <2>1. depFailure[k] # None \/ x \in blockedBy[k]
    BY <1>10 DEF Noted
  <2> QED BY <1>9, <2>1
<1>11. Told
  <2>1. \A k \in Jobs : Ready(k, blockedBy) /\ MayStart(k) => MayStart(k)'
    BY <1>2, <1>4, <1>9 DEF MayStart, RequiresSuccess
  <2> QED BY <1>4, <1>10, <2>1 DEF Told, Known
<1>12. PICK f \in Frame : f = [Top(t) EXCEPT !.todo = Top(t).todo \ {d}]
  BY <1>2 DEF Frame
<1>13. f.op = "submit" /\ f.at = "register" /\ f.job = j /\ f.todo = Top(t).todo \ {d}
  BY <1>1, <1>2, <1>12 DEF Frame
<1>14. BlameOK(f)'
  <2>1. Noted(j, f.todo)'
    <3> SUFFICES ASSUME j \notin MayRunOut, RequiresSuccess(j), NEW x \in deps[j] \ f.todo,
                        IsTerminal(status[x]), failure[x] # None
                 PROVE  depFailure'[j] # None \/ x \in blockedBy'[j]
      BY <1>4 DEF Noted, RequiresSuccess
    <3>1. CASE x = d
      BY <1>9, <3>1
    <3>2. CASE x # d
      <4>1. depFailure[j] # None \/ x \in blockedBy[j]
        BY <1>5, <1>13, <3>2 DEF Noted
      <4> QED BY <1>9, <4>1
    <3> QED BY <3>1, <3>2
  <2>2. f.todo \subseteq deps'[j]
    BY <1>1, <1>2, <1>3, <1>4, <1>13 DEF BlameOK
  <2> QED BY <1>13, <2>1, <2>2 DEF BlameOK, Claims
<1>15. CausesOK'
  <2>1. Become(t, f)
    BY <1>12 DEF RegisterDependency
  <2>2. PICK h : Turning(t, h, f)
    BY <1>2, <2>1, CallFacts, BecomePlaces
  <2>3. FrameOf(h)' = f /\ \A c \in Places' \ {h} : Kept(c)
    BY <2>2 DEF Turning, Kept
  <2>4. \E g : g = FrameOf(h)' /\ BlameOK(g)'
    BY <1>14, <2>3
  <2> QED BY <1>11, <2>3, <2>4, CausesStep
<1>16. FailuresOK'
  <2>1. ASSUME NEW k \in Jobs PROVE Blames(k, failure[k])' /\ Blames(k, depFailure[k])'
    <3>1. PICK x, g : x = failure[k] /\ g = depFailure'[k]
      OBVIOUS
    <3>2. Blames(j, e)
      BY <1>2, <1>5, <1>7, BlamesOn
    <3>3. Blames(k, x) /\ Blames(k, g) /\ x \in Jobs \cup {None} /\ g \in Jobs \cup {None}
      BY <1>2, <1>3, <1>7, <1>9, <3>1, <3>2 DEF FailuresOK, DataType
    <3>4. Blames(k, x)' /\ Blames(k, g)' /\ failure'[k] = x
      BY <1>4, <1>11, <3>1, <3>3, BlamesStay
    <3> QED BY <3>1, <3>4
  <2>2. \A k \in Jobs : \A x \in dependents'[k] : k \in deps'[x]
    BY <1>3, <1>4, <1>5, <1>9 DEF FailuresOK
  <2>3. Known' = Known /\ \A k \in Jobs \ Known' : deps'[k] = {} /\ depFailure'[k] = None
    BY <1>2, <1>3, <1>4, <1>9 DEF FailuresOK, Known
  <2>4. \A k \in registered' : Noted(k, {})'
    BY <1>2, <1>3, <1>4, <1>10 DEF FailuresOK, DataType
  <2>5. \A lane \in Lanes : \A k \in queue'[lane] : MayStart(k)'
    BY <1>2, <1>3, <1>4, <1>11 DEF FailuresOK, JobsOK, Told, DataType, Lanes
  <2> QED BY <1>3, <1>4, <2>1, <2>2, <2>3, <2>4, <2>5 DEF FailuresOK
<1> QED BY <1>15, <1>16

(* A submission registers and then enqueues.                                 *)
LEMMA RegistersFailure ==
    ASSUME FailureInv, NEW t \in Threads, RegisterDone(t) \/ RegisterThrows(t)
    PROVE  CausesOK' /\ FailuresOK'
<1>1. At(t, "submit", "register")
  BY DEF RegisterDone, RegisterThrows
<1>2. PICK j : j = Top(t).job
  OBVIOUS
<1>3. /\ DependencyInv /\ DataType /\ stack[t] # <<>> /\ Top(t) \in Frame
      /\ Top(t).op = "submit" /\ Top(t).at = "register" /\ j \in Jobs
  BY <1>1, <1>2, RegisteringFacts DEF FailureInv
<1>4. BlameOK(Top(t)) /\ FailuresOK /\ JobsOK
  BY <1>3, TopBlame
<1>5. /\ registered' = registered \cup {j}
      /\ UNCHANGED <<next, shape, deps, lastSimulation, blockedBy, dependents, status, failure, depFailure, queue>>
  BY <1>2 DEF RegisterDone, RegisterThrows, linkVars, stateVars
<1>6. j \notin MayRunOut /\ RegisterDone(t) => Noted(j, {})
  <2>1. RegisterDone(t) => Top(t).todo = {}
    BY DEF RegisterDone
  <2> QED BY <1>2, <1>3, <1>4, <2>1 DEF BlameOK
<1>7. j \in MayRunOut \/ RegisterDone(t)
  BY <1>2 DEF RegisterThrows
<1>8. \A k \in Jobs : \A ahead : Noted(k, ahead) => Noted(k, ahead)'
  BY <1>5 DEF Noted, RequiresSuccess
<1>9. Told
  <2>1. \A k : MayStart(k)' <=> MayStart(k)
    BY <1>5 DEF MayStart, RequiresSuccess
  <2> QED BY <1>5, <1>8, <2>1 DEF Told, Known
<1>10. FailuresOK'
  <2>1. ASSUME NEW k \in Jobs PROVE Blames(k, failure[k])' /\ Blames(k, depFailure[k])'
    <3>1. PICK x, g : x = failure[k] /\ g = depFailure[k]
      OBVIOUS
    <3>2. Blames(k, x)' /\ Blames(k, g)' /\ failure'[k] = x /\ depFailure'[k] = g
      BY <1>3, <1>4, <1>5, <1>9, <3>1, BlamesStay DEF FailuresOK, DataType
    <3> QED BY <3>2
  <2>2. \A k \in registered' : Noted(k, {})'
    <3>1. Noted(j, {})
      BY <1>6, <1>7 DEF Noted
    <3> QED BY <1>3, <1>4, <1>5, <1>8, <3>1 DEF FailuresOK, DataType
  <2>3. \A lane \in Lanes : \A k \in queue'[lane] : MayStart(k)'
    BY <1>4, <1>5 DEF FailuresOK, MayStart, RequiresSuccess
  <2>4. Known' = Known
    BY <1>5 DEF Known
  <2> QED BY <1>4, <1>5, <2>1, <2>2, <2>3, <2>4 DEF FailuresOK
<1>11. PICK f \in Frame : f = Call("submit", "return", j)
  BY <1>3 DEF Call, Frame, Statuses
<1>12. BlameOK(f)'
  BY <1>11, Blameless DEF Call
<1>13. CASE Become(t, f)
  <2>1. PICK h : Turning(t, h, f)
    BY <1>3, <1>13, CallFacts, BecomePlaces
  <2>2. FrameOf(h)' = f /\ \A c \in Places' \ {h} : Kept(c)
    BY <2>1 DEF Turning, Kept
  <2>3. \E g : g = FrameOf(h)' /\ BlameOK(g)'
    BY <1>12, <2>2
  <2>4. CausesOK'
    BY <1>9, <2>2, <2>3, CausesStep
  <2> QED BY <1>10, <2>4
<1>14. ASSUME NEW g \in Frame, BecomeAndEnter(t, f, g), BlameOK(g)' PROVE CausesOK' /\ FailuresOK'
  <2>1. PICK h, a : Calling(t, h, a, f, g)
    BY <1>3, <1>14, CallFacts, CallPlaces
  <2>2. FrameOf(h)' = f /\ FrameOf(a)' = g /\ \A c \in Places' \ {a} : Kept(c) \/ c = h
    BY <2>1 DEF Calling, Kept
  <2>3. \A c \in Places' \ {a} : Kept(c) \/ \E b : (b = FrameOf(c)' /\ BlameOK(b)')
    BY <1>12, <2>2
  <2>4. \E b : (b = FrameOf(a)' /\ BlameOK(b)')
    BY <1>14, <2>2
  <2>5. CausesOK'
    BY <1>9, <2>3, <2>4, CausesStep
  <2> QED BY <1>10, <2>5
<1>15. CASE RegisterThrows(t)
  <2>1. PICK g : g = FinishCall(j, "Cancelled", j)
    OBVIOUS
  <2>2. /\ g \in Frame /\ Claims(g) /\ g.cause = j /\ g.job = j /\ g.status = "Cancelled"
        /\ j \in MayRunOut /\ BecomeAndEnter(t, f, g)
    <3>1. g \in Frame /\ Claims(g) /\ g.cause = j /\ g.job = j /\ g.status = "Cancelled"
      BY <1>3, <2>1 DEF FinishCall, Call, Frame, Statuses, Claims
    <3>2. j \in MayRunOut /\ BecomeAndEnter(t, f, g)
      BY <1>2, <1>11, <1>15, <2>1 DEF RegisterThrows
    <3> QED BY <3>1, <3>2
  <2>3. BlameOK(g)'
    BY <2>2 DEF BlameOK, Claims
  <2> QED BY <1>14, <2>2, <2>3
<1>16. CASE RegisterDone(t)
  <2>1. PICK x \in Jobs \cup {None} : x = depFailure[j]
    BY <1>3 DEF DataType
  <2>2. \/ Become(t, f)
        \/ BecomeAndEnter(t, f, FinishCall(j, "Cancelled", x))
        \/ BecomeAndEnter(t, f, Call("enqueue", "claim", j)) /\ MayStart(j)
    <3>1. DependenciesStop(j, FALSE, depFailure[j]) \/ MayStart(j)
      BY DEF DependenciesStop, MayStart
    <3> QED BY <1>2, <1>11, <1>16, <2>1, <3>1 DEF RegisterDone
  <2>3. CASE BecomeAndEnter(t, f, FinishCall(j, "Cancelled", x))
    <3>1. PICK g : g = FinishCall(j, "Cancelled", x)
      OBVIOUS
    <3>2. g \in Frame /\ Claims(g) /\ g.cause = x /\ g.job = j /\ g.status = "Cancelled"
      <4>1. PICK c : c = Call("finish", "claim", j)
        OBVIOUS
      <4>2. c \in Frame /\ c.op = "finish" /\ c.at = "claim" /\ c.job = j
        BY <1>3, <4>1 DEF Call, Frame, Statuses
      <4>3. g = [c EXCEPT !.status = "Cancelled", !.cause = x]
        BY <3>1, <4>1 DEF FinishCall
      <4> QED BY <2>1, <4>2, <4>3 DEF Frame, Statuses, Claims
    <3>3. Blames(j, x)'
      BY <1>3, <1>4, <1>9, <2>1, BlamesStay DEF FailuresOK
    <3>4. BlameOK(g)'
      BY <3>2, <3>3 DEF BlameOK, Claims
    <3> QED BY <1>14, <2>3, <3>1, <3>2, <3>4
  <2>4. CASE BecomeAndEnter(t, f, Call("enqueue", "claim", j)) /\ MayStart(j)
    <3>1. PICK g : g = Call("enqueue", "claim", j)
      OBVIOUS
    <3>2. g \in Frame /\ g.op = "enqueue" /\ g.job = j
      BY <1>3, <3>1 DEF Call, Frame, Statuses
    <3>3. MayStart(j)'
      BY <1>5, <2>4 DEF MayStart, RequiresSuccess
    <3>4. BlameOK(g)'
      BY <3>2, <3>3 DEF BlameOK, Claims
    <3> QED BY <1>14, <2>4, <3>1, <3>2, <3>4
  <2> QED BY <1>13, <2>2, <2>3, <2>4
<1> QED BY <1>15, <1>16

-----------------------------------------------------------------------------
(* The failure invariant is inductive. *)

(* Every step keeps the failure invariant.                                   *)
LEMMA FailureStep == ASSUME FailureInv, [Next]_vars PROVE FailureInv'
<1>1. ExecutionInv'
  BY ExecutionStep DEF FailureInv
<1>2. CausesOK' /\ FailuresOK'
  <2>1. CASE Quiet
    BY <2>1, QuietFailure
  <2>2. CASE Ends
    BY <2>2, EndsFailure
  <2>3. ASSUME NEW t \in Threads, Submits(t) PROVE CausesOK' /\ FailuresOK'
    BY <2>3, SubmitBeginFailure, RegisterDependencyFailure, RegistersFailure DEF Submits
  <2>4. ASSUME NEW t \in Threads, Finishes(t) PROVE CausesOK' /\ FailuresOK'
    BY <2>4, SettleFailure, FinishClaimFailure, FinishReleaseFailure DEF Finishes
  <2>5. ASSUME NEW t \in Threads, Executions(t) PROVE CausesOK' /\ FailuresOK'
    BY <2>5, EnqueueFailure, TakeFailure, ExecuteFailure DEF Executions
  <2> QED BY <2>1, <2>2, <2>3, <2>4, <2>5, StepKinds DEF FailureInv
<1> QED BY <1>1, <1>2 DEF FailureInv

(* It holds at the start.                                                    *)
LEMMA FailureInit == ASSUME Init PROVE FailureInv
<1>1. CausesOK
  BY NoPlaces DEF CausesOK
<1>2. FailuresOK
  BY JobSystemAssumption DEF Init, FailuresOK, Blames, Noted, Lanes, Jobs
<1> QED BY <1>1, <1>2, ExecutionInit DEF FailureInv

(* Whatever a job says of an exception was thrown by the job it names, and   *)
(* every job that requires success and can start has been told of nothing.   *)
THEOREM FailureInvariant == Spec => []FailureInv
  BY FailureInit, FailureStep, PTL DEF Spec

(* A job that requires success does not run after a dependency's exception,  *)
(* whether RegisterDependency or FinishJob's release found the failure, and  *)
(* in whatever order the dependencies came to an end.                        *)
THEOREM FailuresStopDependents == Spec => []FailureStopsDependents
<1>1. ASSUME FailureInv PROVE FailureStopsDependents
  <2> SUFFICES ASSUME NEW j \in Jobs \ MayRunOut, NEW c \in Calls("execute"), FrameOf(c).job = j,
                      RequiresSuccess(j), NEW d \in deps[j], IsTerminal(status[d])
               PROVE  failure[d] = None
    BY DEF FailureStopsDependents, Executes
  <2>1. PICK f : f = FrameOf(c)
    OBVIOUS
  <2>2. c \in Places /\ f.op = "execute" /\ f.job = j
    BY <2>1 DEF Calls
  <2>3. Ready(j, blockedBy)
    BY <1>1, <2>1, <2>2, CarrierFacts DEF FailureInv, Carries
  <2>4. MayStart(j)
    BY <1>1, <2>1, <2>2 DEF FailureInv, CausesOK, BlameOK
  <2>5. Noted(j, {})
    BY <1>1, <2>3 DEF FailureInv, FailuresOK, Ready
  <2> QED BY <2>3, <2>4, <2>5 DEF Noted, MayStart, Ready
<1> QED BY FailureInvariant, <1>1, PTL

(* The exception that a handle reports is the job's own or was thrown by a   *)
(* job that it depends on, through any number of jobs that were cancelled    *)
(* because of it.                                                            *)
THEOREM FailuresOriginate == Spec => []FailureOriginates
<1>1. ASSUME FailureInv PROVE FailureOriginates
  <2> SUFFICES ASSUME NEW j \in Jobs, NEW e, e = ResultFailure(j), e # None
               PROVE  /\ failure[e] = e /\ (status[e] = "Failed" \/ e \in MayRunOut)
                      /\ e = j \/ Precedes(e, j)
    BY DEF FailureOriginates
  <2>1. Blames(j, e)
    BY <1>1 DEF FailureInv, FailuresOK, ResultFailure
  <2>2. ASSUME Reaches(e, j) PROVE Precedes(e, j)
    <3>1. PICK n \in 1..(j - e) : \E path \in [1..(n + 1) -> Jobs] :
              path[1] = e /\ path[n + 1] = j /\ \A i \in 1..n : path[i] \in deps[path[i + 1]]
      BY <2>2 DEF Reaches
    <3>2. e \in Jobs
      <4>1. e \in Jobs \cup {None}
        BY <1>1, InvParts, TypePart DEF FailureInv, ExecutionInv, DataType, ResultFailure
      <4> QED BY <4>1
    <3>3. n \in 1..JobCount
      BY <3>1, <3>2, JobSystemAssumption DEF Jobs
    <3> QED BY <3>1, <3>3 DEF Precedes
  <2> QED BY <2>1, <2>2 DEF Blames, Origin
<1> QED BY FailureInvariant, <1>1, PTL

-----------------------------------------------------------------------------
(* What a Close or a cancelled scope leaves behind. *)

(* Calls that a step may change without further notice.                      *)
Aside(f) == f.op \notin {"execute", "close"} /\ ~Claims(f)
(* While jobs are refused, what does not wait any more stays so.             *)
Settling ==
    /\ accepting' = accepting
    /\ ~accepting => Known' = Known /\ \A j \in Jobs : IsSettled(j) => IsSettled(j)'
CallsDrain == PoolOK /\ RunsOK /\ SweepOK /\ DrainOK

(* A step of one call, at place p.                                           *)
LEMMA DrainStep ==
    ASSUME DrainInv, Settling, NEW p, Places' \subseteq Places \cup {p},
           \A c \in Places \ {p} :
               /\ c \in Places'
               /\ Kept(c) \/ (Aside(FrameOf(c)) /\ \E g : (g = FrameOf(c)' /\ Aside(g))),
           p \in Places => FrameOf(p).op # "close",
           p \in Places' => \E g : (g = FrameOf(p)' /\ g.op # "close" /\ (g.op = "execute" => p[1] \in Pool)),
           p \in Places /\ Claims(FrameOf(p)) => IsTerminal(status'[FrameOf(p).job]),
           p \in Places /\ Started(FrameOf(p)) =>
               p \in Places' /\ \E g : (g = FrameOf(p)' /\ g.job = FrameOf(p).job /\ Runs(g)),
           \A j \in Jobs : status'[j] = "Running" /\ status[j] # "Running" =>
               p[1] \in Pool /\ p \in Places' /\ \E g : (g = FrameOf(p)' /\ g.job = j /\ Runs(g))
    PROVE  CallsDrain'
<1>1. PoolOK /\ RunsOK /\ SweepOK /\ DrainOK /\ CallsOK /\ ExecutionInv
  BY DEF DrainInv, DrainParts, ExecutionInv
<1>2. ASSUME NEW c \in Places', c # p, NEW g, g = FrameOf(c)', ~Aside(g)
      PROVE  c \in Places /\ FrameOf(c) = g
  BY <1>2 DEF Kept
<1>3. ASSUME NEW c \in Places, c # p, ~Aside(FrameOf(c))
      PROVE  c \in Places' /\ FrameOf(c)' = FrameOf(c)
  BY <1>3 DEF Kept
<1>4. PoolOK'
  <2> SUFFICES ASSUME NEW c \in Places', FrameOf(c)'.op = "execute" PROVE c[1] \in Pool
    BY DEF PoolOK
  <2>1. PICK g : g = FrameOf(c)'
    OBVIOUS
  <2>2. CASE c = p
    BY <2>1, <2>2
  <2>3. CASE c # p
    <3>1. ~Aside(g)
      BY <2>1 DEF Aside
    <3>2. c \in Places /\ FrameOf(c) = g
      BY <1>2, <2>1, <2>3, <3>1
    <3> QED BY <1>1, <2>1, <3>2 DEF PoolOK
  <2> QED BY <2>2, <2>3
<1>5. RunsOK'
  <2> SUFFICES ASSUME NEW j \in Jobs, status'[j] = "Running"
               PROVE  \E c \in Places' : c[1] \in Pool /\ FrameOf(c)'.job = j /\ Runs(FrameOf(c))'
    BY DEF RunsOK
  <2>1. CASE status[j] # "Running"
    <3>1. PICK g : g = FrameOf(p)' /\ g.job = j /\ Runs(g) /\ p \in Places' /\ p[1] \in Pool
      BY <2>1
    <3>2. Runs(g)' = Runs(g)
      BY DEF Runs, Started, Claims
    <3> QED BY <3>1, <3>2 DEF Runs, Started, Claims
  <2>2. CASE status[j] = "Running"
    <3>1. PICK c \in Places : c[1] \in Pool /\ FrameOf(c).job = j /\ Runs(FrameOf(c))
      BY <1>1, <2>2 DEF RunsOK
    <3>2. CASE c # p
      <4>1. ~Aside(FrameOf(c))
        BY <3>1 DEF Aside, Runs, Started
      <4>2. c \in Places' /\ FrameOf(c)' = FrameOf(c)
        BY <1>3, <3>2, <4>1
      <4> QED BY <3>1, <4>2 DEF Runs, Started, Claims
    <3>3. CASE c = p
      <4>1. ~Claims(FrameOf(p))
        BY <3>1, <3>3 DEF IsTerminal
      <4>2. p \in Places' /\ \E g : (g = FrameOf(p)' /\ g.job = j /\ Runs(g))
        BY <3>1, <3>3, <4>1 DEF Runs
      <4> QED BY <3>1, <3>3, <4>2 DEF Runs, Started, Claims
    <3> QED BY <3>2, <3>3
  <2> QED BY <2>1, <2>2
<1>6. SweepOK'
  <2> SUFFICES ASSUME NEW c \in Places', Sweeps(FrameOf(c)'), NEW j \in Known' \ FrameOf(c)'.todo
               PROVE  IsSettled(j)' \/ Ending(<<c[1], c[2] + 1>>, j)'
    BY DEF SweepOK, Sweeps
  <2>1. PICK g : g = FrameOf(c)'
    OBVIOUS
  <2>2. c # p /\ ~Aside(g)
    BY <2>1 DEF Aside, Sweeps
  <2>3. c \in Places /\ FrameOf(c) = g
    BY <1>2, <2>1, <2>2
  <2>4. ~accepting
    BY <1>1, <2>1, <2>3 DEF CallsOK, CallOK, Sweeps
  <2>5. j \in Known \ FrameOf(c).todo /\ j \in Jobs
    BY <2>1, <2>3, <2>4 DEF Settling, Known
  <2>6. PICK e : e = <<c[1], c[2] + 1>>
    OBVIOUS
  <2>7. IsSettled(j) \/ Ending(e, j)
    BY <1>1, <2>1, <2>3, <2>5, <2>6 DEF SweepOK
  <2>8. CASE IsSettled(j)
    BY <2>4, <2>5, <2>8 DEF Settling
  <2>9. CASE Ending(e, j)
    <3>1. CASE e = p
      BY <2>9, <3>1 DEF Ending, IsSettled, IsTerminal
    <3>2. CASE e # p
      <4>1. e \in Places' /\ FrameOf(e)' = FrameOf(e)
        BY <1>3, <2>9, <3>2 DEF Ending, Aside
      <4>2. Ending(e, j)'
        BY <2>9, <4>1 DEF Ending, Claims
      <4> QED BY <2>6, <4>2
    <3> QED BY <3>1, <3>2
  <2> QED BY <2>7, <2>8, <2>9
<1>7. DrainOK'
  <2> SUFFICES ASSUME ~accepting', NoClose', NEW j \in Jobs PROVE IsSettled(j)'
    BY DEF DrainOK
  <2>1. NoClose
    <3> SUFFICES ASSUME NEW c \in Places, FrameOf(c).op = "close" PROVE FALSE
      BY DEF NoClose
    <3>1. c # p /\ ~Aside(FrameOf(c))
      BY DEF Aside
    <3>2. c \in Places' /\ FrameOf(c)' = FrameOf(c)
      BY <1>3, <3>1
    <3> QED BY <3>2 DEF NoClose
  <2> QED BY <1>1, <2>1 DEF DrainOK, Settling
<1> QED BY <1>4, <1>5, <1>6, <1>7 DEF CallsDrain

(* A call is entered, goes on, makes another one, returns.                   *)
LEMMA DrainEnter ==
    ASSUME DrainInv, Settling, NEW t \in Threads, NEW f \in Frame, Enter(t, f),
           f.op # "close", f.op = "execute" => t \in Pool,
           \A j \in Jobs : status'[j] = "Running" => status[j] = "Running"
    PROVE  CallsDrain'
<1>1. PICK a : Entering(t, a, f)
  BY CallFacts, EnterPlaces DEF DrainInv, ExecutionInv
<1>2. /\ a[1] = t /\ a \notin Places /\ Places' = Places \cup {a} /\ FrameOf(a)' = f
      /\ \A c \in Places : c \in Places' /\ Kept(c)
  BY <1>1 DEF Entering, Kept
<1> QED BY <1>2, DrainStep

(* Going on within a call keeps what the drain is owed.                      *)
LEMMA DrainTurn ==
    ASSUME DrainInv, Settling, NEW t \in Threads, stack[t] # <<>>, NEW f \in Frame, Become(t, f),
           Top(t).op # "close", f.op # "close", f.op = "execute" => Top(t).op = "execute",
           Claims(Top(t)) => IsTerminal(status'[Top(t).job]),
           Started(Top(t)) => f.job = Top(t).job /\ Runs(f),
           \A j \in Jobs : status'[j] = "Running" /\ status[j] # "Running" =>
               Top(t).op = "execute" /\ f.job = j /\ Runs(f)
    PROVE  CallsDrain'
<1>1. PICK h : Turning(t, h, f)
  BY CallFacts, BecomePlaces DEF DrainInv, ExecutionInv
<1>2. /\ h[1] = t /\ h \in Places /\ FrameOf(h) = Top(t) /\ Places' = Places /\ FrameOf(h)' = f
      /\ \A c \in Places \ {h} : c \in Places' /\ Kept(c)
  BY <1>1 DEF Turning, Kept
<1>3. Top(t).op = "execute" => h[1] \in Pool
  BY <1>2 DEF DrainInv, DrainParts, PoolOK
<1> QED BY <1>2, <1>3, DrainStep

(* Calling another operation keeps it.                                       *)
LEMMA DrainCall ==
    ASSUME DrainInv, Settling, NEW t \in Threads, stack[t] # <<>>, NEW f \in Frame, NEW g \in Frame,
           BecomeAndEnter(t, f, g), Aside(Top(t)), Aside(f), g.op \notin {"execute", "close"},
           \A j \in Jobs : status'[j] = "Running" => status[j] = "Running"
    PROVE  CallsDrain'
<1>1. PICK h, a : Calling(t, h, a, f, g)
  BY CallFacts, CallPlaces DEF DrainInv, ExecutionInv
<1>2. /\ a \notin Places /\ Places' = Places \cup {a} /\ FrameOf(a)' = g
      /\ h \in Places /\ FrameOf(h) = Top(t) /\ FrameOf(h)' = f
      /\ \A c \in Places \ {h} : c \in Places' /\ Kept(c)
  BY <1>1 DEF Calling, Kept
<1>3. \A c \in Places \ {a} :
               /\ c \in Places'
               /\ Kept(c) \/ (Aside(FrameOf(c)) /\ \E b : (b = FrameOf(c)' /\ Aside(b)))
  BY <1>2
<1> QED BY <1>2, <1>3, DrainStep

(* Leaving a call that owes nothing keeps it.                                *)
LEMMA DrainLeave ==
    ASSUME DrainInv, Settling, NEW t \in Threads, stack[t] # <<>>, Return(t),
           Top(t).op # "close", ~Started(Top(t)), Claims(Top(t)) => IsTerminal(status'[Top(t).job]),
           \A j \in Jobs : status'[j] = "Running" => status[j] = "Running"
    PROVE  CallsDrain'
<1>1. PICK h : Leaving(t, h)
  BY CallFacts, ReturnPlaces DEF DrainInv, ExecutionInv
<1>2. /\ h \in Places /\ FrameOf(h) = Top(t) /\ Places' = Places \ {h}
      /\ \A c \in Places \ {h} : c \in Places' /\ Kept(c)
  BY <1>1 DEF Leaving, Kept
<1> QED BY <1>2, DrainStep

(* Steps that leave every state alone.                                       *)
LEMMA StatusStill ==
    ASSUME UNCHANGED <<next, accepting, status>>
    PROVE  Settling /\ \A j \in Jobs : status'[j] = status[j]
  BY DEF Settling, Known, IsSettled

(* What is known of the innermost call of a thread.                          *)
LEMMA TopDrain ==
    ASSUME DrainInv, NEW t \in Threads, stack[t] # <<>>
    PROVE  /\ Top(t) \in Frame /\ CallOK(Top(t)) /\ FrameOK(t, Top(t)) /\ DataType /\ ExecutionInv
           /\ Claims(Top(t)) \/ Carries(Top(t)) \/ Top(t).op = "submit" => Top(t).job \in Jobs
<1>1. PICK h \in Places : FrameOf(h) = Top(t)
  BY CallFacts, TopPlace DEF DrainInv, ExecutionInv
<1>2. ExecutionInv /\ DependencyInv
  BY DEF DrainInv, ExecutionInv
<1>3. Top(t) \in Frame /\ FrameOK(t, Top(t)) /\ DataType
  BY <1>2, CallFacts
<1>4. /\ CallOK(Top(t))
      /\ Claims(Top(t)) \/ Carries(Top(t)) \/ Top(t).op = "submit" => Top(t).job \in Jobs
  BY <1>1, <1>2, CarrierFacts
<1> QED BY <1>2, <1>3, <1>4

(* Submit.                                                                   *)
LEMMA SubmitsDrain ==
    ASSUME DrainInv, NEW t \in Threads, Submits(t) PROVE CallsDrain'
<1>1. CASE \E sh \in UNION {Shapes[j] : j \in Jobs} : SubmitBegin(t, sh)
  <2>1. PICK sh : SubmitBegin(t, sh)
    BY <1>1
  <2>2. DataType /\ DependencyInv
    BY CallFacts DEF DrainInv, ExecutionInv
  <2>3. PICK j \in Jobs : j = next
    BY <2>1, <2>2, JobSystemAssumption DEF SubmitBegin, DataType, Jobs
  <2>4. PICK X : Enter(t, [Call("submit", "register", j) EXCEPT !.todo = X]) /\ X \subseteq Jobs
    <3>1. PICK before \in SUBSET {lastSimulation} :
              /\ (lastSimulation = None => before = {})
              /\ deps' = [deps EXCEPT ![j] = sh.needs \cup before]
              /\ Enter(t, [Call("submit", "register", j) EXCEPT !.todo = sh.needs \cup before])
      BY <2>1, <2>3 DEF SubmitBegin
    <3>2. deps'[j] \subseteq Jobs
      BY <2>1, <2>2, SubmitBeginInv, CallFacts DEF DataType, DependencyInv, TypeOK
    <3>3. deps'[j] = sh.needs \cup before
      BY <2>2, <3>1 DEF DataType
    <3> QED BY <3>1, <3>2, <3>3
  <2>5. PICK f \in Frame : f = [Call("submit", "register", j) EXCEPT !.todo = X]
    BY <2>4 DEF Call, Frame, Statuses
  <2>6. f.op = "submit"
    BY <2>5 DEF Call
  <2>7. Settling /\ \A k \in Jobs : status'[k] = "Running" => status[k] = "Running"
    BY <2>1, <2>2, <2>3 DEF SubmitBegin, Settling, poolVars, DataType
  <2> QED BY <2>4, <2>5, <2>6, <2>7, DrainEnter
<1>2. ASSUME NEW d \in Jobs, RegisterDependency(t, d) PROVE CallsDrain'
  <2>1. /\ stack[t] # <<>> /\ Top(t).op = "submit" /\ UNCHANGED <<next, accepting, status>>
        /\ Become(t, [Top(t) EXCEPT !.todo = Top(t).todo \ {d}])
    BY <1>2 DEF RegisterDependency, At, jobVars, poolVars
  <2>2. PICK f \in Frame : f = [Top(t) EXCEPT !.todo = Top(t).todo \ {d}]
    BY <2>1, TopDrain DEF Frame
  <2>3. f.op = "submit"
    BY <2>1, <2>2, TopDrain DEF Frame
  <2> QED BY <2>1, <2>2, <2>3, StatusStill, DrainTurn DEF Claims, Started
<1>3. CASE RegisterDone(t) \/ RegisterThrows(t)
  <2>1. stack[t] # <<>> /\ Top(t).op = "submit" /\ UNCHANGED <<next, accepting, status>>
    BY <1>3 DEF RegisterDone, RegisterThrows, At, jobVars, poolVars, stateVars
  <2>2. PICK j \in Jobs : j = Top(t).job
    BY <2>1, TopDrain
  <2>3. PICK f \in Frame : f = Call("submit", "return", j)
    BY DEF Call, Frame, Statuses
  <2>4. f.op = "submit"
    BY <2>3 DEF Call
  <2>5. PICK e \in Jobs \cup {None} :
            \/ Become(t, f) \/ BecomeAndEnter(t, f, FinishCall(j, "Cancelled", e))
            \/ BecomeAndEnter(t, f, Call("enqueue", "claim", j))
    <3>1. DataType
      BY <2>1, TopDrain
    <3>2. CASE RegisterDone(t)
      <4>1. PICK e \in Jobs \cup {None} : e = depFailure[j]
        BY <3>1 DEF DataType
      <4> QED BY <2>2, <2>3, <3>2, <4>1 DEF RegisterDone
    <3>3. CASE RegisterThrows(t)
      <4>1. PICK e \in Jobs \cup {None} : e = j
        OBVIOUS
      <4> QED BY <2>2, <2>3, <3>3, <4>1 DEF RegisterThrows
    <3> QED BY <1>3, <3>2, <3>3
  <2>6. ASSUME NEW g \in Frame, BecomeAndEnter(t, f, g), g.op \in {"finish", "enqueue"} PROVE CallsDrain'
    BY <2>1, <2>4, <2>6, StatusStill, DrainCall DEF Aside, Claims
  <2>7. FinishCall(j, "Cancelled", e) \in Frame /\ FinishCall(j, "Cancelled", e).op = "finish"
    BY DEF FinishCall, Call, Frame, Statuses
  <2>8. Call("enqueue", "claim", j) \in Frame /\ Call("enqueue", "claim", j).op = "enqueue"
    BY DEF Call, Frame, Statuses
  <2>9. CASE Become(t, f)
    BY <2>1, <2>4, <2>9, StatusStill, DrainTurn DEF Claims, Started
  <2> QED BY <2>5, <2>6, <2>7, <2>8, <2>9
<1> QED BY <1>1, <1>2, <1>3 DEF Submits

(* FinishJob.                                                                *)
LEMMA FinishesDrain ==
    ASSUME DrainInv, NEW t \in Threads, Finishes(t) PROVE CallsDrain'
<1>1. CASE FinishClaim(t)
  <2>1. /\ stack[t] # <<>> /\ Top(t).op = "finish" /\ Top(t).at = "claim" /\ UNCHANGED <<next, accepting>>
        /\ Claims(Top(t)) /\ ~Started(Top(t))
    BY <1>1 DEF FinishClaim, At, jobVars, poolVars, Claims, Started
  <2>2. PICK j \in Jobs : j = Top(t).job
    BY <2>1, TopDrain
  <2>3. Top(t) \in Frame /\ DataType /\ IsTerminal(Top(t).status)
    BY <2>1, TopDrain DEF FrameOK
  <2>4. CASE IsTerminal(status[j])
    <3>1. Return(t) /\ UNCHANGED <<next, accepting, status>>
      BY <1>1, <2>1, <2>2, <2>4 DEF FinishClaim, stateVars
    <3> QED BY <2>1, <2>2, <2>4, <3>1, StatusStill, DrainLeave
  <2>5. CASE ~IsTerminal(status[j])
    <3>1. PICK f \in Frame : f = [Top(t) EXCEPT !.at = "settle", !.was = status[j], !.todo = dependents[j]]
      BY <2>3 DEF Frame, DataType
    <3>2. f.op = "finish"
      BY <2>1, <2>3, <3>1 DEF Frame
    <3>3. Become(t, f) /\ status' = [status EXCEPT ![j] = Top(t).status]
      BY <1>1, <2>2, <2>5, <3>1 DEF FinishClaim
    <3>4. IsTerminal(status'[j]) /\ \A k \in Jobs \ {j} : status'[k] = status[k]
      BY <2>3, <3>3 DEF DataType
    <3>5. Settling /\ \A k \in Jobs : status'[k] = "Running" => status[k] = "Running"
      BY <2>1, <3>4 DEF Settling, IsSettled, IsTerminal, Known
    <3> QED BY <2>1, <2>2, <3>2, <3>3, <3>4, <3>5, DrainTurn
  <2> QED BY <2>4, <2>5
<1>2. CASE FinishSettle(t)
  <2>1. /\ stack[t] # <<>> /\ Top(t).op = "finish" /\ Top(t).at = "settle" /\ UNCHANGED <<next, accepting, status>>
        /\ Become(t, [Top(t) EXCEPT !.at = "release"])
    BY <1>2 DEF FinishSettle, At, jobVars, stateVars, poolVars
  <2>2. PICK f \in Frame : f = [Top(t) EXCEPT !.at = "release"]
    BY <2>1, TopDrain DEF Frame
  <2>3. f.op = "finish"
    BY <2>1, <2>2, TopDrain DEF Frame
  <2> QED BY <2>1, <2>2, <2>3, StatusStill, DrainTurn DEF Claims, Started
<1>3. ASSUME NEW d \in Jobs, FinishRelease(t, d) PROVE CallsDrain'
  <2>1. stack[t] # <<>> /\ Top(t).op = "finish" /\ Top(t).at = "release" /\ UNCHANGED <<next, accepting, status>>
    BY <1>3 DEF FinishRelease, At, jobVars, poolVars
  <2>2. PICK f \in Frame : f = [Top(t) EXCEPT !.todo = Top(t).todo \ {d}]
    BY <2>1, TopDrain DEF Frame
  <2>3. f.op = "finish" /\ f.at = "release"
    BY <2>1, <2>2, TopDrain DEF Frame
  <2>4. PICK e \in Jobs \cup {None} :
            \/ Become(t, f) \/ BecomeAndEnter(t, f, FinishCall(d, "Cancelled", e))
            \/ BecomeAndEnter(t, f, Call("enqueue", "claim", d))
    <3>1. DataType /\ Top(t) \in Frame
      BY <2>1, TopDrain
    <3>2. CASE IsTerminal(status[d]) \/ blockedBy[d] = {}
      BY <1>3, <2>2, <3>2 DEF FinishRelease
    <3>3. CASE ~(IsTerminal(status[d]) \/ blockedBy[d] = {})
      <4>1. depFailure'[d] = depFailure[d] \/ depFailure'[d] = Top(t).cause
        BY <1>3, <3>1, <3>3 DEF FinishRelease, DataType
      <4>2. PICK e \in Jobs \cup {None} : e = depFailure'[d]
        BY <3>1, <4>1 DEF DataType, Frame
      <4> QED BY <1>3, <2>2, <3>3, <4>2 DEF FinishRelease
    <3> QED BY <3>2, <3>3
  <2>5. ASSUME NEW g \in Frame, BecomeAndEnter(t, f, g), g.op \in {"finish", "enqueue"} PROVE CallsDrain'
    BY <2>1, <2>3, <2>5, StatusStill, DrainCall DEF Aside, Claims
  <2>6. FinishCall(d, "Cancelled", e) \in Frame /\ FinishCall(d, "Cancelled", e).op = "finish"
    BY DEF FinishCall, Call, Frame, Statuses
  <2>7. Call("enqueue", "claim", d) \in Frame /\ Call("enqueue", "claim", d).op = "enqueue"
    BY DEF Call, Frame, Statuses
  <2>8. CASE Become(t, f)
    BY <2>1, <2>3, <2>8, StatusStill, DrainTurn DEF Claims, Started
  <2> QED BY <2>4, <2>5, <2>6, <2>7, <2>8
<1> QED BY <1>1, <1>2, <1>3 DEF Finishes

(* Enqueue, and the threads that execute jobs.                               *)
LEMMA ExecutionsDrain ==
    ASSUME DrainInv, NEW t \in Threads, Executions(t) PROVE CallsDrain'
<1>1. CASE EnqueueClaim(t)
  <2>1. stack[t] # <<>> /\ Top(t).op = "enqueue" /\ UNCHANGED <<next, accepting>>
    BY <1>1 DEF EnqueueClaim, At, jobVars, poolVars
  <2>2. PICK j \in Jobs : j = Top(t).job
    BY <2>1, TopDrain DEF Carries
  <2>3. CASE Return(t) /\ UNCHANGED status
    BY <2>1, <2>3, StatusStill, DrainLeave DEF Claims, Started
  <2>4. CASE /\ status[j] = "Waiting" /\ status' = [status EXCEPT ![j] = "Queued"]
             /\ Become(t, [Top(t) EXCEPT !.at = "publish"])
    <3>1. PICK f \in Frame : f = [Top(t) EXCEPT !.at = "publish"]
      BY <2>1, TopDrain DEF Frame
    <3>2. f.op = "enqueue"
      BY <2>1, <3>1, TopDrain DEF Frame
    <3>3. status'[j] = "Queued" /\ \A k \in Jobs \ {j} : status'[k] = status[k]
      BY <2>1, <2>4, TopDrain DEF DataType
    <3>4. Settling /\ \A k \in Jobs : status'[k] = "Running" => status[k] = "Running"
      BY <2>1, <2>4, <3>3 DEF Settling, IsSettled, Known
    <3> QED BY <2>1, <2>4, <3>1, <3>2, <3>4, DrainTurn DEF Claims, Started
  <2> QED BY <1>1, <2>2, <2>3, <2>4 DEF EnqueueClaim
<1>2. CASE EnqueuePublish(t)
  <2>1. stack[t] # <<>> /\ Top(t).op = "enqueue" /\ UNCHANGED <<next, accepting, status>> /\ Return(t)
    BY <1>2 DEF EnqueuePublish, At, jobVars, stateVars, poolVars
  <2> QED BY <2>1, StatusStill, DrainLeave DEF Claims, Started
<1>3. CASE Take(t) \/ Helps(t)
  <2>1. UNCHANGED <<next, accepting, status>> /\ t \in Pool
    BY <1>3 DEF Take, Helps, WaitCheck, CanHelp, jobVars, stateVars, poolVars, Pool
  <2>2. PICK l \in Lanes : \E j \in queue[l] : Enter(t, Call("execute", "begin", j))
    BY <1>3 DEF Take, Helps, WaitCheck, TakesFrom, Lanes
  <2>3. PICK j \in queue[l] : Enter(t, Call("execute", "begin", j))
    BY <2>2
  <2>4. j \in Jobs
    BY CarrierFacts DEF DrainInv
  <2>5. PICK f \in Frame : f = Call("execute", "begin", j)
    BY <2>4 DEF Call, Frame, Statuses
  <2>6. f.op = "execute"
    BY <2>5 DEF Call
  <2> QED BY <2>1, <2>3, <2>5, <2>6, StatusStill, DrainEnter
<1>4. ASSUME stack[t] # <<>>, Top(t).op = "execute", NEW j \in Jobs, j = Top(t).job, UNCHANGED <<next, accepting>>,
             NEW f \in Frame, Become(t, f), f.job = j, Runs(f), f.op \in {"execute", "finish"},
             \A k \in Jobs \ {j} : status'[k] = status[k],
             status'[j] = status[j] \/ (status[j] = "Queued" /\ status'[j] = "Running")
      PROVE  CallsDrain'
  <2>1. Settling
    BY <1>4 DEF Settling, IsSettled, Known
  <2> QED BY <1>4, <2>1, DrainTurn DEF Claims
<1>5. ASSUME stack[t] # <<>>, Top(t).op = "execute"
      PROVE  /\ DataType /\ Top(t) \in Frame /\ Top(t).job \in Jobs /\ CallOK(Top(t))
             /\ Top(t).at = "begin" => QueuedOrOver(Top(t).job)
  <2>1. Carries(Top(t))
    BY <1>5 DEF Carries
  <2> QED BY <1>5, <2>1, TopDrain DEF CallOK
<1>6. ASSUME NEW j \in Jobs, NEW s \in Statuses, NEW e \in Jobs \cup {None}, NEW f, f = FinishCall(j, s, e)
      PROVE  f \in Frame /\ f.op = "finish" /\ f.job = j /\ Runs(f)
  BY <1>6 DEF FinishCall, Call, Frame, Statuses, Runs, Claims
<1>7. CASE ExecuteBegin(t)
  <2>1. stack[t] # <<>> /\ Top(t).op = "execute" /\ Top(t).at = "begin" /\ UNCHANGED <<next, accepting>>
    BY <1>7 DEF ExecuteBegin, At, jobVars, poolVars
  <2>2. PICK j \in Jobs : j = Top(t).job
    BY <1>5, <2>1
  <2>3. CASE IsTerminal(status[j])
    <3>1. Return(t) /\ UNCHANGED status
      BY <1>7, <2>2, <2>3 DEF ExecuteBegin
    <3> QED BY <2>1, <3>1, StatusStill, DrainLeave DEF Claims, Started
  <2>4. CASE ~IsTerminal(status[j])
    <3>1. PICK f : f = IF j \notin cancelRequested /\ ~ScopeStops(j) THEN [Top(t) EXCEPT !.at = "call"]
                                                                     ELSE FinishCall(j, "Cancelled", None)
      OBVIOUS
    <3>2. Become(t, f) /\ status' = [status EXCEPT ![j] = "Running"]
      BY <1>7, <2>2, <2>4, <3>1 DEF ExecuteBegin
    <3>3. f \in Frame /\ f.job = j /\ f.op \in {"execute", "finish"} /\ Runs(f)
      <4>1. CASE j \notin cancelRequested /\ ~ScopeStops(j)
        <5>1. f = [Top(t) EXCEPT !.at = "call"]
          BY <3>1, <4>1
        <5>2. f \in Frame /\ f.job = j /\ f.op = "execute" /\ f.at = "call"
          BY <1>5, <2>1, <2>2, <5>1 DEF Frame
        <5> QED BY <5>2 DEF Runs, Started
      <4>2. CASE ~(j \notin cancelRequested /\ ~ScopeStops(j))
        <5>1. f = FinishCall(j, "Cancelled", None) /\ "Cancelled" \in Statuses
          BY <3>1, <4>2 DEF Statuses
        <5> QED BY <1>6, <5>1
      <4> QED BY <4>1, <4>2
    <3>4. status'[j] = "Running" /\ \A k \in Jobs \ {j} : status'[k] = status[k]
      BY <1>5, <2>1, <3>2 DEF DataType
    <3>5. status[j] = "Queued"
      BY <1>5, <2>1, <2>2, <2>4 DEF QueuedOrOver
    <3> QED BY <1>4, <2>1, <2>2, <3>2, <3>3, <3>4, <3>5
  <2> QED BY <2>3, <2>4
<1>8. CASE ExecuteCall(t)
  <2>1. /\ stack[t] # <<>> /\ Top(t).op = "execute" /\ Top(t).at = "call" /\ UNCHANGED <<next, accepting, status>>
    BY <1>8 DEF ExecuteCall, At, OnlyStackChanges, jobVars, poolVars, stateVars
  <2>2. PICK j \in Jobs : j = Top(t).job
    BY <1>5, <2>1
  <2>3. PICK f : f = IF j \in hasFunction THEN [Top(t) EXCEPT !.at = "body", !.todo = shape[j].awaits]
                                          ELSE FinishCall(j, "Failed", j)
    OBVIOUS
  <2>4. Become(t, f)
    BY <1>8, <2>2, <2>3 DEF ExecuteCall
  <2>5. f \in Frame /\ f.job = j /\ f.op \in {"execute", "finish"} /\ Runs(f)
    <3>1. CASE j \in hasFunction
      <4>1. f = [Top(t) EXCEPT !.at = "body", !.todo = shape[j].awaits] /\ shape[j].awaits \subseteq Jobs
        BY <1>5, <2>1, <2>3, <3>1 DEF DataType, Shape
      <4>2. f \in Frame /\ f.job = j /\ f.op = "execute" /\ f.at = "body"
        BY <1>5, <2>1, <2>2, <4>1 DEF Frame
      <4> QED BY <4>2 DEF Runs, Started
    <3>2. CASE j \notin hasFunction
      <4>1. f = FinishCall(j, "Failed", j) /\ "Failed" \in Statuses
        BY <2>3, <3>2 DEF Statuses
      <4> QED BY <1>6, <4>1
    <3> QED BY <3>1, <3>2
  <2> QED BY <1>4, <2>1, <2>2, <2>4, <2>5
<1>9. CASE BodyReturns(t) \/ BodyThrows(t)
  <2>1. /\ stack[t] # <<>> /\ Top(t).op = "execute" /\ UNCHANGED <<next, accepting, status>>
    BY <1>9 DEF BodyReturns, BodyThrows, At, OnlyStackChanges, jobVars, poolVars, stateVars
  <2>2. PICK j \in Jobs : j = Top(t).job
    BY <1>5, <2>1
  <2>3. PICK s \in Statuses : \E e \in {j, None} : Become(t, FinishCall(j, s, e))
    BY <1>9, <2>2 DEF BodyReturns, BodyThrows, Statuses
  <2>4. PICK e \in {j, None} : Become(t, FinishCall(j, s, e))
    BY <2>3
  <2>5. PICK f : f = FinishCall(j, s, e)
    OBVIOUS
  <2>6. f \in Frame /\ f.op = "finish" /\ f.job = j /\ Runs(f)
    BY <1>6, <2>5
  <2> QED BY <1>4, <2>1, <2>2, <2>4, <2>5, <2>6
<1> QED BY <1>1, <1>2, <1>3, <1>7, <1>8, <1>9 DEF Executions

(* Steps that change no job's state.                                         *)
LEMMA QuietDrain == ASSUME DrainInv, Quiet PROVE CallsDrain'
<1>1. /\ PoolOK /\ RunsOK /\ SweepOK /\ DrainOK
      /\ UNCHANGED <<next, status>> /\ Known' = Known /\ \A j : IsSettled(j)' = IsSettled(j)
      /\ QuietFrames /\ QuietReturns /\ QuietClose /\ (accepting' => accepting)
  BY DEF DrainInv, DrainParts, Quiet, QuietData, jobVars, stateVars, Known, IsSettled
<1>2. ASSUME NEW c \in Places, Runs(FrameOf(c))
      PROVE  c \in Places' /\ Alike(FrameOf(c), FrameOf(c)')
  <2>1. ~Outside(FrameOf(c)) /\ ~Ended(FrameOf(c))
    BY <1>2 DEF Runs, Started, Claims, Outside, Ended
  <2> QED BY <1>1, <2>1 DEF QuietFrames, QuietReturns
<1>3. ASSUME NEW f, NEW g, Alike(f, g)
      PROVE  g.op = f.op /\ g.at = f.at /\ g.job = f.job /\ (f.op = "close" => g = f)
  BY <1>3 DEF Alike
<1>4. ASSUME NEW c, NEW j, Ending(c, j) PROVE Ending(c, j)'
  <2>1. c \in Places /\ Claims(FrameOf(c)) /\ FrameOf(c).job = j
    BY <1>4 DEF Ending
  <2>2. c \in Places' /\ Alike(FrameOf(c), FrameOf(c)')
    BY <1>2, <2>1 DEF Runs
  <2>3. FrameOf(c)'.op = "finish" /\ FrameOf(c)'.at = "claim" /\ FrameOf(c)'.job = j
    BY <1>3, <2>1, <2>2 DEF Claims
  <2> QED BY <2>2, <2>3 DEF Ending, Claims
<1>5. PoolOK'
  <2> SUFFICES ASSUME NEW c \in Places', FrameOf(c)'.op = "execute" PROVE c[1] \in Pool
    BY DEF PoolOK
  <2>1. c \in Places /\ Alike(FrameOf(c), FrameOf(c)')
    BY <1>1 DEF QuietFrames, Outside
  <2> QED BY <1>1, <1>3, <2>1 DEF PoolOK
<1>6. RunsOK'
  <2> SUFFICES ASSUME NEW j \in Jobs, status'[j] = "Running"
               PROVE  \E c \in Places' : c[1] \in Pool /\ FrameOf(c)'.job = j /\ Runs(FrameOf(c))'
    BY DEF RunsOK
  <2>1. PICK c \in Places : c[1] \in Pool /\ FrameOf(c).job = j /\ Runs(FrameOf(c))
    BY <1>1 DEF RunsOK
  <2>2. c \in Places' /\ Alike(FrameOf(c), FrameOf(c)')
    BY <1>2, <2>1
  <2>3. PICK g : g = FrameOf(c)'
    OBVIOUS
  <2>4. g.job = j /\ Runs(g)
    BY <1>3, <2>1, <2>2, <2>3 DEF Runs, Started, Claims
  <2>5. FrameOf(c)'.job = j /\ Runs(FrameOf(c))'
    BY <2>3, <2>4 DEF Runs, Started, Claims
  <2> QED BY <2>1, <2>2, <2>5
<1>7. SweepOK'
  <2> SUFFICES ASSUME NEW c \in Places', Sweeps(FrameOf(c)'), NEW j \in Known \ FrameOf(c)'.todo
               PROVE  IsSettled(j) \/ Ending(<<c[1], c[2] + 1>>, j)'
    BY <1>1 DEF SweepOK, Sweeps
  <2>1. CASE c \in Places /\ Alike(FrameOf(c), FrameOf(c)')
    <3>1. Sweeps(FrameOf(c)) /\ j \in Known \ FrameOf(c).todo
      BY <1>3, <2>1 DEF Sweeps
    <3>2. IsSettled(j) \/ Ending(<<c[1], c[2] + 1>>, j)
      BY <1>1, <2>1, <3>1 DEF SweepOK
    <3>3. PICK e : e = <<c[1], c[2] + 1>>
      OBVIOUS
    <3> QED BY <1>4, <3>2, <3>3
  <2>2. CASE ~(c \in Places /\ Alike(FrameOf(c), FrameOf(c)'))
    <3>1. c \in Places /\ SweptBy(FrameOf(c), j)
      BY <1>1, <2>2 DEF QuietFrames
    <3>2. IsSettled(j) \/ Ending(<<c[1], c[2] + 1>>, j)
      BY <1>1, <3>1 DEF SweptBy, SweepOK
    <3>3. PICK e : e = <<c[1], c[2] + 1>>
      OBVIOUS
    <3> QED BY <1>4, <3>2, <3>3
  <2> QED BY <2>1, <2>2
<1>8. DrainOK'
  <2> SUFFICES ASSUME ~accepting', NoClose', NEW j \in Jobs PROVE IsSettled(j)
    BY <1>1 DEF DrainOK
  <2>1. ~accepting
    BY <1>1 DEF QuietClose, NoClose
  <2>2. CASE NoClose
    BY <1>1, <2>1, <2>2 DEF DrainOK
  <2>3. CASE ~NoClose
    <3>1. PICK c \in Places : FrameOf(c).op = "close"
      BY <2>3 DEF NoClose
    <3>2. c \notin Places'
      BY <1>1, <1>3, <3>1 DEF QuietFrames, NoClose
    <3>3. Sweeps(FrameOf(c)) /\ FrameOf(c).todo = {} /\ <<c[1], c[2] + 1>> \notin Places
      BY <1>1, <3>1, <3>2 DEF QuietReturns
    <3>4. CASE j \in Known
      BY <1>1, <3>1, <3>3, <3>4 DEF SweepOK, Ending
    <3>5. CASE j \notin Known
      BY <3>5, InvParts DEF DrainInv, ExecutionInv, JobsOK, IsSettled
    <3> QED BY <3>4, <3>5
  <2> QED BY <2>2, <2>3
<1> QED BY <1>5, <1>6, <1>7, <1>8 DEF CallsDrain

(* A cancellation calls FinishJob.                                           *)
LEMMA EndsDrain == ASSUME DrainInv, Ends PROVE CallsDrain'
<1>1. PICK p : \E j \in Jobs : EndsAt(p, j)
  BY DEF Ends
<1>2. PICK j \in Jobs : EndsAt(p, j)
  BY <1>1
<1>3. PICK g : g = FinishCall(j, "Cancelled", None) /\ g.op = "finish" /\ g.at = "claim" /\ g.job = j
  <2>1. PICK g : g = FinishCall(j, "Cancelled", None)
    OBVIOUS
  <2>2. g.op = "finish" /\ g.at = "claim" /\ g.job = j
    BY <2>1 DEF FinishCall, Call
  <2> QED BY <2>1, <2>2
<1>4. /\ PoolOK /\ RunsOK /\ SweepOK /\ DrainOK
      /\ UNCHANGED <<next, status, accepting>> /\ Known' = Known /\ \A k : IsSettled(k)' = IsSettled(k)
      /\ Places' = Places \cup {p} /\ FrameOf(p)' = g
      /\ p \in Places => Outside(FrameOf(p)) /\ FrameOf(p).op # "close"
      /\ \A c \in Places \ {p} :
          \/ FrameOf(c)' = FrameOf(c)
          \/ /\ Sweeps(FrameOf(c)) /\ p = <<c[1], c[2] + 1>> /\ p \notin Places
             /\ FrameOf(c)' = [FrameOf(c) EXCEPT !.todo = FrameOf(c).todo \ {j}]
  BY <1>2, <1>3 DEF EndsAt, DrainInv, DrainParts, jobVars, stateVars, Known, IsSettled
<1>5. ASSUME NEW c \in Places', c # p
      PROVE  \/ c \in Places /\ FrameOf(c)' = FrameOf(c)
             \/ /\ c \in Places /\ Sweeps(FrameOf(c)) /\ p = <<c[1], c[2] + 1>>
                /\ \E f : (f = FrameOf(c)' /\ Sweeps(f) /\ f.todo = FrameOf(c).todo \ {j})
  <2>1. c \in Places
    BY <1>4, <1>5
  <2>2. FrameOf(c) \in Frame
    BY <2>1, CarrierFacts DEF DrainInv
  <2>3. CASE /\ Sweeps(FrameOf(c)) /\ p = <<c[1], c[2] + 1>>
             /\ FrameOf(c)' = [FrameOf(c) EXCEPT !.todo = FrameOf(c).todo \ {j}]
    <3>1. PICK f : f = [FrameOf(c) EXCEPT !.todo = FrameOf(c).todo \ {j}]
      OBVIOUS
    <3>2. f.op = FrameOf(c).op /\ f.at = FrameOf(c).at /\ f.todo = FrameOf(c).todo \ {j}
      BY <2>2, <3>1 DEF Frame
    <3>3. Sweeps(f) /\ f = FrameOf(c)'
      BY <2>3, <3>1, <3>2 DEF Sweeps
    <3> QED BY <2>1, <2>3, <3>2, <3>3
  <2> QED BY <1>4, <1>5, <2>1, <2>3
<1>6. ASSUME NEW c \in Places, ~Outside(FrameOf(c))
      PROVE  c # p /\ c \in Places' /\ FrameOf(c)' = FrameOf(c)
  BY <1>4, <1>6 DEF Sweeps, Outside
<1>7. PoolOK'
  <2> SUFFICES ASSUME NEW c \in Places', FrameOf(c)'.op = "execute" PROVE c[1] \in Pool
    BY DEF PoolOK
  <2>1. c # p
    BY <1>3, <1>4
  <2>2. c \in Places /\ FrameOf(c)' = FrameOf(c)
    BY <1>5, <2>1 DEF Sweeps
  <2> QED BY <1>4, <2>2 DEF PoolOK
<1>8. RunsOK'
  <2> SUFFICES ASSUME NEW k \in Jobs, status'[k] = "Running"
               PROVE  \E c \in Places' : c[1] \in Pool /\ FrameOf(c)'.job = k /\ Runs(FrameOf(c))'
    BY DEF RunsOK
  <2>1. PICK c \in Places : c[1] \in Pool /\ FrameOf(c).job = k /\ Runs(FrameOf(c))
    BY <1>4 DEF RunsOK
  <2>2. c \in Places' /\ FrameOf(c)' = FrameOf(c)
    BY <1>6, <2>1 DEF Runs, Started, Claims, Outside
  <2> QED BY <2>1, <2>2 DEF Runs, Started, Claims
<1>9. SweepOK'
  <2> SUFFICES ASSUME NEW c \in Places', Sweeps(FrameOf(c)'), NEW k \in Known \ FrameOf(c)'.todo
               PROVE  IsSettled(k) \/ Ending(<<c[1], c[2] + 1>>, k)'
    BY <1>4 DEF SweepOK, Sweeps
  <2>1. c # p
    BY <1>3, <1>4 DEF Sweeps
  <2>2. PICK e : e = <<c[1], c[2] + 1>>
    OBVIOUS
  <2>3. CASE c \in Places /\ FrameOf(c)' = FrameOf(c)
    <3>1. IsSettled(k) \/ Ending(e, k)
      BY <1>4, <2>2, <2>3 DEF SweepOK
    <3>2. Ending(e, k) => Ending(e, k)'
      BY <1>6 DEF Ending, Claims, Outside
    <3> QED BY <2>2, <3>1, <3>2
  <2>4. ASSUME c \in Places, Sweeps(FrameOf(c)), p = e, NEW f, f = FrameOf(c)', f.todo = FrameOf(c).todo \ {j}
        PROVE  IsSettled(k) \/ Ending(e, k)'
    <3>1. CASE k = j
      BY <1>3, <1>4, <2>4, <3>1 DEF Ending, Claims
    <3>2. CASE k # j
      <4>1. IsSettled(k) \/ Ending(e, k)
        BY <1>4, <2>2, <2>4, <3>2 DEF SweepOK
      <4>2. Ending(e, k) => Ending(e, k)'
        BY <1>6 DEF Ending, Claims, Outside
      <4> QED BY <4>1, <4>2
    <3> QED BY <3>1, <3>2
  <2> QED BY <1>5, <2>1, <2>2, <2>3, <2>4
<1>10. DrainOK'
  <2> SUFFICES ASSUME ~accepting, NoClose', NEW k \in Jobs PROVE IsSettled(k)
    BY <1>4 DEF DrainOK
  <2>1. NoClose
    <3> SUFFICES ASSUME NEW c \in Places, FrameOf(c).op = "close" PROVE FALSE
      BY DEF NoClose
    <3>1. c # p /\ c \in Places'
      BY <1>4
    <3>2. FrameOf(c)'.op = "close"
      BY <1>5, <3>1 DEF Sweeps
    <3> QED BY <3>1, <3>2 DEF NoClose
  <2> QED BY <1>4, <2>1 DEF DrainOK
<1> QED BY <1>7, <1>8, <1>9, <1>10 DEF CallsDrain

(* The scope's list: only Submit takes part, and puts the job on it before   *)
(* it lets go of the job.                                                    *)
LEMMA ScopeDrain == ASSUME DrainInv, [Next]_vars PROVE ScopeOK'
<1>1. DataType /\ JobsOK /\ ScopeOK
  BY InvParts DEF DrainInv, DrainParts, ExecutionInv
<1>2. CASE UNCHANGED <<registered, shape, scopeJobs>>
  BY <1>1, <1>2 DEF ScopeOK
<1>3. CASE Quiet \/ Ends
  <2>1. UNCHANGED <<registered, shape, scopeJobs>>
    BY <1>3 DEF Quiet, QuietData, Ends, EndsAt, jobVars
  <2> QED BY <1>2, <2>1
<1>4. ASSUME NEW t \in Threads, Finishes(t) \/ Executions(t) PROVE ScopeOK'
  <2>1. UNCHANGED <<registered, shape, scopeJobs>>
    BY <1>4 DEF Finishes, Executions, FinishClaim, FinishSettle, FinishRelease, EnqueueClaim, EnqueuePublish,
       Take, Helps, WaitCheck, ExecuteBegin, ExecuteCall, BodyReturns, BodyThrows, OnlyStackChanges, jobVars, scopeVars
  <2> QED BY <1>2, <2>1
<1>5. ASSUME NEW t \in Threads, NEW sh, SubmitBegin(t, sh) PROVE ScopeOK'
  <2>1. PICK j \in Jobs : j = next
    BY <1>1, <1>5, JobSystemAssumption DEF SubmitBegin, DataType, Jobs
  <2>2. UNCHANGED <<registered, scopeJobs>> /\ shape' = [shape EXCEPT ![j] = sh]
    BY <1>5, <2>1 DEF SubmitBegin, scopeVars
  <2>3. j \notin registered
    BY <1>1, <2>1, JobSystemAssumption DEF JobsOK, Known, Jobs
  <2>4. \A k \in registered : shape'[k] = shape[k]
    BY <1>1, <2>2, <2>3 DEF DataType
  <2> QED BY <1>1, <2>2, <2>4 DEF ScopeOK
<1>6. ASSUME NEW t \in Threads, NEW d \in Jobs, RegisterDependency(t, d) PROVE ScopeOK'
  BY <1>2, <1>6 DEF RegisterDependency, jobVars, scopeVars
<1>7. ASSUME NEW t \in Threads, RegisterDone(t) PROVE ScopeOK'
  <2>1. PICK j : /\ registered' = registered \cup {j} /\ shape' = shape
                 /\ scopeJobs' = IF shape[j].scoped THEN scopeJobs \cup {j} ELSE scopeJobs
    BY <1>7 DEF RegisterDone
  <2> QED BY <1>1, <2>1 DEF ScopeOK
<1>8. ASSUME NEW t \in Threads, RegisterThrows(t) PROVE ScopeOK'
  <2>1. PICK j \in MayRunOut : registered' = registered \cup {j} /\ UNCHANGED <<shape, scopeJobs>>
    BY <1>8 DEF RegisterThrows, scopeVars
  <2> QED BY <1>1, <2>1 DEF ScopeOK
<1>9. Quiet \/ Ends \/ \E t \in Threads : Submits(t) \/ Finishes(t) \/ Executions(t)
  BY StepKinds DEF DrainInv
<1>10. ASSUME NEW t \in Threads, Submits(t) PROVE ScopeOK'
  BY <1>5, <1>6, <1>7, <1>8, <1>10 DEF Submits
<1> QED BY <1>3, <1>4, <1>9, <1>10

(* Every step keeps the drain invariant.                                     *)
LEMMA DrainStepInv == ASSUME DrainInv, [Next]_vars PROVE DrainInv'
<1>1. ExecutionInv' /\ ScopeOK'
  BY ExecutionStep, ScopeDrain DEF DrainInv
<1>2. CallsDrain'
  BY QuietDrain, EndsDrain, SubmitsDrain, FinishesDrain, ExecutionsDrain, StepKinds DEF DrainInv
<1> QED BY <1>1, <1>2 DEF DrainInv, DrainParts, CallsDrain

(* It holds at the start.                                                    *)
LEMMA DrainInit == ASSUME Init PROVE DrainInv
<1>1. PoolOK /\ SweepOK
  BY NoPlaces DEF PoolOK, SweepOK
<1>2. RunsOK /\ DrainOK /\ ScopeOK
  BY DEF Init, RunsOK, DrainOK, ScopeOK
<1> QED BY <1>1, <1>2, ExecutionInit DEF DrainInv, DrainParts

(* What Close's last loop has been through neither waits nor is queued, and  *)
(* a Running job is in the hands of a thread of the pool.                    *)
THEOREM DrainInvariant == Spec => []DrainInv
  BY DrainInit, DrainStepInv, PTL DEF Spec

(* Once Close has returned, every job that is not over, and every function   *)
(* that has not returned, belongs to a pool thread that is still busy: no    *)
(* job is left waiting or queued with nobody to run or cancel it, whichever  *)
(* thread closed and whatever ran, was submitted or was cancelled meanwhile. *)
THEOREM CloseDrainsJobs == Spec => []CloseDrains
<1>1. ASSUME DrainInv PROVE CloseDrains
  <2> SUFFICES ASSUME ~accepting, Calls("close") = {}, NEW j \in Jobs, StillPending(j) \/ Executes(j)
               PROVE  \E t \in Pool : stack[t] # <<>>
    BY DEF CloseDrains
  <2>1. \A c \in Places : c[1] \in Threads /\ stack[c[1]] # <<>>
    <3> SUFFICES ASSUME NEW c \in Places PROVE c[1] \in Threads /\ stack[c[1]] # <<>>
      OBVIOUS
    <3>1. PICK t \in Threads : \E d \in DOMAIN stack[t] : c = <<t, d>>
      BY PlaceFacts
    <3> QED BY <3>1
  <2>2. PoolOK /\ RunsOK /\ IsSettled(j)
    BY <1>1 DEF DrainInv, DrainParts, DrainOK, NoClose, Calls
  <2>3. CASE StillPending(j)
    BY <2>1, <2>2, <2>3 DEF StillPending, IsSettled, RunsOK
  <2>4. CASE Executes(j)
    BY <2>1, <2>2, <2>4 DEF Executes, Calls, PoolOK
  <2> QED BY <2>3, <2>4
<1> QED BY DrainInvariant, <1>1, PTL

(* When the scope is cancelled and what its Wait waits for is complete, no   *)
(* function of one of its jobs runs: each was on the scope's list before it  *)
(* could be queued, and is Running for as long as it runs.                   *)
THEOREM ScopeDrainsJobs == Spec => []ScopeDrains
<1>1. ASSUME DrainInv PROVE ScopeDrains
  <2> SUFFICES ASSUME \A k \in scopeJobs : Complete(k), NEW j \in Jobs \ MayRunOut, shape[j].scoped,
                      NEW c \in Calls("execute"), FrameOf(c).at = "body", FrameOf(c).job = j
               PROVE  FALSE
    BY DEF ScopeDrains, Executes
  <2>1. PICK f : f = FrameOf(c)
    OBVIOUS
  <2>2. c \in Places /\ f.op = "execute" /\ f.at = "body" /\ f.job = j
    BY <2>1 DEF Calls
  <2>3. Carries(f) /\ Started(f)
    BY <2>2 DEF Carries, Started
  <2>4. j \in registered /\ CallOK(f)
    BY <1>1, <2>1, <2>2, <2>3, CarrierFacts DEF DrainInv
  <2>5. status[j] = "Running"
    BY <2>2, <2>3, <2>4 DEF CallOK
  <2>6. j \in scopeJobs
    BY <1>1, <2>4 DEF DrainInv, DrainParts, ScopeOK
  <2> QED BY <2>5, <2>6 DEF Complete, IsTerminal
<1> QED BY DrainInvariant, <1>1, PTL

-----------------------------------------------------------------------------
(* What the counters count. *)

(* Sets that differ in one element at most.                                  *)
One(b) == IF b THEN 1 ELSE 0

(* Such sets differ in size by that element.                                 *)
LEMMA OneElement ==
    ASSUME NEW S, IsFiniteSet(S), NEW T, NEW x, S \ {x} = T \ {x}
    PROVE  /\ IsFiniteSet(T) /\ Cardinality(S) \in Nat /\ Cardinality(T) \in Nat
           /\ Cardinality(T) = Cardinality(S) + One(x \in T) - One(x \in S)
<1>1. PICK R : R = S \ {x}
  OBVIOUS
<1>2. /\ IsFiniteSet(R) /\ Cardinality(R) \in Nat /\ Cardinality(S) \in Nat
      /\ Cardinality(R) = Cardinality(S) - One(x \in S)
  BY <1>1, FS_RemoveElement, FS_CardinalityType DEF One
<1>3. CASE x \in T
  <2>1. T = R \cup {x} /\ x \notin R
    BY <1>1, <1>3
  <2>2. IsFiniteSet(T) /\ Cardinality(T) = Cardinality(R) + 1
    BY <1>2, <2>1, FS_AddElement
  <2> QED BY <1>2, <1>3, <2>2 DEF One
<1>4. CASE x \notin T
  <2>1. T = R
    BY <1>1, <1>4
  <2> QED BY <1>2, <1>4, <2>1 DEF One
<1> QED BY <1>3, <1>4

(* The counters take no notice of what becomes of call c.                    *)
Counted(f) == Settles(f) \/ Publishes(f)
Same(c) ==
    \/ c \in Places /\ c \in Places'
       /\ \E g : (g = FrameOf(c)' /\ g.op = FrameOf(c).op /\ g.at = FrameOf(c).at /\ g.was = FrameOf(c).was)
    \/ /\ c \in Places => ~Counted(FrameOf(c))
       /\ c \in Places' => \E g : (g = FrameOf(c)' /\ ~Counted(g))

(* A call that goes on as before counts as before.                           *)
LEMMA SameCounted ==
    ASSUME NEW c, Same(c)
    PROVE  /\ c \in SettlingCalls' <=> c \in SettlingCalls
           /\ \A s : c \in SettlingFrom(s)' <=> c \in SettlingFrom(s)
           /\ c \in Publishing' <=> c \in Publishing
<1>1. ASSUME c \in Places, c \in Places', NEW g, g = FrameOf(c)', g.op = FrameOf(c).op, g.at = FrameOf(c).at,
             g.was = FrameOf(c).was
      PROVE  /\ c \in SettlingCalls' <=> c \in SettlingCalls
             /\ \A s : c \in SettlingFrom(s)' <=> c \in SettlingFrom(s)
             /\ c \in Publishing' <=> c \in Publishing
  BY <1>1 DEF SettlingCalls, SettlingFrom, Publishing, Settles, Publishes
<1>2. ASSUME c \in Places => ~Counted(FrameOf(c)), c \in Places' => \E g : (g = FrameOf(c)' /\ ~Counted(g))
      PROVE  /\ c \in SettlingCalls' <=> c \in SettlingCalls
             /\ \A s : c \in SettlingFrom(s)' <=> c \in SettlingFrom(s)
             /\ c \in Publishing' <=> c \in Publishing
  BY <1>2 DEF SettlingCalls, SettlingFrom, Publishing, Settles, Publishes, Counted
<1> QED BY <1>1, <1>2 DEF Same

(* Of the calls the one at place p at most, and of the jobs j at most,       *)
(* change what is counted.                                                   *)
LEMMA CountChange ==
    ASSUME CountInv, NEW p, NEW j \in Jobs,
           \A k \in Jobs \ {j} : status'[k] = status[k], \A c \in (Places \cup Places') \ {p} : Same(c)
    PROVE  /\ IsFiniteSet(SettlingCalls') /\ IsFiniteSet(Publishing')
           /\ Cardinality(Publishing) \in Nat /\ Cardinality(Publishing)' \in Nat
           /\ Cardinality(Publishing)' =
                  Cardinality(Publishing) + One(p \in Publishing') - One(p \in Publishing)
           /\ \A s : /\ Cardinality(InState(s)) \in Nat /\ Cardinality(InState(s))' \in Nat
                     /\ Cardinality(SettlingFrom(s)) \in Nat /\ Cardinality(SettlingFrom(s))' \in Nat
                     /\ Cardinality(InState(s))' =
                            Cardinality(InState(s)) + One(status'[j] \in s) - One(status[j] \in s)
                     /\ Cardinality(SettlingFrom(s))' =
                            Cardinality(SettlingFrom(s)) + One(p \in SettlingFrom(s)') - One(p \in SettlingFrom(s))
<1>1. IsFiniteSet(SettlingCalls) /\ IsFiniteSet(Publishing)
  BY DEF CountInv, CountsOK, CallsCounted
<1>2. \A c : c # p => (c \in Publishing' <=> c \in Publishing)
  BY SameCounted DEF Publishing
<1>3. \A c : c # p => (c \in SettlingCalls' <=> c \in SettlingCalls)
  BY SameCounted DEF SettlingCalls
<1>4. /\ IsFiniteSet(Publishing') /\ Cardinality(Publishing) \in Nat /\ Cardinality(Publishing)' \in Nat
      /\ Cardinality(Publishing)' = Cardinality(Publishing) + One(p \in Publishing') - One(p \in Publishing)
  <2>1. PICK S, T : S = Publishing /\ T = Publishing'
    OBVIOUS
  <2>2. IsFiniteSet(S) /\ S \ {p} = T \ {p}
    BY <1>1, <1>2, <2>1
  <2>3. /\ IsFiniteSet(T) /\ Cardinality(S) \in Nat /\ Cardinality(T) \in Nat
        /\ Cardinality(T) = Cardinality(S) + One(p \in T) - One(p \in S)
    BY <2>2, OneElement
  <2> QED BY <2>1, <2>3
<1>5. IsFiniteSet(SettlingCalls')
  <2>1. SettlingCalls \ {p} = SettlingCalls' \ {p}
    BY <1>3
  <2> QED BY <1>1, <2>1, OneElement
<1>6. ASSUME NEW s
      PROVE  /\ Cardinality(InState(s)) \in Nat /\ Cardinality(InState(s))' \in Nat
             /\ Cardinality(SettlingFrom(s)) \in Nat /\ Cardinality(SettlingFrom(s))' \in Nat
             /\ Cardinality(InState(s))' =
                    Cardinality(InState(s)) + One(status'[j] \in s) - One(status[j] \in s)
             /\ Cardinality(SettlingFrom(s))' =
                    Cardinality(SettlingFrom(s)) + One(p \in SettlingFrom(s)') - One(p \in SettlingFrom(s))
  <2>1. PICK S, T : S = SettlingFrom(s) /\ T = SettlingFrom(s)'
    OBVIOUS
  <2>2. \A c : c # p => (c \in T <=> c \in S)
    BY <2>1, SameCounted DEF SettlingFrom
  <2>3. S \in SUBSET SettlingCalls
    BY <2>1 DEF SettlingFrom, SettlingCalls
  <2>4. IsFiniteSet(S)
    BY <1>1, <2>3, FS_Subset
  <2>5. /\ IsFiniteSet(T) /\ Cardinality(S) \in Nat /\ Cardinality(T) \in Nat
        /\ Cardinality(T) = Cardinality(S) + One(p \in T) - One(p \in S)
    <3>1. S \ {p} = T \ {p}
      BY <2>2
    <3> QED BY <2>4, <3>1, OneElement
  <2>6. PICK U, V : U = InState(s) /\ V = InState(s)'
    OBVIOUS
  <2>7. IsFiniteSet(U)
    <3>1. IsFiniteSet(Jobs)
      BY JobSystemAssumption, FS_Interval DEF Jobs
    <3>2. U \in SUBSET Jobs
      BY <2>6 DEF InState
    <3> QED BY <3>1, <3>2, FS_Subset
  <2>8. /\ \A k : k # j => (k \in V <=> k \in U)
        /\ (j \in V <=> status'[j] \in s) /\ (j \in U <=> status[j] \in s)
    BY <2>6 DEF InState
  <2>9. /\ IsFiniteSet(V) /\ Cardinality(U) \in Nat /\ Cardinality(V) \in Nat
        /\ Cardinality(V) = Cardinality(U) + One(j \in V) - One(j \in U)
    <3>1. U \ {j} = V \ {j}
      BY <2>8
    <3> QED BY <2>7, <3>1, OneElement
  <2>10. One(j \in V) = One(status'[j] \in s) /\ One(j \in U) = One(status[j] \in s)
    BY <2>8 DEF One
  <2> QED BY <2>1, <2>5, <2>6, <2>9, <2>10
<1> QED BY <1>4, <1>5, <1>6

(* What a step at place p that concerns job j adds to a counter.             *)
Shift(p, j, s) == One(status'[j] \in s) - One(status[j] \in s)
                  + One(p \in SettlingFrom(s)') - One(p \in SettlingFrom(s))
Published(p) == One(p \in Publishing') - One(p \in Publishing)
Counts(p, j) ==
    /\ count'["Outstanding"] = count["Outstanding"] + Shift(p, j, Live)
    /\ count'["Waiting"] = count["Waiting"] + Shift(p, j, {"Waiting"}) + Published(p)
    /\ count'["Queued"] = count["Queued"] + Shift(p, j, {"Queued"}) - Published(p)
    /\ count'["Running"] = count["Running"] + Shift(p, j, {"Running"})

(* A step of one call that changes one job's state at most.                  *)
LEMMA CountStep ==
    ASSUME CountInv, NEW p, NEW j \in Jobs,
           \A k \in Jobs \ {j} : status'[k] = status[k], \A c \in (Places \cup Places') \ {p} : Same(c),
           p \in Places' => \E g : (g = FrameOf(p)' /\ (Settles(g) => g.was \in Live)),
           Counts(p, j)
    PROVE  CountsOK'
<1>1. CallsCounted /\ CountsAre
  BY DEF CountInv, CountsOK
<1>2. CallsCounted'
  <2>1. IsFiniteSet(SettlingCalls') /\ IsFiniteSet(Publishing')
    BY CountChange
  <2>2. ASSUME NEW c \in Places', NEW g, g = FrameOf(c)', Settles(g) PROVE g.was \in Live
    <3>1. CASE c = p
      BY <2>2, <3>1
    <3>2. CASE c # p
      <4>1. c \in Places /\ Settles(FrameOf(c)) /\ g.was = FrameOf(c).was
        BY <2>2, <3>2 DEF Same, Counted, Settles
      <4> QED BY <1>1, <4>1 DEF CallsCounted
    <3> QED BY <3>1, <3>2
  <2>3. \A c \in Places' : Settles(FrameOf(c))' => FrameOf(c)'.was \in Live
    BY <2>2 DEF Settles
  <2> QED BY <2>1, <2>3 DEF CallsCounted
<1>3. CountsAre'
  <2>1. PICK wait, queued, run : wait = {"Waiting"} /\ queued = {"Queued"} /\ run = {"Running"}
    OBVIOUS
  <2>2. /\ Cardinality(Publishing) \in Nat /\ Cardinality(Publishing)' \in Nat
        /\ Cardinality(Publishing)' = Cardinality(Publishing) + Published(p)
    BY CountChange DEF Published
  <2>3. \A s : /\ Cardinality(InState(s)) \in Nat /\ Cardinality(InState(s))' \in Nat
               /\ Cardinality(SettlingFrom(s)) \in Nat /\ Cardinality(SettlingFrom(s))' \in Nat
               /\ Cardinality(InState(s))' + Cardinality(SettlingFrom(s))' =
                     Cardinality(InState(s)) + Cardinality(SettlingFrom(s)) + Shift(p, j, s)
    <3>1. \A b : One(b) \in Int
      BY DEF One
    <3> SUFFICES ASSUME NEW s
                 PROVE  /\ Cardinality(InState(s)) \in Nat /\ Cardinality(InState(s))' \in Nat
                        /\ Cardinality(SettlingFrom(s)) \in Nat /\ Cardinality(SettlingFrom(s))' \in Nat
                        /\ Cardinality(InState(s))' + Cardinality(SettlingFrom(s))' =
                              Cardinality(InState(s)) + Cardinality(SettlingFrom(s)) + Shift(p, j, s)
      OBVIOUS
    <3>2. /\ Cardinality(InState(s)) \in Nat /\ Cardinality(InState(s))' \in Nat
          /\ Cardinality(SettlingFrom(s)) \in Nat /\ Cardinality(SettlingFrom(s))' \in Nat
          /\ Cardinality(InState(s))' =
                 Cardinality(InState(s)) + One(status'[j] \in s) - One(status[j] \in s)
          /\ Cardinality(SettlingFrom(s))' =
                 Cardinality(SettlingFrom(s)) + One(p \in SettlingFrom(s)') - One(p \in SettlingFrom(s))
      BY CountChange
    <3>3. PICK a, b, c, d : /\ a = One(status'[j] \in s) /\ b = One(status[j] \in s)
                            /\ c = One(p \in SettlingFrom(s)') /\ d = One(p \in SettlingFrom(s))
      OBVIOUS
    <3>4. a \in Int /\ b \in Int /\ c \in Int /\ d \in Int /\ Shift(p, j, s) = a - b + c - d
      BY <3>1, <3>3 DEF Shift
    <3> QED BY <3>2, <3>3, <3>4
  <2>4. count'["Outstanding"] = Cardinality(InState(Live))' + Cardinality(SettlingFrom(Live))'
    BY <1>1, <2>3 DEF CountsAre, Counts
  <2>5. Published(p) \in Int /\ \A s : Shift(p, j, s) \in Int
    BY DEF Published, Shift, One
  <2>6. count'["Waiting"] = Cardinality(InState(wait))' + Cardinality(SettlingFrom(wait))' + Cardinality(Publishing)'
    BY <1>1, <2>1, <2>2, <2>3, <2>5 DEF CountsAre, Counts
  <2>7. count'["Queued"] = Cardinality(InState(queued))' + Cardinality(SettlingFrom(queued))' - Cardinality(Publishing)'
    BY <1>1, <2>1, <2>2, <2>3, <2>5 DEF CountsAre, Counts
  <2>8. count'["Running"] = Cardinality(InState(run))' + Cardinality(SettlingFrom(run))'
    BY <1>1, <2>1, <2>3, <2>5 DEF CountsAre, Counts
  <2>9. Live' = Live
    BY DEF Live
  <2> QED BY <2>1, <2>4, <2>6, <2>7, <2>8, <2>9 DEF CountsAre
<1> QED BY <1>2, <1>3 DEF CountsOK

(* A step that the counters take no notice of.                               *)
LEMMA CountStill ==
    ASSUME CountInv, UNCHANGED <<status, count>>, \A c \in Places \cup Places' : Same(c)
    PROVE  CountsOK'
<1>1. CallsCounted /\ CountsAre
  BY DEF CountInv, CountsOK
<1>2. SettlingCalls' = SettlingCalls /\ Publishing' = Publishing
  <2>1. \A c : c \in SettlingCalls' <=> c \in SettlingCalls
    BY SameCounted DEF SettlingCalls
  <2>2. \A c : c \in Publishing' <=> c \in Publishing
    BY SameCounted DEF Publishing
  <2> QED BY <2>1, <2>2
<1>3. ASSUME NEW s PROVE SettlingFrom(s)' = SettlingFrom(s) /\ InState(s)' = InState(s)
  <2>1. \A c : c \in SettlingFrom(s)' <=> c \in SettlingFrom(s)
    BY SameCounted DEF SettlingFrom
  <2> QED BY <2>1 DEF InState
<1>4. \A c \in Places' : Settles(FrameOf(c))' => FrameOf(c)'.was \in Live
  <2> SUFFICES ASSUME NEW c \in Places', Settles(FrameOf(c)') PROVE FrameOf(c)'.was \in Live
    BY DEF Settles
  <2>1. c \in Places /\ Settles(FrameOf(c)) /\ FrameOf(c)'.was = FrameOf(c).was
    BY DEF Same, Counted, Settles
  <2> QED BY <1>1, <2>1 DEF CallsCounted
<1>5. CallsCounted'
  BY <1>1, <1>2, <1>4 DEF CallsCounted
<1>6. CountsAre'
  <2>1. Live' = Live
    BY DEF Live
  <2> QED BY <1>1, <1>2, <1>3, <2>1 DEF CountsAre
<1> QED BY <1>5, <1>6 DEF CountsOK

(* Steps that the counters take no notice of: a call is entered, goes on,    *)
(* makes another one, returns.                                               *)
LEMMA CountMoves ==
    ASSUME CountInv, NEW t \in Threads, UNCHANGED <<status, count>>, NEW f \in Frame, ~Counted(f),
           \/ Enter(t, f)
           \/ stack[t] # <<>> /\ ~Counted(Top(t)) /\ (Become(t, f) \/ Return(t))
           \/ stack[t] # <<>> /\ ~Counted(Top(t)) /\ \E g \in Frame : BecomeAndEnter(t, g, f) /\ ~Counted(g)
    PROVE  CountsOK'
<1>1. DependencyInv
  BY DEF CountInv, ExecutionInv
<1>2. ASSUME NEW c \in Places, c \in Places', FrameOf(c)' = FrameOf(c) PROVE Same(c)
  BY <1>2 DEF Same
<1>3. CASE Enter(t, f)
  <2>1. PICK a : Entering(t, a, f)
    BY <1>1, <1>3, CallFacts, EnterPlaces
  <2>2. \A c \in Places \cup Places' : Same(c)
    BY <1>2, <2>1 DEF Entering, Same
  <2> QED BY <2>2, CountStill
<1>4. CASE stack[t] # <<>> /\ ~Counted(Top(t)) /\ Become(t, f)
  <2>1. PICK h : Turning(t, h, f)
    BY <1>1, <1>4, CallFacts, BecomePlaces
  <2>2. \A c \in Places \cup Places' : Same(c)
    BY <1>2, <1>4, <2>1 DEF Turning, Same
  <2> QED BY <2>2, CountStill
<1>5. CASE stack[t] # <<>> /\ ~Counted(Top(t)) /\ Return(t)
  <2>1. PICK h : Leaving(t, h)
    BY <1>1, <1>5, CallFacts, ReturnPlaces
  <2>2. \A c \in Places \cup Places' : Same(c)
    BY <1>2, <1>5, <2>1 DEF Leaving, Same
  <2> QED BY <2>2, CountStill
<1>6. CASE stack[t] # <<>> /\ ~Counted(Top(t)) /\ \E g \in Frame : BecomeAndEnter(t, g, f) /\ ~Counted(g)
  <2>1. PICK g \in Frame : BecomeAndEnter(t, g, f) /\ ~Counted(g)
    BY <1>6
  <2>2. PICK h, a : Calling(t, h, a, g, f)
    BY <1>1, <1>6, <2>1, CallFacts, CallPlaces
  <2>3. \A c \in Places \cup Places' : Same(c)
    BY <1>2, <1>6, <2>1, <2>2 DEF Calling, Same
  <2> QED BY <2>3, CountStill
<1> QED BY <1>3, <1>4, <1>5, <1>6

(* What is known of the innermost call of a thread.                          *)
LEMMA TopCount ==
    ASSUME CountInv, NEW t \in Threads, stack[t] # <<>>
    PROVE  /\ Top(t) \in Frame /\ CallOK(Top(t)) /\ FrameOK(t, Top(t)) /\ DataType /\ ExecutionInv
           /\ Settles(Top(t)) => Top(t).was \in Live
           /\ Claims(Top(t)) \/ Carries(Top(t)) \/ Top(t).op = "submit" => Top(t).job \in Jobs
<1>1. PICK h \in Places : FrameOf(h) = Top(t)
  BY CallFacts, TopPlace DEF CountInv, ExecutionInv
<1>2. ExecutionInv /\ DependencyInv /\ CallsCounted
  BY DEF CountInv, CountsOK, ExecutionInv
<1>3. Top(t) \in Frame /\ FrameOK(t, Top(t)) /\ DataType
  BY <1>2, CallFacts
<1>4. /\ CallOK(Top(t)) /\ (Settles(Top(t)) => Top(t).was \in Live)
      /\ Claims(Top(t)) \/ Carries(Top(t)) \/ Top(t).op = "submit" => Top(t).job \in Jobs
  BY <1>1, <1>2, CarrierFacts DEF CallsCounted
<1> QED BY <1>2, <1>3, <1>4

(* What the frames that calls begin with are.                                *)
LEMMA NewCalls ==
    /\ \A j \in Jobs : \A s \in Statuses : \A e \in Jobs \cup {None} :
          FinishCall(j, s, e) \in Frame /\ ~Counted(FinishCall(j, s, e))
    /\ \A j \in Jobs : Call("enqueue", "claim", j) \in Frame /\ ~Counted(Call("enqueue", "claim", j))
    /\ \A j \in Jobs : Call("execute", "begin", j) \in Frame /\ ~Counted(Call("execute", "begin", j))
    /\ \A j \in Jobs : Call("submit", "return", j) \in Frame /\ ~Counted(Call("submit", "return", j))
<1>1. \A j \in Jobs : \A s \in Statuses : \A e \in Jobs \cup {None} :
          FinishCall(j, s, e) \in Frame /\ ~Counted(FinishCall(j, s, e))
  <2> SUFFICES ASSUME NEW j \in Jobs, NEW s \in Statuses, NEW e \in Jobs \cup {None}
               PROVE  FinishCall(j, s, e) \in Frame /\ ~Counted(FinishCall(j, s, e))
    OBVIOUS
  <2>1. FinishCall(j, s, e) \in Frame
    BY DEF FinishCall, Call, Frame, Statuses
  <2>2. FinishCall(j, s, e).at = "claim"
    BY DEF FinishCall, Call
  <2> QED BY <2>1, <2>2 DEF Counted, Settles, Publishes
<1>2. \A j \in Jobs : Call("enqueue", "claim", j) \in Frame /\ ~Counted(Call("enqueue", "claim", j))
  BY DEF Call, Frame, Statuses, Counted, Settles, Publishes
<1>3. \A j \in Jobs : Call("execute", "begin", j) \in Frame /\ ~Counted(Call("execute", "begin", j))
  BY DEF Call, Frame, Statuses, Counted, Settles, Publishes
<1>4. \A j \in Jobs : Call("submit", "return", j) \in Frame /\ ~Counted(Call("submit", "return", j))
  BY DEF Call, Frame, Statuses, Counted, Settles, Publishes
<1> QED BY <1>1, <1>2, <1>3, <1>4

(* A quiet step moves no counter.                                            *)
LEMMA QuietCount == ASSUME CountInv, Quiet PROVE CountsOK'
<1>1. UNCHANGED <<status, count>>
  BY DEF Quiet, QuietData, stateVars
<1>2. ASSUME NEW c \in Places \cup Places' PROVE Same(c)
  <2>1. ASSUME c \in Places', c \in Places, Alike(FrameOf(c), FrameOf(c)') PROVE Same(c)
    BY <2>1 DEF Alike, Same
  <2>2. ASSUME c \in Places', Outside(FrameOf(c)'), c \in Places => Outside(FrameOf(c)) PROVE Same(c)
    BY <2>2 DEF Same, Outside, Counted, Settles, Publishes
  <2>3. ASSUME c \in Places, c \notin Places' PROVE Same(c)
    BY <2>3 DEF Quiet, QuietReturns, Same, Outside, Ended, Counted, Settles, Publishes
  <2> QED BY <1>2, <2>1, <2>2, <2>3 DEF Quiet, QuietFrames
<1> QED BY <1>1, <1>2, CountStill

(* Ending a job that has not started moves no counter yet.                   *)
LEMMA EndsCount == ASSUME CountInv, Ends PROVE CountsOK'
<1>1. PICK p : \E j \in Jobs : EndsAt(p, j)
  BY DEF Ends
<1>2. PICK j \in Jobs : EndsAt(p, j)
  BY <1>1
<1>3. UNCHANGED <<status, count>>
  BY <1>2 DEF EndsAt, stateVars
<1>4. PICK g : g = FinishCall(j, "Cancelled", None)
  OBVIOUS
<1>5. ~Counted(g)
  BY <1>4, NewCalls DEF Statuses
<1>6. ASSUME NEW c \in Places \cup Places' PROVE Same(c)
  <2>1. CASE c = p
    <3>1. c \in Places => ~Counted(FrameOf(c))
      BY <1>2, <2>1 DEF EndsAt, Outside, Counted, Settles, Publishes
    <3>2. FrameOf(c)' = g
      BY <1>2, <1>4, <2>1 DEF EndsAt
    <3> QED BY <1>5, <3>1, <3>2 DEF Same
  <2>2. CASE c # p
    <3>1. c \in Places /\ c \in Places' /\ FrameOf(c) \in Frame
      BY <1>2, <1>6, <2>2, CarrierFacts DEF EndsAt, CountInv
    <3>2. CASE FrameOf(c)' = FrameOf(c)
      BY <3>1, <3>2 DEF Same
    <3>3. CASE FrameOf(c)' = [FrameOf(c) EXCEPT !.todo = FrameOf(c).todo \ {j}]
      <4>1. PICK f : f = [FrameOf(c) EXCEPT !.todo = FrameOf(c).todo \ {j}]
        OBVIOUS
      <4>2. f.op = FrameOf(c).op /\ f.at = FrameOf(c).at /\ f.was = FrameOf(c).was
        BY <3>1, <4>1 DEF Frame
      <4> QED BY <3>1, <3>3, <4>1, <4>2 DEF Same
    <3> QED BY <1>2, <2>2, <3>1, <3>2, <3>3 DEF EndsAt
  <2> QED BY <2>1, <2>2
<1> QED BY <1>3, <1>6, CountStill

(* The innermost call, at place h, goes on as f, or returns, or one is made. *)
LEMMA CountTurn ==
    ASSUME CountInv, NEW t \in Threads, stack[t] # <<>>, NEW f \in Frame, Become(t, f), NEW j \in Jobs,
           \A k \in Jobs \ {j} : status'[k] = status[k], Settles(f) => f.was \in Live,
           \A h : h \in Places /\ FrameOf(h) = Top(t) /\ h \in Places' /\ FrameOf(h)' = f => Counts(h, j)
    PROVE  CountsOK'
<1>1. PICK h : Turning(t, h, f)
  BY CallFacts, BecomePlaces DEF CountInv, ExecutionInv
<1>2. /\ h \in Places /\ FrameOf(h) = Top(t) /\ h \in Places' /\ FrameOf(h)' = f
      /\ \A c \in (Places \cup Places') \ {h} : Same(c)
  BY <1>1 DEF Turning, Same
<1> QED BY <1>2, CountStep

(* The places of a counted call, before and after.                           *)
LEMMA CountedPlace ==
    ASSUME NEW h \in Places, NEW f, f = FrameOf(h)
    PROVE  /\ \A s : h \in SettlingFrom(s) <=> Settles(f) /\ f.was \in s
           /\ h \in Publishing <=> Publishes(f)
  BY DEF SettlingFrom, Publishing

(* The same after a step.                                                    *)
LEMMA CountedPlaceAfter ==
    ASSUME NEW h, h \in Places', NEW f, f = FrameOf(h)'
    PROVE  /\ \A s : h \in SettlingFrom(s)' <=> Settles(f) /\ f.was \in s
           /\ h \in Publishing' <=> Publishes(f)
  BY DEF SettlingFrom, Publishing, Settles, Publishes

(* A submission counts its job when it is stored.                            *)
LEMMA SubmitsCount ==
    ASSUME CountInv, NEW t \in Threads, Submits(t) PROVE CountsOK'
<1>1. CASE \E sh \in UNION {Shapes[j] : j \in Jobs} : SubmitBegin(t, sh)
  <2>1. PICK sh : SubmitBegin(t, sh)
    BY <1>1
  <2>2. DataType /\ DependencyInv /\ JobsOK
    BY InvParts DEF CountInv, ExecutionInv
  <2>3. PICK j \in Jobs : j = next
    BY <2>1, <2>2, JobSystemAssumption DEF SubmitBegin, DataType, Jobs
  <2>4. PICK X : Enter(t, [Call("submit", "register", j) EXCEPT !.todo = X]) /\ X \subseteq Jobs
    <3>1. PICK before \in SUBSET {lastSimulation} :
              /\ (lastSimulation = None => before = {})
              /\ deps' = [deps EXCEPT ![j] = sh.needs \cup before]
              /\ Enter(t, [Call("submit", "register", j) EXCEPT !.todo = sh.needs \cup before])
      BY <2>1, <2>3 DEF SubmitBegin
    <3>2. deps'[j] \subseteq Jobs
      BY <2>1, <2>2, SubmitBeginInv, CallFacts DEF DataType, DependencyInv, TypeOK
    <3>3. deps'[j] = sh.needs \cup before
      BY <2>2, <3>1 DEF DataType
    <3> QED BY <3>1, <3>2, <3>3
  <2>5. PICK f \in Frame : f = [Call("submit", "register", j) EXCEPT !.todo = X]
    BY <2>4 DEF Call, Frame, Statuses
  <2>6. f.op = "submit"
    BY <2>5 DEF Call
  <2>7. PICK a : Entering(t, a, f)
    BY <2>2, <2>4, <2>5, CallFacts, EnterPlaces
  <2>8. /\ a \notin Places /\ a \in Places' /\ FrameOf(a)' = f
        /\ \A c \in (Places \cup Places') \ {a} : Same(c)
    BY <2>7 DEF Entering, Same
  <2>9. /\ status[j] = "Unsubmitted" /\ status'[j] = "Waiting"
        /\ \A k \in Jobs \ {j} : status'[k] = status[k]
        /\ count' = Add(Add(count, "Outstanding", 1), "Waiting", 1)
    <3>1. j \in Jobs \ Known
      BY <2>2, <2>3, JobSystemAssumption DEF Known, Jobs
    <3>2. status' = [status EXCEPT ![j] = "Waiting"] /\ count' = Add(Add(count, "Outstanding", 1), "Waiting", 1)
      BY <2>1, <2>3 DEF SubmitBegin
    <3> QED BY <2>2, <3>1, <3>2 DEF JobsOK, DataType
  <2>10. ~Settles(f) /\ ~Publishes(f)
    BY <2>6 DEF Settles, Publishes
  <2>11. /\ a \notin Publishing /\ a \notin Publishing'
         /\ \A s : a \notin SettlingFrom(s) /\ a \notin SettlingFrom(s)'
    <3>1. a \notin Publishing /\ \A s : a \notin SettlingFrom(s)
      BY <2>8 DEF Publishing, SettlingFrom
    <3> QED BY <2>8, <2>10, <3>1, CountedPlaceAfter
  <2>12. Counts(a, j)
    BY <2>2, <2>9, <2>11 DEF Counts, Shift, Published, One, Live, Add, DataType
  <2> QED BY <2>8, <2>9, <2>10, <2>12, CountStep
<1>2. ASSUME NEW d \in Jobs, RegisterDependency(t, d) PROVE CountsOK'
  <2>1. /\ stack[t] # <<>> /\ Top(t).op = "submit" /\ UNCHANGED <<status, count>>
        /\ Become(t, [Top(t) EXCEPT !.todo = Top(t).todo \ {d}])
    BY <1>2 DEF RegisterDependency, At
  <2>2. PICK f \in Frame : f = [Top(t) EXCEPT !.todo = Top(t).todo \ {d}]
    BY <2>1, TopCount DEF Frame
  <2>3. f.op = "submit"
    BY <2>1, <2>2, TopCount DEF Frame
  <2>4. ~Counted(f) /\ ~Counted(Top(t))
    BY <2>1, <2>3 DEF Counted, Settles, Publishes
  <2> QED BY <2>1, <2>2, <2>4, CountMoves
<1>3. CASE RegisterDone(t) \/ RegisterThrows(t)
  <2>1. stack[t] # <<>> /\ Top(t).op = "submit" /\ UNCHANGED <<status, count>> /\ ~Counted(Top(t))
    BY <1>3 DEF RegisterDone, RegisterThrows, At, stateVars, Counted, Settles, Publishes
  <2>2. PICK j \in Jobs : j = Top(t).job
    BY <2>1, TopCount
  <2>3. PICK f \in Frame : f = Call("submit", "return", j) /\ ~Counted(f)
    BY NewCalls
  <2>4. PICK e \in Jobs \cup {None} :
            \/ Become(t, f) \/ BecomeAndEnter(t, f, FinishCall(j, "Cancelled", e))
            \/ BecomeAndEnter(t, f, Call("enqueue", "claim", j))
    <3>1. DataType
      BY <2>1, TopCount
    <3>2. CASE RegisterDone(t)
      <4>1. PICK e \in Jobs \cup {None} : e = depFailure[j]
        BY <3>1 DEF DataType
      <4> QED BY <2>2, <2>3, <3>2, <4>1 DEF RegisterDone
    <3>3. CASE RegisterThrows(t)
      <4>1. PICK e \in Jobs \cup {None} : e = j
        OBVIOUS
      <4> QED BY <2>2, <2>3, <3>3, <4>1 DEF RegisterThrows
    <3> QED BY <1>3, <3>2, <3>3
  <2>5. "Cancelled" \in Statuses
    BY DEF Statuses
  <2> QED BY <2>1, <2>3, <2>4, <2>5, NewCalls, CountMoves
<1> QED BY <1>1, <1>2, <1>3 DEF Submits

(* A finish takes its job from the counter of the state it was in.           *)
LEMMA FinishesCount ==
    ASSUME CountInv, NEW t \in Threads, Finishes(t) PROVE CountsOK'
<1>1. CASE FinishClaim(t)
  <2>1. /\ stack[t] # <<>> /\ Top(t).op = "finish" /\ Top(t).at = "claim" /\ UNCHANGED count
        /\ Claims(Top(t)) /\ ~Counted(Top(t))
    BY <1>1 DEF FinishClaim, At, Claims, Counted, Settles, Publishes
  <2>2. PICK j \in Jobs : j = Top(t).job
    BY <2>1, TopCount
  <2>4. CASE IsTerminal(status[j])
    <3>1. Return(t) /\ UNCHANGED <<status, count>>
      BY <1>1, <2>1, <2>2, <2>4 DEF FinishClaim, stateVars
    <3> QED BY <2>1, <2>2, <3>1, CountMoves, NewCalls
  <2>5. CASE ~IsTerminal(status[j])
    <3>1. Top(t) \in Frame /\ DataType /\ IsTerminal(Top(t).status) /\ status[j] \in Live
      BY <2>1, <2>2, <2>5, TopCount DEF FrameOK, DataType, Statuses, Live, IsTerminal, ExecutionInv, StatesOK
    <3>2. PICK f \in Frame : f = [Top(t) EXCEPT !.at = "settle", !.was = status[j], !.todo = dependents[j]]
      BY <3>1 DEF Frame, DataType
    <3>3. f.op = "finish" /\ f.at = "settle" /\ f.was = status[j]
      BY <2>1, <3>1, <3>2 DEF Frame
    <3>4. Become(t, f) /\ status' = [status EXCEPT ![j] = Top(t).status]
      BY <1>1, <2>2, <2>5, <3>2 DEF FinishClaim
    <3>5. IsTerminal(status'[j]) /\ \A k \in Jobs \ {j} : status'[k] = status[k]
      BY <3>1, <3>4 DEF DataType
    <3>6. ASSUME NEW h, h \in Places, FrameOf(h) = Top(t), h \in Places', FrameOf(h)' = f PROVE Counts(h, j)
      <4>1. /\ \A s : h \notin SettlingFrom(s)
            /\ h \notin Publishing
        BY <2>1, <3>6, CountedPlace DEF Counted
      <4>2. /\ \A s : h \in SettlingFrom(s)' <=> status[j] \in s
            /\ h \notin Publishing'
        BY <3>3, <3>6, CountedPlaceAfter DEF Settles, Publishes
      <4> QED BY <2>1, <3>1, <3>5, <4>1, <4>2 DEF Counts, Shift, Published, One, Live, IsTerminal, DataType
    <3> QED BY <2>1, <3>1, <3>3, <3>4, <3>5, <3>6, CountTurn
  <2> QED BY <2>4, <2>5
<1>2. CASE FinishSettle(t)
  <2>1. /\ stack[t] # <<>> /\ Top(t).op = "finish" /\ Top(t).at = "settle" /\ UNCHANGED status
        /\ Become(t, [Top(t) EXCEPT !.at = "release"]) /\ Settles(Top(t)) /\ ~Publishes(Top(t))
        /\ count' = Add(Add(count, Top(t).was, -1), "Outstanding", -1)
    BY <1>2 DEF FinishSettle, At, stateVars, Settles, Publishes, CountedAs
  <2>2. PICK f \in Frame : f = [Top(t) EXCEPT !.at = "release"]
    BY <2>1, TopCount DEF Frame
  <2>3. f.op = "finish" /\ f.at = "release"
    BY <2>1, <2>2, TopCount DEF Frame
  <2>4. Top(t).was \in Live /\ DataType /\ ~Settles(f) /\ ~Publishes(f)
    BY <2>1, <2>3, TopCount DEF Settles, Publishes
  <2>5. PICK j \in Jobs : j = Top(t).job
    BY <2>1, TopCount DEF FrameOK, Known
  <2>6. ASSUME NEW h, h \in Places, FrameOf(h) = Top(t), h \in Places', FrameOf(h)' = f PROVE Counts(h, j)
    <3>1. /\ \A s : h \in SettlingFrom(s) <=> Top(t).was \in s
          /\ h \notin Publishing
      BY <2>1, <2>6, CountedPlace
    <3>2. /\ \A s : h \notin SettlingFrom(s)'
          /\ h \notin Publishing'
      BY <2>4, <2>6, CountedPlaceAfter
    <3>3. PICK w \in Live : w = Top(t).was
      BY <2>4
    <3>4. count' = Add(Add(count, w, -1), "Outstanding", -1) /\ status' = status
      BY <2>1, <3>3
    <3>5. CASE w = "Waiting"
      BY <2>4, <3>1, <3>2, <3>3, <3>4, <3>5 DEF Counts, Shift, Published, One, Live, Add, DataType
    <3>6. CASE w = "Queued"
      BY <2>4, <3>1, <3>2, <3>3, <3>4, <3>6 DEF Counts, Shift, Published, One, Live, Add, DataType
    <3>7. CASE w = "Running"
      BY <2>4, <3>1, <3>2, <3>3, <3>4, <3>7 DEF Counts, Shift, Published, One, Live, Add, DataType
    <3> QED BY <3>5, <3>6, <3>7 DEF Live
  <2> QED BY <2>1, <2>2, <2>4, <2>6, CountTurn
<1>3. ASSUME NEW d \in Jobs, FinishRelease(t, d) PROVE CountsOK'
  <2>1. /\ stack[t] # <<>> /\ Top(t).op = "finish" /\ Top(t).at = "release" /\ UNCHANGED <<status, count>>
        /\ ~Counted(Top(t))
    BY <1>3 DEF FinishRelease, At, Counted, Settles, Publishes
  <2>2. PICK f \in Frame : f = [Top(t) EXCEPT !.todo = Top(t).todo \ {d}]
    BY <2>1, TopCount DEF Frame
  <2>3. f.op = "finish" /\ f.at = "release"
    BY <2>1, <2>2, TopCount DEF Frame
  <2>4. PICK e \in Jobs \cup {None} :
            \/ Become(t, f) \/ BecomeAndEnter(t, f, FinishCall(d, "Cancelled", e))
            \/ BecomeAndEnter(t, f, Call("enqueue", "claim", d))
    <3>1. DataType /\ Top(t) \in Frame
      BY <2>1, TopCount
    <3>2. CASE IsTerminal(status[d]) \/ blockedBy[d] = {}
      BY <1>3, <2>2, <3>2 DEF FinishRelease
    <3>3. CASE ~(IsTerminal(status[d]) \/ blockedBy[d] = {})
      <4>1. depFailure'[d] = depFailure[d] \/ depFailure'[d] = Top(t).cause
        BY <1>3, <3>1, <3>3 DEF FinishRelease, DataType
      <4>2. PICK e \in Jobs \cup {None} : e = depFailure'[d]
        BY <3>1, <4>1 DEF DataType, Frame
      <4> QED BY <1>3, <2>2, <3>3, <4>2 DEF FinishRelease
    <3> QED BY <3>2, <3>3
  <2>5. ~Counted(f) /\ "Cancelled" \in Statuses
    BY <2>3 DEF Counted, Settles, Publishes, Statuses
  <2> QED BY <2>1, <2>4, <2>5, NewCalls, CountMoves
<1> QED BY <1>1, <1>2, <1>3 DEF Finishes

(* Queueing and starting move a job from one counter to the next.            *)
LEMMA ExecutionsCount ==
    ASSUME CountInv, NEW t \in Threads, Executions(t) PROVE CountsOK'
<1>1. ASSUME stack[t] # <<>>, Top(t).op = "execute"
      PROVE  /\ DataType /\ Top(t) \in Frame /\ Top(t).job \in Jobs /\ ~Counted(Top(t))
             /\ Top(t).at = "begin" => QueuedOrOver(Top(t).job)
  <2>1. Carries(Top(t)) /\ ~Counted(Top(t))
    BY <1>1 DEF Carries, Counted, Settles, Publishes
  <2> QED BY <1>1, <2>1, TopCount DEF CallOK
<1>2. CASE EnqueueClaim(t)
  <2>1. stack[t] # <<>> /\ Top(t).op = "enqueue" /\ Top(t).at = "claim" /\ UNCHANGED count /\ ~Counted(Top(t))
    BY <1>2 DEF EnqueueClaim, At, Counted, Settles, Publishes
  <2>2. PICK j \in Jobs : j = Top(t).job
    BY <2>1, TopCount DEF Carries
  <2>3. CASE Return(t) /\ UNCHANGED status
    BY <2>1, <2>2, <2>3, NewCalls, CountMoves
  <2>4. CASE /\ status[j] = "Waiting" /\ status' = [status EXCEPT ![j] = "Queued"]
             /\ Become(t, [Top(t) EXCEPT !.at = "publish"])
    <3>1. PICK f \in Frame : f = [Top(t) EXCEPT !.at = "publish"]
      BY <2>1, TopCount DEF Frame
    <3>2. f.op = "enqueue" /\ f.at = "publish"
      BY <2>1, <3>1, TopCount DEF Frame
    <3>3. status'[j] = "Queued" /\ (\A k \in Jobs \ {j} : status'[k] = status[k]) /\ DataType
      BY <2>1, <2>4, TopCount DEF DataType
    <3>4. ~Settles(f) /\ Publishes(f)
      BY <3>2 DEF Settles, Publishes
    <3>5. ASSUME NEW h, h \in Places, FrameOf(h) = Top(t), h \in Places', FrameOf(h)' = f PROVE Counts(h, j)
      <4>1. (\A s : h \notin SettlingFrom(s)) /\ h \notin Publishing
        BY <2>1, <3>5, CountedPlace DEF Counted
      <4>2. (\A s : h \notin SettlingFrom(s)') /\ h \in Publishing'
        BY <3>4, <3>5, CountedPlaceAfter
      <4>3. Published(h) = 1 /\ \A s : One(h \in SettlingFrom(s)') = 0 /\ One(h \in SettlingFrom(s)) = 0
        BY <4>1, <4>2 DEF Published, One
      <4>4. /\ Shift(h, j, Live) = 0 /\ Shift(h, j, {"Waiting"}) = -1
            /\ Shift(h, j, {"Queued"}) = 1 /\ Shift(h, j, {"Running"}) = 0
        <5>1. /\ status'[j] \in Live /\ status[j] \in Live
              /\ status'[j] \notin {"Waiting"} /\ status[j] \in {"Waiting"}
              /\ status'[j] \in {"Queued"} /\ status[j] \notin {"Queued"}
              /\ status'[j] \notin {"Running"} /\ status[j] \notin {"Running"}
          BY <2>4, <3>3 DEF Live
        <5> QED BY <4>3, <5>1 DEF Shift, One
      <4>5. /\ count["Outstanding"] \in Int /\ count["Waiting"] \in Int
            /\ count["Queued"] \in Int /\ count["Running"] \in Int /\ count' = count
        BY <2>1, <3>3 DEF DataType
      <4> QED BY <4>3, <4>4, <4>5 DEF Counts
    <3> QED BY <2>1, <2>4, <3>1, <3>3, <3>4, <3>5, CountTurn
  <2> QED BY <1>2, <2>2, <2>3, <2>4 DEF EnqueueClaim
<1>3. CASE EnqueuePublish(t)
  <2>1. /\ stack[t] # <<>> /\ Top(t).op = "enqueue" /\ Top(t).at = "publish" /\ UNCHANGED status /\ Return(t)
        /\ count' = Add(Add(count, "Waiting", -1), "Queued", 1) /\ Publishes(Top(t)) /\ ~Settles(Top(t))
    BY <1>3 DEF EnqueuePublish, At, stateVars, Publishes, Settles
  <2>2. DataType
    BY <2>1, TopCount
  <2>3. PICK h : Leaving(t, h)
    BY <2>1, CallFacts, ReturnPlaces DEF CountInv, ExecutionInv
  <2>4. /\ h \in Places /\ FrameOf(h) = Top(t) /\ h \notin Places'
        /\ \A c \in (Places \cup Places') \ {h} : Same(c)
    BY <2>3 DEF Leaving, Same
  <2>5. (\A s : h \notin SettlingFrom(s)) /\ h \in Publishing
    BY <2>1, <2>4, CountedPlace
  <2>6. (\A s : h \notin SettlingFrom(s)') /\ h \notin Publishing'
    BY <2>4 DEF SettlingFrom, Publishing
  <2>7. PICK j \in Jobs : j = Top(t).job
    BY <2>1, TopCount DEF Carries
  <2>8. Counts(h, j)
    BY <2>1, <2>2, <2>5, <2>6 DEF Counts, Shift, Published, One, Live, Add, DataType
  <2> QED BY <2>1, <2>4, <2>8, CountStep
<1>4. CASE Take(t) \/ Helps(t)
  <2>1. UNCHANGED <<status, count>>
    BY <1>4 DEF Take, Helps, WaitCheck, stateVars
  <2>2. PICK l \in Lanes : \E j \in queue[l] : Enter(t, Call("execute", "begin", j))
    BY <1>4 DEF Take, Helps, WaitCheck, TakesFrom, Lanes
  <2>3. PICK j \in queue[l] : Enter(t, Call("execute", "begin", j))
    BY <2>2
  <2>4. j \in Jobs
    BY CarrierFacts DEF CountInv
  <2> QED BY <2>1, <2>3, <2>4, NewCalls, CountMoves
<1>5. CASE ExecuteBegin(t)
  <2>1. stack[t] # <<>> /\ Top(t).op = "execute" /\ Top(t).at = "begin"
    BY <1>5 DEF ExecuteBegin, At
  <2>2. PICK j \in Jobs : j = Top(t).job
    BY <1>1, <2>1
  <2>3. CASE IsTerminal(status[j])
    <3>1. Return(t) /\ UNCHANGED <<status, count>>
      BY <1>5, <2>2, <2>3 DEF ExecuteBegin
    <3> QED BY <1>1, <2>1, <2>2, <3>1, NewCalls, CountMoves
  <2>4. CASE ~IsTerminal(status[j])
    <3>1. PICK f : f = IF j \notin cancelRequested /\ ~ScopeStops(j) THEN [Top(t) EXCEPT !.at = "call"]
                                                                     ELSE FinishCall(j, "Cancelled", None)
      OBVIOUS
    <3>2. /\ Become(t, f) /\ status' = [status EXCEPT ![j] = "Running"]
          /\ count' = Add(Add(count, "Queued", -1), "Running", 1)
      BY <1>5, <2>2, <2>4, <3>1 DEF ExecuteBegin
    <3>3. f \in Frame /\ ~Counted(f)
      <4>1. CASE j \notin cancelRequested /\ ~ScopeStops(j)
        <5>1. f = [Top(t) EXCEPT !.at = "call"]
          BY <3>1, <4>1
        <5>2. f \in Frame /\ f.op = "execute"
          BY <1>1, <2>1, <5>1 DEF Frame
        <5> QED BY <5>2 DEF Counted, Settles, Publishes
      <4>2. CASE ~(j \notin cancelRequested /\ ~ScopeStops(j))
        <5>1. f = FinishCall(j, "Cancelled", None) /\ "Cancelled" \in Statuses
          BY <3>1, <4>2 DEF Statuses
        <5> QED BY <5>1, NewCalls
      <4> QED BY <4>1, <4>2
    <3>4. status'[j] = "Running" /\ status[j] = "Queued" /\ (\A k \in Jobs \ {j} : status'[k] = status[k]) /\ DataType
      BY <1>1, <2>1, <2>2, <2>4, <3>2 DEF DataType, QueuedOrOver
    <3>5. ASSUME NEW h, h \in Places, FrameOf(h) = Top(t), h \in Places', FrameOf(h)' = f PROVE Counts(h, j)
      <4>1. (\A s : h \notin SettlingFrom(s)) /\ h \notin Publishing
        BY <1>1, <2>1, <3>5, CountedPlace DEF Counted
      <4>2. (\A s : h \notin SettlingFrom(s)') /\ h \notin Publishing'
        BY <3>3, <3>5, CountedPlaceAfter DEF Counted
      <4> QED BY <3>2, <3>4, <4>1, <4>2 DEF Counts, Shift, Published, One, Live, Add, DataType
    <3> QED BY <2>1, <3>2, <3>3, <3>4, <3>5, CountTurn DEF Counted
  <2> QED BY <2>3, <2>4
<1>6. CASE ExecuteCall(t)
  <2>1. /\ stack[t] # <<>> /\ Top(t).op = "execute" /\ UNCHANGED <<status, count>>
    BY <1>6 DEF ExecuteCall, At, OnlyStackChanges, stateVars
  <2>2. PICK j \in Jobs : j = Top(t).job
    BY <1>1, <2>1
  <2>3. PICK f : f = IF j \in hasFunction THEN [Top(t) EXCEPT !.at = "body", !.todo = shape[j].awaits]
                                          ELSE FinishCall(j, "Failed", j)
    OBVIOUS
  <2>4. Become(t, f)
    BY <1>6, <2>2, <2>3 DEF ExecuteCall
  <2>5. f \in Frame /\ ~Counted(f)
    <3>1. CASE j \in hasFunction
      <4>1. f = [Top(t) EXCEPT !.at = "body", !.todo = shape[j].awaits] /\ shape[j].awaits \subseteq Jobs
        BY <1>1, <2>1, <2>3, <3>1 DEF DataType, Shape
      <4>2. f \in Frame /\ f.op = "execute"
        BY <1>1, <2>1, <4>1 DEF Frame
      <4> QED BY <4>2 DEF Counted, Settles, Publishes
    <3>2. CASE j \notin hasFunction
      <4>1. f = FinishCall(j, "Failed", j) /\ "Failed" \in Statuses
        BY <2>3, <3>2 DEF Statuses
      <4> QED BY <4>1, NewCalls
    <3> QED BY <3>1, <3>2
  <2> QED BY <1>1, <2>1, <2>4, <2>5, CountMoves
<1>7. CASE BodyReturns(t) \/ BodyThrows(t)
  <2>1. /\ stack[t] # <<>> /\ Top(t).op = "execute" /\ UNCHANGED <<status, count>>
    BY <1>7 DEF BodyReturns, BodyThrows, At, OnlyStackChanges, stateVars
  <2>2. PICK j \in Jobs : j = Top(t).job
    BY <1>1, <2>1
  <2>3. PICK s \in Statuses : \E e \in {j, None} : Become(t, FinishCall(j, s, e))
    BY <1>7, <2>2 DEF BodyReturns, BodyThrows, Statuses
  <2>4. PICK e \in {j, None} : Become(t, FinishCall(j, s, e))
    BY <2>3
  <2>5. PICK f \in Frame : f = FinishCall(j, s, e) /\ ~Counted(f)
    BY NewCalls
  <2> QED BY <1>1, <2>1, <2>4, <2>5, CountMoves
<1> QED BY <1>2, <1>3, <1>4, <1>5, <1>6, <1>7 DEF Executions

(* Every step keeps the counter invariant.                                   *)
LEMMA CountInvStep == ASSUME CountInv, [Next]_vars PROVE CountInv'
<1>1. ExecutionInv'
  BY ExecutionStep DEF CountInv
<1>2. CountsOK'
  BY QuietCount, EndsCount, SubmitsCount, FinishesCount, ExecutionsCount, StepKinds DEF CountInv
<1> QED BY <1>1, <1>2 DEF CountInv

(* It holds at the start.                                                    *)
LEMMA CountInit == ASSUME Init PROVE CountInv
<1>1. /\ Places = {} /\ IsFiniteSet({}) /\ Cardinality({}) = 0
  BY NoPlaces, FS_EmptySet
<1>2. SettlingCalls = {} /\ Publishing = {} /\ \A s : SettlingFrom(s) = {}
  BY <1>1 DEF SettlingCalls, Publishing, SettlingFrom
<1>3. InState(Live) = {} /\ InState({"Waiting"}) = {} /\ InState({"Queued"}) = {} /\ InState({"Running"}) = {}
  BY DEF Init, InState, Live
<1>4. count["Outstanding"] = 0 /\ count["Waiting"] = 0 /\ count["Queued"] = 0 /\ count["Running"] = 0
  BY DEF Init
<1>5. CallsCounted
  BY <1>1, <1>2 DEF CallsCounted
<1>6. CountsAre
  <2>1. /\ Cardinality(InState(Live)) = 0 /\ Cardinality(InState({"Waiting"})) = 0
        /\ Cardinality(InState({"Queued"})) = 0 /\ Cardinality(InState({"Running"})) = 0
    BY <1>1, <1>3
  <2>2. /\ Cardinality(Publishing) = 0 /\ Cardinality(SettlingFrom(Live)) = 0
        /\ Cardinality(SettlingFrom({"Waiting"})) = 0
        /\ Cardinality(SettlingFrom({"Queued"})) = 0 /\ Cardinality(SettlingFrom({"Running"})) = 0
    BY <1>1, <1>2
  <2> QED BY <1>4, <2>1, <2>2 DEF CountsAre
<1> QED BY <1>5, <1>6, ExecutionInit DEF CountInv, CountsOK

(* The counters are those of the jobs, but for the calls on their way.       *)
THEOREM CountInvariant == Spec => []CountInv
  BY CountInit, CountInvStep, PTL DEF Spec

(* The counters that Statistics reports and Submit's capacity check reads    *)
(* are exact, up to the calls that are between the change of a state and     *)
(* that of the counters: no interleaving of submissions, cancellations,      *)
(* executions and releases counts a job twice or forgets one.                *)
THEOREM CountersAreExact == Spec => []CountersAgree
<1>1. ASSUME CountInv PROVE CountersAgree
  <2>1. CountsAre
    BY <1>1 DEF CountInv, CountsOK
  <2>2. \A s : {c \in Calls("finish") : FrameOf(c).at = "settle" /\ FrameOf(c).was \in s} = SettlingFrom(s)
    BY DEF Calls, SettlingFrom, Settles
  <2>3. {c \in Calls("enqueue") : FrameOf(c).at = "publish"} = Publishing
    BY DEF Calls, Publishing, Publishes
  <2>4. \A s : {j \in Jobs : status[j] \in s} = InState(s)
    BY DEF InState
  <2> QED BY <2>1, <2>2, <2>3, <2>4 DEF CountersAgree, CountsAre, Live
<1> QED BY CountInvariant, <1>1, PTL

-----------------------------------------------------------------------------
(* Why strict simulation jobs keep their order. *)

(* A step moves an undisturbed job only when it is ready, ends a job once    *)
(* only, and takes no request back.                                          *)
Onwards ==
    /\ UNCHANGED <<next, deps, strict, lastSimulation>>
    /\ \A k \in Jobs : \/ status'[k] = status[k]
                       \/ ~IsTerminal(status[k]) /\ (k \in MayRunOut \/ Stopped(k) \/ Ready(k, blockedBy))
NothingTakenBack == \A k \in Known \cap Jobs : Stopped(k) => Stopped(k)'

(* A step moves known jobs onward or submits one.                            *)
LEMMA JobsAdvance ==
    ASSUME ExecutionInv, [Next]_vars
    PROVE  /\ NothingTakenBack
           /\ Onwards \/ \E t \in Threads : \E sh : SubmitBegin(t, sh)
<1>1. CASE Quiet
  BY <1>1 DEF Quiet, QuietData, NothingTakenBack, Onwards, Stopped, ScopeStops, jobVars, stateVars
<1>2. CASE Ends
  <2>1. PICK p, j : EndsAt(p, j)
    BY <1>2 DEF Ends
  <2> QED BY <2>1 DEF EndsAt, NothingTakenBack, Onwards, Stopped, ScopeStops, jobVars, stateVars
<1>3. ASSUME NEW t \in Threads, NEW sh, SubmitBegin(t, sh) PROVE NothingTakenBack
  <2>1. DataType
    BY TypePart DEF ExecutionInv
  <2>2. \A k \in Jobs \cap Known : shape'[k] = shape[k]
    <3>1. next \in Nat
      BY <2>1, JobSystemAssumption DEF DataType
    <3> QED BY <1>3, <2>1, <3>1 DEF SubmitBegin, DataType, Known
  <2> QED BY <1>3, <2>2 DEF SubmitBegin, NothingTakenBack, Stopped, ScopeStops, scopeVars
<1>4. ASSUME NEW t \in Threads, NEW d \in Jobs, RegisterDependency(t, d) PROVE NothingTakenBack /\ Onwards
  BY <1>4 DEF RegisterDependency, NothingTakenBack, Onwards, Stopped, ScopeStops, jobVars, scopeVars
<1>5. ASSUME NEW t \in Threads, RegisterDone(t) \/ RegisterThrows(t) PROVE NothingTakenBack /\ Onwards
  <2>1. /\ UNCHANGED <<next, shape, deps, lastSimulation, strict, status, scopeCancelled>>
        /\ cancelRequested \subseteq cancelRequested'
    BY <1>5 DEF RegisterDone, RegisterThrows, stateVars, scopeVars
  <2> QED BY <2>1 DEF NothingTakenBack, Onwards, Stopped, ScopeStops
<1>6. ASSUME NEW t \in Threads, FinishSettle(t) \/ \E d \in Jobs : FinishRelease(t, d)
      PROVE  NothingTakenBack /\ Onwards
  <2>1. UNCHANGED <<jobVars, status, scopeVars, cancelRequested>>
    BY <1>6 DEF FinishSettle, FinishRelease, stateVars
  <2> QED BY <2>1 DEF NothingTakenBack, Onwards, Stopped, ScopeStops, jobVars, scopeVars
<1>7. ASSUME NEW t \in Threads, EnqueuePublish(t) \/ Take(t) \/ Helps(t) \/ ExecuteCall(t)
                                    \/ BodyReturns(t) \/ BodyThrows(t)
      PROVE  NothingTakenBack /\ Onwards
  BY <1>7 DEF EnqueuePublish, Take, Helps, WaitCheck, ExecuteCall, BodyReturns, BodyThrows, OnlyStackChanges,
              NothingTakenBack, Onwards, Stopped, ScopeStops, jobVars, stateVars, scopeVars
<1>8. ASSUME NEW t \in Threads, FinishClaim(t) \/ EnqueueClaim(t) \/ ExecuteBegin(t)
      PROVE  NothingTakenBack /\ Onwards
  <2>1. NothingTakenBack /\ UNCHANGED <<next, deps, strict, lastSimulation>>
    BY <1>8 DEF FinishClaim, EnqueueClaim, ExecuteBegin, NothingTakenBack, Stopped, ScopeStops, jobVars, scopeVars
  <2>2. stack[t] # <<>> /\ DataType /\ DependencyInv
    BY <1>8, TypePart DEF FinishClaim, EnqueueClaim, ExecuteBegin, At, ExecutionInv
  <2>3. PICK h \in Places : FrameOf(h) = Top(t)
    BY <2>2, CallFacts, TopPlace
  <2>4. PICK j : j = Top(t).job
    OBVIOUS
  <2>5. /\ Claims(Top(t)) \/ Carries(Top(t)) => j \in Jobs
        /\ Carries(Top(t)) => Ready(j, blockedBy)
    BY <2>3, <2>4, CarrierFacts
  <2>6. CASE FinishClaim(t)
    <3>1. Claims(Top(t)) /\ (Carries(Top(t)) \/ j \in MayRunOut \/ Stopped(j))
      BY <2>4, <2>6 DEF FinishClaim, At, Claims, Carries
    <3>2. status' = status \/ (~IsTerminal(status[j]) /\ status' = [status EXCEPT ![j] = Top(t).status])
      BY <2>4, <2>6 DEF FinishClaim, stateVars
    <3>3. \A k \in Jobs \ {j} : status'[k] = status[k]
      BY <2>2, <3>2 DEF DataType
    <3> QED BY <2>1, <2>5, <3>1, <3>2, <3>3 DEF Onwards
  <2>7. CASE EnqueueClaim(t)
    <3>1. \/ status' = status
          \/ status[j] = "Waiting" /\ Ready(j, blockedBy) /\ status' = [status EXCEPT ![j] = "Queued"]
      BY <2>4, <2>7 DEF EnqueueClaim
    <3>2. \A k \in Jobs \ {j} : status'[k] = status[k]
      BY <2>2, <3>1 DEF DataType
    <3> QED BY <2>1, <3>1, <3>2 DEF Onwards, IsTerminal
  <2>8. CASE ExecuteBegin(t)
    <3>1. Carries(Top(t))
      BY <2>8 DEF ExecuteBegin, At, Carries
    <3>2. status' = status \/ (~IsTerminal(status[j]) /\ status' = [status EXCEPT ![j] = "Running"])
      BY <2>4, <2>8 DEF ExecuteBegin
    <3>3. \A k \in Jobs \ {j} : status'[k] = status[k]
      BY <2>2, <3>2 DEF DataType
    <3> QED BY <2>1, <2>5, <3>1, <3>2, <3>3 DEF Onwards
  <2> QED BY <1>8, <2>6, <2>7, <2>8
<1> QED BY <1>1, <1>2, <1>3, <1>4, <1>5, <1>6, <1>7, <1>8, StepKinds DEF Submits, Finishes, Executions

(* Steps of jobs that are submitted already.                                 *)
LEMMA OnwardsOrder ==
    ASSUME OrderInv, Onwards, NothingTakenBack PROVE LinksOK' /\ (Undisturbed => OrderOK)'
<1>1. /\ ExecutionInv /\ DependencyInv /\ DataType /\ JobsOK /\ LinksOK
      /\ strict \subseteq Known /\ strict \subseteq Jobs
  BY TypePart, InvParts DEF OrderInv, ExecutionInv, LinksOK, Known
<1>2. \A k \in Jobs : IsTerminal(status[k]) => IsTerminal(status'[k])
  BY DEF Onwards
<1>3. LinksOK'
  <2>1. ASSUME NEW j \in strict, NEW k \in strict, k < j PROVE Linked(j, k)'
    <3>1. PICK m \in strict : k <= m /\ m < j /\ (m \in deps[j] \/ IsTerminal(status[m]))
      BY <1>1, <2>1 DEF LinksOK, Linked
    <3> QED BY <1>1, <1>2, <3>1 DEF Onwards, Linked
  <2> QED BY <1>1, <2>1 DEF LinksOK, Onwards, Known
<1>4. ASSUME Undisturbed' PROVE OrderOK'
  <2>1. \A j \in strict : j \notin MayRunOut /\ ~Stopped(j)
    BY <1>1, <1>4 DEF Undisturbed, Onwards, NothingTakenBack
  <2>2. OrderOK
    BY <2>1 DEF OrderInv, Undisturbed
  <2> SUFFICES ASSUME NEW j \in strict, NEW k \in strict, k < j, status'[j] # "Waiting"
               PROVE  IsTerminal(status'[k])
    BY DEF OrderOK, Onwards
  <2>3. CASE status[j] # "Waiting"
    BY <1>1, <1>2, <2>2, <2>3 DEF OrderOK
  <2>4. CASE status[j] = "Waiting"
    <3>1. Ready(j, blockedBy) /\ j \in registered \ MayRunOut
      BY <1>1, <2>1, <2>4 DEF Onwards, Ready
    <3>2. \A d \in deps[j] : IsTerminal(status[d])
      BY <1>1, <3>1 DEF JobsOK, Attached, Ready
    <3>3. PICK m \in strict : k <= m /\ m < j /\ (m \in deps[j] \/ IsTerminal(status[m]))
      BY <1>1 DEF LinksOK, Linked
    <3>4. IsTerminal(status[m])
      BY <3>2, <3>3
    <3>5. k = m \/ k < m
      BY <1>1, <3>3, JobSystemAssumption DEF Jobs
    <3>6. IsTerminal(status[k])
      BY <2>2, <3>4, <3>5 DEF OrderOK, IsTerminal
    <3> QED BY <1>1, <1>2, <3>6
  <2> QED BY <2>3, <2>4
<1> QED BY <1>3, <1>4

(* A submission: the last strict job precedes the new one, or is over.       *)
LEMMA SubmitOrder ==
    ASSUME OrderInv, NothingTakenBack, NEW t \in Threads, NEW sh, SubmitBegin(t, sh)
    PROVE  LinksOK' /\ (Undisturbed => OrderOK)'
<1>1. /\ ExecutionInv /\ DependencyInv /\ DataType /\ LinksOK
      /\ strict \subseteq Known /\ strict \subseteq Jobs /\ next \in Nat
  BY TypePart, JobSystemAssumption DEF OrderInv, ExecutionInv, LinksOK, Known, DataType
<1>2. PICK j \in Jobs : j = next /\ j \notin Known
  BY <1>1, JobSystemAssumption DEF SubmitBegin, DataType, Jobs, Known
<1>3. PICK before \in SUBSET {lastSimulation} :
          /\ IF deterministic /\ sh.simulation /\ lastSimulation # None
             THEN before = {} => Unreferenced(lastSimulation)
             ELSE before = {}
          /\ deps' = [deps EXCEPT ![j] = sh.needs \cup before]
          /\ IF deterministic /\ sh.simulation THEN lastSimulation' = j /\ strict' = strict \cup {j}
             ELSE UNCHANGED <<lastSimulation, strict>>
          /\ next' = j + 1 /\ status' = [status EXCEPT ![j] = "Waiting"]
  BY <1>2 DEF SubmitBegin
<1>4. \A k \in Jobs \ {j} : status'[k] = status[k] /\ deps'[k] = deps[k]
  BY <1>1, <1>3 DEF DataType
<1>5. status'[j] = "Waiting" /\ deps'[j] = sh.needs \cup before
  BY <1>1, <1>3 DEF DataType
<1>6. /\ \A k \in strict : k \in Jobs /\ k # j /\ k < j
      /\ Known \subseteq Known' /\ j \in Known'
  BY <1>1, <1>2, <1>3, JobSystemAssumption DEF Known, Jobs
<1>7. ASSUME NEW i \in strict, NEW k \in strict, k < i PROVE Linked(i, k)'
  <2>1. PICK m \in strict : k <= m /\ m < i /\ (m \in deps[i] \/ IsTerminal(status[m]))
    BY <1>1, <1>7 DEF LinksOK, Linked
  <2>2. m \in strict'
    BY <1>3
  <2> QED BY <1>4, <1>6, <2>1, <2>2 DEF Linked
<1>8. CASE deterministic /\ sh.simulation
  <2>1. lastSimulation' = j /\ strict' = strict \cup {j}
    BY <1>3, <1>8
  <2>2. ASSUME NEW k \in strict PROVE Linked(j, k)'
    <3>1. lastSimulation \in strict /\ k <= lastSimulation /\ lastSimulation # None
      BY <1>1, <1>6, JobSystemAssumption DEF LinksOK, Jobs, None
    <3>2. lastSimulation \in before \/ IsTerminal(status[lastSimulation])
      BY <1>3, <1>8, <3>1 DEF Unreferenced, Complete
    <3>3. lastSimulation \in deps'[j] \/ IsTerminal(status'[lastSimulation])
      BY <1>4, <1>5, <1>6, <3>1, <3>2
    <3> QED BY <1>6, <2>1, <3>1, <3>3 DEF Linked
  <2>3. LinksOK'
    <3>1. \A k \in strict' : k <= lastSimulation'
      BY <1>1, <1>6, <2>1, JobSystemAssumption DEF Jobs
    <3>2. \A i, k \in strict' : k < i => Linked(i, k)'
      <4> SUFFICES ASSUME NEW i \in strict', NEW k \in strict', k < i PROVE Linked(i, k)'
        OBVIOUS
      <4>1. CASE k = j
        BY <1>1, <1>2, <1>6, <2>1, <4>1, JobSystemAssumption DEF Jobs
      <4>2. CASE k # j /\ i = j
        BY <2>1, <2>2, <4>2
      <4>3. CASE k # j /\ i # j
        BY <1>7, <2>1, <4>3
      <4> QED BY <4>1, <4>2, <4>3
    <3>3. strict' \subseteq Known' /\ lastSimulation' \in strict' \cup {None}
      BY <1>1, <1>6, <2>1
    <3> QED BY <3>1, <3>2, <3>3 DEF LinksOK
  <2>4. ASSUME Undisturbed' PROVE OrderOK'
    <3>1. \A i \in strict : i \notin MayRunOut /\ ~Stopped(i)
      BY <1>1, <2>1, <2>4 DEF Undisturbed, NothingTakenBack
    <3>2. OrderOK
      BY <3>1 DEF OrderInv, Undisturbed
    <3> SUFFICES ASSUME NEW i \in strict', NEW k \in strict', k < i, status'[i] # "Waiting"
                 PROVE  IsTerminal(status'[k])
      BY DEF OrderOK
    <3>3. i \in strict
      BY <1>5, <2>1
    <3>4. k \in strict
      BY <1>1, <1>2, <1>6, <2>1, <3>3, JobSystemAssumption DEF Jobs
    <3> QED BY <1>4, <1>6, <3>2, <3>3, <3>4 DEF OrderOK
  <2> QED BY <2>3, <2>4
<1>9. CASE ~(deterministic /\ sh.simulation)
  <2>1. lastSimulation' = lastSimulation /\ strict' = strict
    BY <1>3, <1>9
  <2>2. LinksOK'
    BY <1>1, <1>6, <1>7, <2>1 DEF LinksOK
  <2>3. ASSUME Undisturbed' PROVE OrderOK'
    <3>1. \A i \in strict : i \notin MayRunOut /\ ~Stopped(i)
      BY <1>1, <2>1, <2>3 DEF Undisturbed, NothingTakenBack
    <3>2. OrderOK
      BY <3>1 DEF OrderInv, Undisturbed
    <3> QED BY <1>4, <1>6, <2>1, <3>2 DEF OrderOK
  <2> QED BY <2>2, <2>3
<1> QED BY <1>8, <1>9

(* Every step keeps the order invariant.                                     *)
LEMMA OrderInvStep == ASSUME OrderInv, [Next]_vars PROVE OrderInv'
<1>1. ExecutionInv'
  BY ExecutionStep DEF OrderInv
<1>2. LinksOK' /\ (Undisturbed => OrderOK)'
  BY JobsAdvance, OnwardsOrder, SubmitOrder DEF OrderInv
<1> QED BY <1>1, <1>2 DEF OrderInv

(* It holds at the start.                                                    *)
LEMMA OrderInit == ASSUME Init PROVE OrderInv
<1>1. strict = {} /\ lastSimulation = None
  BY DEF Init
<1> QED BY <1>1, ExecutionInit DEF OrderInv, LinksOK, OrderOK

(* Between strict jobs the chain of predecessors never breaks, and as long   *)
(* as none is cancelled, none moves before all earlier ones are over.        *)
THEOREM OrderInvariant == Spec => []OrderInv
  BY OrderInit, OrderInvStep, PTL DEF Spec

(* Strict simulation jobs run in the order of their submission, one at a     *)
(* time, however the deterministic mode is switched meanwhile and whatever   *)
(* else depends on them, as long as nobody cancels one of them and none of   *)
(* their registrations throws: a cancelled job is over before its            *)
(* predecessors and lets its successors overtake them.                       *)
THEOREM StrictJobsInOrder == Spec => [](Undisturbed => StrictOrder)
<1>1. ASSUME OrderInv, FunctionOutlivesCall, Undisturbed PROVE StrictOrder
  <2> SUFFICES ASSUME NEW j \in strict, NEW k \in strict, k < j, Executes(j)
               PROVE  IsTerminal(status[k]) /\ ~Executes(k)
    BY DEF StrictOrder
  <2>1. strict \subseteq Jobs \ MayRunOut
    BY <1>1 DEF OrderInv, LinksOK, Known, Undisturbed
  <2>2. status[j] = "Running" /\ (Executes(k) => status[k] = "Running")
    BY <1>1, <2>1 DEF FunctionOutlivesCall
  <2>3. IsTerminal(status[k])
    BY <1>1, <2>2 DEF OrderInv, OrderOK
  <2> QED BY <2>2, <2>3 DEF IsTerminal
<1> QED BY OrderInvariant, FunctionsOutliveCalls, <1>1, PTL

-----------------------------------------------------------------------------
(* Why jobs keep the contract. *)

(* What the innermost call knows.                                            *)
LEMMA TopCalm ==
    ASSUME ContractInv, NEW t \in Threads, stack[t] # <<>>
    PROVE  /\ BlameOK(Top(t)) /\ CallOK(Top(t)) /\ EndOK(Top(t)) /\ Top(t) \in Frame /\ FrameOK(t, Top(t))
           /\ ExecutionInv /\ DependencyInv /\ DataType /\ FailuresOK /\ JobsOK /\ StackType
           /\ Claims(Top(t)) \/ Carries(Top(t)) \/ Top(t).op = "submit" => Top(t).job \in Jobs /\ Top(t).job \in Known
           /\ Carries(Top(t)) => Ready(Top(t).job, blockedBy)
           /\ \E h \in Places : FrameOf(h) = Top(t) /\ h = <<t, Len(stack[t])>>
<1>1. ExecutionInv /\ DependencyInv /\ FailureInv /\ StackType
  BY CallFacts DEF ContractInv, FailureInv, ExecutionInv
<1>2. PICK h \in Places : FrameOf(h) = Top(t) /\ h = <<t, Len(stack[t])>>
  BY <1>1, TopPlace
<1>3. /\ EndOK(Top(t)) /\ (Carries(Top(t)) => Ready(Top(t).job, blockedBy))
      /\ Claims(Top(t)) \/ Carries(Top(t)) \/ Top(t).op = "submit" => Top(t).job \in Jobs /\ Top(t).job \in Known
  <2>1. EndOK(FrameOf(h))
    BY DEF ContractInv, FramesEnd
  <2> QED BY <1>1, <1>2, <2>1, CarrierFacts
<1> QED BY <1>1, <1>2, <1>3, TopBlame

(* What was told stays told.                                                 *)
Remembered == \A k \in Known : /\ RequiresSuccess(k)' = RequiresSuccess(k)
                               /\ depFailure[k] # None => depFailure'[k] # None

(* A step of one call, at place p, that moves no job which another call is   *)
(* about to end.                                                             *)
LEMMA FramesEndStep ==
    ASSUME ContractInv, Remembered, NEW p,
           \A c \in Places' \ {p} : Kept(c) \/ \E g : (g = FrameOf(c)' /\ ~Claims(g)),
           p \in Places' => \E g : (g = FrameOf(p)' /\ EndOK(g)'),
           \A c \in Places \ {p} : Claims(FrameOf(c)) => status'[FrameOf(c).job] = status[FrameOf(c).job]
    PROVE  FramesEnd'
<1> SUFFICES ASSUME NEW c \in Places' PROVE EndOK(FrameOf(c))'
  BY DEF FramesEnd
<1>1. CASE c = p
  BY <1>1
<1>2. ASSUME c # p, NEW g, g = FrameOf(c)', ~Claims(g) PROVE EndOK(FrameOf(c))'
  BY <1>2 DEF EndOK, Claims
<1>3. CASE c # p /\ Kept(c)
  <2>1. PICK f : f = FrameOf(c)
    OBVIOUS
  <2>2. f = FrameOf(c)' /\ c \in Places /\ EndOK(f)
    BY <1>3, <2>1 DEF Kept, ContractInv, FramesEnd
  <2>3. CASE Claims(f)
    <3>1. f.job \in Known
      BY <2>1, <2>2, <2>3, CarrierFacts DEF ContractInv, FailureInv
    <3>2. status'[f.job] = status[f.job]
      <4>1. c \in Places \ {p} /\ Claims(FrameOf(c))
        BY <1>3, <2>1, <2>2, <2>3
      <4>2. status'[FrameOf(c).job] = status[FrameOf(c).job]
        BY <4>1
      <4> QED BY <2>1, <4>2
    <3>3. EndOK(f)'
      BY <2>2, <2>3, <3>1, <3>2 DEF EndOK, Remembered, Claims
    <3> QED BY <2>2, <3>3
  <2>4. CASE ~Claims(f)
    <3>1. EndOK(f)'
      BY <2>4 DEF EndOK, Claims
    <3> QED BY <2>2, <3>1
  <2> QED BY <2>3, <2>4
<1> QED BY <1>1, <1>2, <1>3

(* In calm, two calls never hold the same job.                               *)
LEMMA Unrivalled ==
    ASSUME ExecutionInv, Calm, NEW h \in Places, Carries(FrameOf(h)),
           \A k \in Jobs \ {FrameOf(h).job} : status'[k] = status[k]
    PROVE  \A c \in Places \ {h} : Claims(FrameOf(c)) => status'[FrameOf(c).job] = status[FrameOf(c).job]
<1> SUFFICES ASSUME NEW c \in Places \ {h}, Claims(FrameOf(c))
             PROVE  status'[FrameOf(c).job] = status[FrameOf(c).job]
  OBVIOUS
<1>1. Carries(FrameOf(c))
  BY DEF Calm, Carries, Stopped, ScopeStops
<1>2. FrameOf(c).job # FrameOf(h).job
  BY <1>1 DEF ExecutionInv, OneCarrier
<1>3. FrameOf(c).job \in Jobs
  BY <1>1, CarrierFacts
<1> QED BY <1>2, <1>3

(* The stack's four movements.                                               *)
LEMMA CalmTurn ==
    ASSUME ContractInv, Remembered, NEW t \in Threads, stack[t] # <<>>, NEW f \in Frame, Become(t, f), EndOK(f)',
           \/ UNCHANGED status
           \/ Calm /\ Carries(Top(t)) /\ \A k \in Jobs \ {Top(t).job} : status'[k] = status[k]
    PROVE  FramesEnd'
<1>1. PICK h : Turning(t, h, f)
  BY TopCalm, BecomePlaces
<1>2. FrameOf(h) = Top(t) /\ h \in Places /\ FrameOf(h)' = f /\ \A c \in Places' \ {h} : Kept(c)
  BY <1>1 DEF Turning, Kept
<1>3. \E g : g = FrameOf(h)' /\ EndOK(g)'
  BY <1>2
<1>4. \A c \in Places \ {h} : Claims(FrameOf(c)) => status'[FrameOf(c).job] = status[FrameOf(c).job]
  BY <1>2, Unrivalled DEF ContractInv, FailureInv
<1> QED BY <1>2, <1>3, <1>4, FramesEndStep

(* Leaving a call, while nothing is cancelled.                               *)
LEMMA CalmLeave ==
    ASSUME ContractInv, Remembered, NEW t \in Threads, stack[t] # <<>>, Return(t), UNCHANGED status
    PROVE  FramesEnd'
<1>1. PICK h : Leaving(t, h)
  BY TopCalm, ReturnPlaces
<1>2. h \notin Places' /\ \A c \in Places' \ {h} : Kept(c)
  BY <1>1 DEF Leaving, Kept
<1> QED BY <1>2, FramesEndStep

(* Entering a call, while nothing is cancelled.                              *)
LEMMA CalmEnter ==
    ASSUME ContractInv, Remembered, NEW t \in Threads, NEW f \in Frame, Enter(t, f), EndOK(f)',
           \A k \in Known \cap Jobs : status'[k] = status[k]
    PROVE  FramesEnd'
<1>1. PICK a : Entering(t, a, f)
  BY CallFacts, EnterPlaces DEF ContractInv, FailureInv, ExecutionInv
<1>2. FrameOf(a)' = f /\ \A c \in Places' \ {a} : Kept(c)
  BY <1>1 DEF Entering, Kept
<1>3. \E g : g = FrameOf(a)' /\ EndOK(g)'
  BY <1>2
<1>4. \A c \in Places \ {a} : Claims(FrameOf(c)) => status'[FrameOf(c).job] = status[FrameOf(c).job]
  BY CarrierFacts DEF ContractInv, FailureInv
<1> QED BY <1>2, <1>3, <1>4, FramesEndStep

(* Calling another operation, while nothing is cancelled.                    *)
LEMMA CalmCall ==
    ASSUME ContractInv, Remembered, NEW t \in Threads, stack[t] # <<>>, NEW f \in Frame, NEW g \in Frame,
           BecomeAndEnter(t, f, g), ~Claims(f), EndOK(g)', UNCHANGED status
    PROVE  FramesEnd'
<1>1. PICK h, a : Calling(t, h, a, f, g)
  BY TopCalm, CallPlaces
<1>2. FrameOf(a)' = g /\ \A c \in Places' \ {a} : Kept(c) \/ FrameOf(c)' = f
  BY <1>1 DEF Calling, Kept
<1>3. \A c \in Places' \ {a} : Kept(c) \/ \E b : (b = FrameOf(c)' /\ ~Claims(b))
  BY <1>2
<1>4. \E b : b = FrameOf(a)' /\ EndOK(b)'
  BY <1>2
<1> QED BY <1>3, <1>4, FramesEndStep

(* A quiet step, while nothing is cancelled.                                 *)
LEMMA QuietCalm == ASSUME ContractInv, Quiet PROVE FramesEnd' /\ ReasonsOK'
<1>1. /\ UNCHANGED <<next, shape, deps, registered, status, failure, depFailure>>
      /\ Known' = Known
  BY DEF Quiet, QuietData, jobVars, stateVars, Known
<1>2. ReasonsOK'
  BY <1>1 DEF ContractInv, ReasonsOK, Unhappy
<1>3. FramesEnd'
  <2> SUFFICES ASSUME NEW c \in Places' PROVE EndOK(FrameOf(c))'
    BY DEF FramesEnd
  <2>1. PICK g : g = FrameOf(c)'
    OBVIOUS
  <2>2. CASE Outside(g)
    <3>1. EndOK(g)'
      BY <2>2 DEF Outside, EndOK, Claims
    <3> QED BY <2>1, <3>1
  <2>3. CASE c \in Places /\ Alike(FrameOf(c), g)
    <3>1. PICK f : f = FrameOf(c)
      OBVIOUS
    <3>2. g.op = f.op /\ g.at = f.at /\ g.job = f.job /\ g.status = f.status /\ g.cause = f.cause
      BY <2>3, <3>1 DEF Alike
    <3>3. EndOK(f)
      BY <2>3, <3>1 DEF ContractInv, FramesEnd
    <3>4. EndOK(g)'
      BY <1>1, <3>2, <3>3 DEF EndOK, Claims, RequiresSuccess
    <3> QED BY <2>1, <3>4
  <2> QED BY <2>1, <2>2, <2>3 DEF Quiet, QuietFrames
<1> QED BY <1>2, <1>3

(* Steps of Submit.                                                          *)
LEMMA SubmitsCalm ==
    ASSUME ContractInv, Calm, NEW t \in Threads, Submits(t) PROVE FramesEnd' /\ ReasonsOK'
<1>1. ASSUME NEW sh, SubmitBegin(t, sh) PROVE FramesEnd' /\ ReasonsOK'
  <2>1. /\ DependencyInv /\ DataType /\ JobsOK /\ FailuresOK /\ ReasonsOK
        /\ UNCHANGED <<registered, failure, depFailure>>
    BY <1>1, InvParts, TypePart DEF ContractInv, FailureInv, ExecutionInv, SubmitBegin
  <2>2. PICK j \in Jobs : j = next /\ j \notin Known /\ Known' = Known \cup {j}
    BY <1>1, <2>1, JobSystemAssumption DEF SubmitBegin, DataType, Jobs, Known
  <2>3. /\ shape' = [shape EXCEPT ![j] = sh] /\ status' = [status EXCEPT ![j] = "Waiting"]
        /\ \E D : deps' = [deps EXCEPT ![j] = D]
    BY <1>1, <2>2 DEF SubmitBegin
  <2>4. /\ status'[j] = "Waiting" /\ status[j] = "Unsubmitted"
        /\ \A k \in Jobs \ {j} : status'[k] = status[k] /\ shape'[k] = shape[k] /\ deps'[k] = deps[k]
    BY <2>1, <2>2, <2>3 DEF DataType, JobsOK
  <2>5. ReasonsOK'
    <3>1. \A k \in Jobs : Unhappy(status'[k]) => failure'[k] # None
      BY <2>1, <2>4 DEF ReasonsOK, Unhappy
    <3>2. ASSUME NEW k \in Jobs, depFailure'[k] # None PROVE \E d \in deps'[k] : Unhappy(status'[d])
      <4>1. k # j
        BY <2>1, <2>2, <3>2 DEF FailuresOK
      <4>2. PICK d \in deps[k] : Unhappy(status[d])
        BY <2>1, <3>2 DEF ReasonsOK
      <4>3. d \in Jobs \ {j}
        BY <2>1, <2>4, <4>2 DEF DataType, Unhappy
      <4> QED BY <2>4, <4>1, <4>2, <4>3
    <3>3. \A k \in Jobs \cap Known' : k \notin registered' => status'[k] = "Waiting"
      BY <2>1, <2>2, <2>4 DEF ReasonsOK
    <3> QED BY <3>1, <3>2, <3>3 DEF ReasonsOK, Unhappy
  <2>6. Remembered
    BY <2>1, <2>2, <2>4 DEF Remembered, RequiresSuccess, Known
  <2>7. PICK f : Enter(t, f) /\ ~Claims(f)
    <3>1. PICK D : Enter(t, [Call("submit", "register", j) EXCEPT !.todo = D])
      BY <1>1, <2>2 DEF SubmitBegin
    <3>2. ~Claims([Call("submit", "register", j) EXCEPT !.todo = D])
      BY DEF Call, Claims
    <3> QED BY <3>1, <3>2
  <2>8. f \in Frame
    <3>1. DependencyInv'
      BY <1>1, <2>1, SubmitBeginInv
    <3>2. stack' = [stack EXCEPT ![t] = <<f>> \o stack[t]] /\ StackType /\ StackType'
      BY <2>1, <2>7, <3>1 DEF Enter, DependencyInv, TypeOK
    <3>3. <<f>> \o stack[t] \in Seq(Frame) /\ stack[t] \in Seq(Frame)
      BY <3>2 DEF StackType
    <3> QED BY <3>3
  <2>9. EndOK(f)'
    BY <2>7 DEF EndOK, Claims
  <2>10. \A k \in Known \cap Jobs : status'[k] = status[k]
    BY <2>2, <2>4
  <2> QED BY <2>5, <2>6, <2>7, <2>8, <2>9, <2>10, CalmEnter
<1>2. ASSUME NEW d \in Jobs, RegisterDependency(t, d) PROVE FramesEnd' /\ ReasonsOK'
  <2>1. /\ stack[t] # <<>> /\ Top(t).op = "submit" /\ Top(t).at = "register" /\ d \in Top(t).todo
        /\ UNCHANGED <<next, shape, deps, registered, status, failure>> /\ Known' = Known
    BY <1>2 DEF RegisterDependency, At, jobVars, Known
  <2>2. PICK j \in Jobs : j = Top(t).job
    BY <2>1, TopCalm
  <2>3. d \in deps[j] /\ DataType /\ ReasonsOK /\ FailuresOK
    BY <2>1, <2>2, TopCalm DEF BlameOK, ContractInv
  <2>4. \/ depFailure' = depFailure
        \/ /\ status[d] \in {"Failed", "Cancelled"}
           /\ depFailure' = [depFailure EXCEPT ![j] =
                                IF depFailure[j] # None THEN depFailure[j] ELSE ResultFailure(d)]
    BY <1>2, <2>2 DEF RegisterDependency
  <2>5. /\ \A k \in Jobs : depFailure[k] # None => depFailure'[k] # None
        /\ \A k \in Jobs : depFailure'[k] # None =>
               depFailure[k] # None \/ (k = j /\ status[d] \in {"Failed", "Cancelled"})
    BY <2>3, <2>4 DEF DataType
  <2>6. ReasonsOK' /\ Remembered
    BY <2>1, <2>3, <2>5 DEF ReasonsOK, Unhappy, Remembered, RequiresSuccess, Known
  <2>7. PICK f \in Frame : f = [Top(t) EXCEPT !.todo = Top(t).todo \ {d}]
    BY <2>1, TopCalm DEF Frame
  <2>8. ~Claims(f)
    BY <2>1, <2>7, TopCalm DEF Frame, Claims
  <2>9. Become(t, f) /\ EndOK(f)'
    BY <1>2, <2>7, <2>8 DEF RegisterDependency, EndOK, Claims
  <2> QED BY <2>1, <2>6, <2>9, CalmTurn
<1>3. CASE RegisterDone(t)
  <2>1. /\ stack[t] # <<>> /\ Top(t).op = "submit" /\ Top(t).at = "register"
        /\ UNCHANGED <<next, shape, deps, status, failure, depFailure>> /\ Known' = Known
    BY <1>3 DEF RegisterDone, At, stateVars, Known
  <2>2. PICK j \in Jobs : j = Top(t).job /\ j \in Known
    BY <2>1, TopCalm
  <2>3. /\ DataType /\ ReasonsOK /\ j \notin registered /\ registered' = registered \cup {j}
        /\ status[j] = "Waiting"
    BY <1>3, <2>1, <2>2, TopCalm DEF FrameOK, ContractInv, ReasonsOK, RegisterDone
  <2>4. ReasonsOK' /\ Remembered
    BY <2>1, <2>3 DEF ReasonsOK, Unhappy, Remembered, RequiresSuccess, Known
  <2>5. PICK f \in Frame : f = Call("submit", "return", j)
    BY <2>2 DEF Call, Frame, Statuses
  <2>6. ~Claims(f) /\ EndOK(f)'
    BY <2>5 DEF Call, Claims, EndOK
  <2>7. PICK x \in Jobs \cup {None} : x = depFailure[j]
    BY <2>3 DEF DataType
  <2>8. \/ Become(t, f)
        \/ \E g : /\ BecomeAndEnter(t, f, g)
                  /\ \/ g = FinishCall(j, "Cancelled", x) /\ RequiresSuccess(j) /\ x # None
                     \/ g = Call("enqueue", "claim", j)
    BY <1>3, <2>2, <2>5, <2>7 DEF RegisterDone, Calm, ScopeStops, DependenciesStop
  <2>9. ASSUME NEW g, \/ g = FinishCall(j, "Cancelled", x) /\ RequiresSuccess(j) /\ x # None
                      \/ g = Call("enqueue", "claim", j)
        PROVE  g \in Frame /\ EndOK(g)'
    <3>1. CASE g = FinishCall(j, "Cancelled", x) /\ RequiresSuccess(j) /\ x # None
      <4>1. g \in Frame /\ g.job = j /\ g.status = "Cancelled" /\ g.cause = x
        BY <3>1, <2>7 DEF FinishCall, Call, Frame, Statuses
      <4>2. RequiresSuccess(j)' /\ depFailure'[j] # None /\ status'[j] = "Waiting"
        BY <2>1, <2>3, <2>7, <3>1 DEF RequiresSuccess
      <4> QED BY <3>1, <4>1, <4>2 DEF EndOK
    <3>2. CASE g = Call("enqueue", "claim", j)
      BY <3>2 DEF Call, Frame, Statuses, Claims, EndOK
    <3> QED BY <2>9, <3>1, <3>2
  <2> QED BY <2>1, <2>4, <2>6, <2>8, <2>9, CalmTurn, CalmCall
<1>4. ~RegisterThrows(t)
  BY DEF Calm, RegisterThrows
<1> QED BY <1>1, <1>2, <1>3, <1>4 DEF Submits

(* Steps of FinishJob.                                                       *)
LEMMA FinishesCalm ==
    ASSUME ContractInv, Calm, NEW t \in Threads, Finishes(t) PROVE FramesEnd' /\ ReasonsOK'
<1>1. /\ stack[t] # <<>> /\ Top(t).op = "finish"
      /\ UNCHANGED <<next, shape, deps, registered>> /\ Known' = Known
  BY DEF Finishes, FinishClaim, FinishSettle, FinishRelease, At, jobVars, Known
<1>2. /\ BlameOK(Top(t)) /\ EndOK(Top(t)) /\ Top(t) \in Frame /\ FrameOK(t, Top(t))
      /\ DependencyInv /\ DataType /\ FailuresOK /\ JobsOK /\ ReasonsOK
  BY <1>1, TopCalm DEF ContractInv
<1>3. PICK j \in Jobs : j = Top(t).job /\ j \in Known /\ IsTerminal(Top(t).status)
  BY <1>1, <1>2 DEF FrameOK, Known
<1>4. CASE FinishSettle(t)
  <2>1. UNCHANGED <<status, failure, depFailure>> /\ Top(t).at = "settle"
    BY <1>4 DEF FinishSettle, stateVars, At
  <2>2. PICK f \in Frame : f = [Top(t) EXCEPT !.at = "release"]
    BY <1>2 DEF Frame
  <2>3. Become(t, f) /\ ~Claims(f)
    BY <1>2, <1>4, <2>2 DEF FinishSettle, Frame, Claims
  <2>4. ReasonsOK' /\ Remembered /\ EndOK(f)'
    BY <1>1, <1>2, <2>1, <2>3 DEF ReasonsOK, Unhappy, Remembered, RequiresSuccess, Known, EndOK, Claims
  <2> QED BY <1>1, <2>1, <2>2, <2>3, <2>4, CalmTurn
<1>5. CASE FinishClaim(t)
  <2>1. Claims(Top(t)) /\ depFailure' = depFailure
    BY <1>5 DEF FinishClaim, At, Claims, stateVars
  <2>2. Remembered
    BY <1>1, <2>1 DEF Remembered, RequiresSuccess
  <2>3. CASE IsTerminal(status[j])
    <3>1. Return(t) /\ UNCHANGED <<status, failure>>
      BY <1>3, <1>5, <2>3 DEF FinishClaim, stateVars
    <3>2. ReasonsOK'
      BY <1>1, <1>2, <2>1, <3>1 DEF ReasonsOK, Unhappy
    <3> QED BY <1>1, <2>2, <3>1, <3>2, CalmLeave
  <2>4. CASE ~IsTerminal(status[j])
    <3>1. PICK f \in Frame : f = [Top(t) EXCEPT !.at = "settle", !.was = status[j], !.todo = dependents[j]]
      BY <1>2 DEF Frame, DataType
    <3>2. ~Claims(f) /\ Become(t, f)
      BY <1>2, <1>3, <1>5, <2>4, <3>1 DEF FinishClaim, Frame, Claims
    <3>3. /\ status' = [status EXCEPT ![j] = Top(t).status] /\ failure' = [failure EXCEPT ![j] = Top(t).cause]
      BY <1>3, <1>5, <2>4 DEF FinishClaim
    <3>4. /\ status'[j] = Top(t).status /\ failure'[j] = Top(t).cause
          /\ \A k \in Jobs \ {j} : status'[k] = status[k] /\ failure'[k] = failure[k]
      BY <1>2, <3>3 DEF DataType
    <3>5. Carries(Top(t)) /\ j \in registered
      <4>1. Carries(Top(t))
        BY <2>1 DEF Carries, Calm, Stopped, ScopeStops
      <4> QED BY <1>1, <1>3, <4>1, TopCalm DEF Ready
    <3>6. Unhappy(Top(t).status) => Top(t).cause # None
      BY <1>2, <1>3, <2>1 DEF EndOK, BlameOK, Unhappy, Jobs, None
    <3>7. ReasonsOK'
      <4>1. \A k \in Jobs : Unhappy(status'[k]) => failure'[k] # None
        BY <1>2, <3>4, <3>6 DEF ReasonsOK
      <4>2. ASSUME NEW k \in Jobs, depFailure[k] # None PROVE \E d \in deps[k] : Unhappy(status'[d])
        <5>1. PICK d \in deps[k] : Unhappy(status[d])
          BY <1>2, <4>2 DEF ReasonsOK
        <5>2. d \in Jobs \ {j}
          BY <1>2, <2>4, <5>1 DEF DataType, Unhappy, IsTerminal
        <5> QED BY <3>4, <5>1, <5>2
      <4>3. \A k \in Jobs \cap Known' : k \notin registered' => status'[k] = "Waiting"
        BY <1>1, <1>2, <3>4, <3>5 DEF ReasonsOK
      <4> QED BY <1>1, <2>1, <4>1, <4>2, <4>3 DEF ReasonsOK, Unhappy
    <3>8. EndOK(f)'
      BY <3>2 DEF EndOK, Claims
    <3> QED BY <1>1, <1>3, <2>2, <3>2, <3>4, <3>5, <3>7, <3>8, CalmTurn
  <2> QED BY <2>3, <2>4
<1>6. ASSUME NEW d \in Jobs, FinishRelease(t, d) PROVE FramesEnd' /\ ReasonsOK'
  <2>1. ~Claims(Top(t)) /\ Top(t).at = "release" /\ d \in Top(t).todo /\ UNCHANGED <<status, failure>>
    BY <1>6 DEF FinishRelease, At, Claims
  <2>2. /\ Top(t).status = status[j] /\ Top(t).cause = failure[j] /\ j \in deps[d]
        /\ Unhappy(status[j]) \/ status[j] = "Succeeded"
    BY <1>1, <1>2, <1>3, <2>1 DEF BlameOK, IsTerminal, Unhappy
  <2>3. PICK e \in Jobs \cup {None} : e = failure[j] /\ (status[j] # "Succeeded" => e # None)
    BY <1>2, <2>2 DEF DataType, ReasonsOK
  <2>4. PICK f \in Frame : f = [Top(t) EXCEPT !.todo = Top(t).todo \ {d}]
    BY <1>2 DEF Frame
  <2>5. ~Claims(f)
    BY <1>2, <2>1, <2>4 DEF Frame, Claims
  <2>6. EndOK(f)'
    BY <2>5 DEF EndOK, Claims
  <2>7. CASE IsTerminal(status[d]) \/ blockedBy[d] = {}
    <3>1. Become(t, f) /\ UNCHANGED depFailure
      BY <1>6, <2>4, <2>7 DEF FinishRelease
    <3>2. ReasonsOK' /\ Remembered
      BY <1>1, <1>2, <2>1, <3>1 DEF ReasonsOK, Unhappy, Remembered, RequiresSuccess, Known
    <3> QED BY <1>1, <2>1, <2>6, <3>1, <3>2, CalmTurn
  <2>8. CASE ~(IsTerminal(status[d]) \/ blockedBy[d] = {})
    <3>1. depFailure' = IF status[j] # "Succeeded" /\ RequiresSuccess(d) /\ depFailure[d] = None
                        THEN [depFailure EXCEPT ![d] = e] ELSE depFailure
      BY <1>6, <2>2, <2>3, <2>8 DEF FinishRelease
    <3>2. /\ \A k \in Jobs \ {d} : depFailure'[k] = depFailure[k]
          /\ depFailure[d] # None => depFailure'[d] = depFailure[d]
          /\ depFailure'[d] # None => depFailure[d] # None \/ status[j] # "Succeeded"
          /\ status[j] # "Succeeded" /\ RequiresSuccess(d) => depFailure'[d] # None
      BY <1>2, <2>3, <3>1 DEF DataType
    <3>3. ReasonsOK' /\ Remembered
      <4>1. \A k \in Jobs : depFailure'[k] # None => \E x \in deps[k] : Unhappy(status[x])
        BY <1>2, <2>2, <3>2 DEF ReasonsOK
      <4>2. ReasonsOK'
        BY <1>1, <1>2, <2>1, <4>1 DEF ReasonsOK, Unhappy
      <4>3. Remembered
        BY <1>1, <3>2 DEF Remembered, RequiresSuccess, Known
      <4> QED BY <4>2, <4>3
    <3>4. status[d] = "Waiting"
      <4>1. d \in Known /\ status[d] \notin {"Queued", "Running"}
        BY <1>2, <2>8 DEF JobsOK, Ready
      <4>2. status[d] # "Unsubmitted"
        BY <4>1 DEF ContractInv, FailureInv, ExecutionInv, StatesOK
      <4> QED BY <1>2, <2>8, <4>1, <4>2 DEF DataType, Statuses, IsTerminal
    <3>5. PICK x \in Jobs \cup {None} : x = depFailure'[d]
      BY <1>2, <2>3, <3>1 DEF DataType
    <3>6. DependenciesStop(d, Top(t).status # "Succeeded", x) => RequiresSuccess(d) /\ x # None
      BY <2>2, <3>2, <3>5 DEF DependenciesStop
    <3>7. \/ Become(t, f)
          \/ \E g : /\ BecomeAndEnter(t, f, g)
                    /\ \/ g = FinishCall(d, "Cancelled", x) /\ RequiresSuccess(d) /\ x # None
                       \/ g = Call("enqueue", "claim", d)
      BY <1>6, <2>4, <2>8, <3>5, <3>6 DEF FinishRelease, Calm
    <3>8. ASSUME NEW g, \/ g = FinishCall(d, "Cancelled", x) /\ RequiresSuccess(d) /\ x # None
                        \/ g = Call("enqueue", "claim", d)
          PROVE  g \in Frame /\ EndOK(g)'
      <4>1. CASE g = FinishCall(d, "Cancelled", x) /\ RequiresSuccess(d) /\ x # None
        <5>1. g \in Frame /\ g.job = d /\ g.status = "Cancelled" /\ g.cause = x
          BY <4>1, <3>5 DEF FinishCall, Call, Frame, Statuses
        <5>2. RequiresSuccess(d)' /\ depFailure'[d] # None /\ status'[d] = "Waiting"
          BY <1>1, <2>1, <3>4, <3>5, <4>1 DEF RequiresSuccess
        <5> QED BY <4>1, <5>1, <5>2 DEF EndOK
      <4>2. CASE g = Call("enqueue", "claim", d)
        BY <4>2 DEF Call, Frame, Statuses, Claims, EndOK
      <4> QED BY <3>8, <4>1, <4>2
    <3> QED BY <1>1, <2>1, <2>5, <2>6, <3>3, <3>7, <3>8, CalmTurn, CalmCall
  <2> QED BY <2>7, <2>8
<1> QED BY <1>4, <1>5, <1>6 DEF Finishes

(* Steps of Enqueue and of the worker threads.                               *)
LEMMA ExecutionsCalm ==
    ASSUME ContractInv, Calm, NEW t \in Threads, Executions(t) PROVE FramesEnd' /\ ReasonsOK'
<1>1. /\ UNCHANGED <<next, shape, deps, registered, failure, depFailure>> /\ Known' = Known
  BY DEF Executions, EnqueueClaim, EnqueuePublish, Take, Helps, WaitCheck, ExecuteBegin, ExecuteCall, BodyReturns,
         BodyThrows, OnlyStackChanges, jobVars, stateVars, Known
<1>2. Remembered
  BY <1>1 DEF Remembered, RequiresSuccess
<1>3. UNCHANGED status => ReasonsOK'
  BY <1>1 DEF ContractInv, ReasonsOK, Unhappy
<1>4. ASSUME NEW j \in Jobs, Carries(Top(t)), stack[t] # <<>>, j = Top(t).job,
             ~IsTerminal(status[j]), NEW s \in {"Queued", "Running"}, status' = [status EXCEPT ![j] = s]
      PROVE  /\ \A k \in Jobs \ {j} : status'[k] = status[k]
             /\ status'[j] = s /\ ReasonsOK'
  <2>1. DataType /\ ReasonsOK /\ j \in registered
    BY <1>4, TopCalm DEF ContractInv, Ready
  <2>2. /\ \A k \in Jobs \ {j} : status'[k] = status[k]
        /\ status'[j] = s
    BY <1>4, <2>1 DEF DataType
  <2>3. \A d \in Jobs : Unhappy(status'[d]) <=> Unhappy(status[d])
    BY <1>4, <2>2 DEF Unhappy, IsTerminal
  <2>4. \A k \in Jobs : \A d \in deps[k] : d \in Jobs
    BY <2>1 DEF DataType
  <2>5. ReasonsOK'
    <3>1. \A k \in Jobs : Unhappy(status'[k]) => failure'[k] # None
      BY <1>1, <2>1, <2>3 DEF ReasonsOK
    <3>2. \A k \in Jobs : depFailure'[k] # None => \E d \in deps'[k] : Unhappy(status'[d])
      BY <1>1, <2>1, <2>3, <2>4 DEF ReasonsOK
    <3>3. \A k \in Jobs \cap Known' : k \notin registered' => status'[k] = "Waiting"
      BY <1>1, <2>1, <2>2 DEF ReasonsOK
    <3> QED BY <3>1, <3>2, <3>3 DEF ReasonsOK, Unhappy
  <2> QED BY <2>2, <2>5
<1>5. CASE EnqueueClaim(t)
  <2>1. stack[t] # <<>> /\ Carries(Top(t)) /\ Top(t).op = "enqueue"
    BY <1>5 DEF EnqueueClaim, At, Carries
  <2>2. PICK j \in Jobs : j = Top(t).job
    BY <2>1, TopCalm
  <2>3. CASE Return(t) /\ UNCHANGED status
    BY <1>2, <1>3, <2>1, <2>3, CalmLeave
  <2>4. PICK f \in Frame : f = [Top(t) EXCEPT !.at = "publish"]
    BY <2>1, TopCalm DEF Frame
  <2>5. EndOK(f)'
    BY <2>1, <2>4, TopCalm DEF Frame, EndOK, Claims
  <2>6. CASE /\ status[j] = "Waiting" /\ status' = [status EXCEPT ![j] = "Queued"] /\ Become(t, f)
    <3>1. ~IsTerminal(status[j])
      BY <2>6 DEF IsTerminal
    <3>2. ReasonsOK' /\ \A k \in Jobs \ {j} : status'[k] = status[k]
      BY <1>4, <2>1, <2>2, <2>6, <3>1
    <3> QED BY <1>2, <2>1, <2>2, <2>5, <2>6, <3>2, CalmTurn
  <2> QED BY <1>5, <2>2, <2>3, <2>4, <2>6 DEF EnqueueClaim
<1>6. CASE EnqueuePublish(t)
  <2>1. stack[t] # <<>> /\ Return(t) /\ UNCHANGED status
    BY <1>6 DEF EnqueuePublish, At, stateVars
  <2> QED BY <1>2, <1>3, <2>1, CalmLeave
<1>7. CASE Take(t) \/ Helps(t)
  <2>1. UNCHANGED status
    BY <1>7 DEF Take, Helps, WaitCheck, stateVars
  <2>2. PICK l \in Lanes : \E j \in queue[l] : Enter(t, Call("execute", "begin", j))
    <3>1. CASE Take(t)
      BY <3>1 DEF Take, TakesFrom, Lanes
    <3>2. CASE Helps(t)
      BY <3>2 DEF Helps, WaitCheck, Lanes
    <3> QED BY <1>7, <3>1, <3>2
  <2>3. PICK j \in queue[l] : Enter(t, Call("execute", "begin", j))
    BY <2>2
  <2>4. j \in Jobs
    BY <2>2, <2>3, CarrierFacts DEF ContractInv, FailureInv
  <2>5. PICK g \in Frame : g = Call("execute", "begin", j)
    BY <2>4 DEF Call, Frame, Statuses
  <2>6. EndOK(g)'
    BY <2>5 DEF Call, EndOK, Claims
  <2> QED BY <1>2, <1>3, <2>1, <2>3, <2>5, <2>6, CalmEnter
<1>8. ASSUME stack[t] # <<>>, Top(t).op = "execute"
      PROVE  /\ Carries(Top(t)) /\ Top(t).job \in Jobs /\ Top(t) \in Frame /\ CallOK(Top(t)) /\ DataType
             /\ Top(t).at # "begin" => status[Top(t).job] = "Running"
  <2>1. Carries(Top(t))
    BY <1>8 DEF Carries
  <2>2. Top(t).at # "begin" => status[Top(t).job] = "Running"
    BY <1>8, TopCalm DEF CallOK, Started, Calm
  <2> QED BY <1>8, <2>1, <2>2, TopCalm
<1>9. ASSUME stack[t] # <<>>, NEW j \in Jobs, status[j] = "Running", UNCHANGED status,
             NEW s \in {"Succeeded", "Failed"}, NEW e \in {j, None}, Become(t, FinishCall(j, s, e))
      PROVE  FramesEnd' /\ ReasonsOK'
  <2>1. PICK f \in Frame : f = FinishCall(j, s, e)
    BY DEF FinishCall, Call, Frame, Statuses
  <2>2. f.job = j /\ f.status # "Cancelled"
    BY <2>1 DEF FinishCall, Call
  <2>3. EndOK(f)'
    BY <1>9, <2>2 DEF EndOK
  <2> QED BY <1>2, <1>3, <1>9, <2>1, <2>3, CalmTurn
<1>10. CASE ExecuteBegin(t)
  <2>1. stack[t] # <<>> /\ Top(t).op = "execute"
    BY <1>10 DEF ExecuteBegin, At
  <2>2. PICK j \in Jobs : j = Top(t).job
    BY <1>8, <2>1
  <2>3. CASE IsTerminal(status[j])
    <3>1. Return(t) /\ UNCHANGED status
      BY <1>10, <2>2, <2>3 DEF ExecuteBegin
    <3> QED BY <1>2, <1>3, <2>1, <3>1, CalmLeave
  <2>4. CASE ~IsTerminal(status[j])
    <3>1. PICK f \in Frame : f = [Top(t) EXCEPT !.at = "call"]
      BY <1>8, <2>1 DEF Frame
    <3>2. status' = [status EXCEPT ![j] = "Running"] /\ Become(t, f)
      BY <1>10, <2>2, <2>4, <3>1 DEF ExecuteBegin, Calm, ScopeStops
    <3>3. ReasonsOK' /\ \A k \in Jobs \ {j} : status'[k] = status[k]
      BY <1>4, <1>8, <2>1, <2>2, <2>4, <3>2
    <3>4. EndOK(f)'
      BY <1>8, <2>1, <3>1 DEF Frame, EndOK, Claims
    <3> QED BY <1>2, <1>8, <2>1, <2>2, <3>2, <3>3, <3>4, CalmTurn
  <2> QED BY <2>3, <2>4
<1>11. CASE ExecuteCall(t)
  <2>1. stack[t] # <<>> /\ Top(t).op = "execute" /\ Top(t).at = "call" /\ UNCHANGED status
    BY <1>11 DEF ExecuteCall, At, OnlyStackChanges, stateVars
  <2>2. PICK j \in Jobs : j = Top(t).job /\ status[j] = "Running"
    BY <1>8, <2>1
  <2>3. PICK f \in Frame : f = [Top(t) EXCEPT !.at = "body", !.todo = shape[j].awaits]
    <3>1. shape[j].awaits \subseteq Jobs
      BY <1>8, <2>1 DEF DataType, Shape
    <3> QED BY <1>8, <2>1, <3>1 DEF Frame
  <2>4. Become(t, f) \/ Become(t, FinishCall(j, "Failed", j))
    BY <1>11, <2>2, <2>3 DEF ExecuteCall
  <2>5. EndOK(f)'
    BY <1>8, <2>1, <2>3 DEF Frame, EndOK, Claims
  <2> QED BY <1>2, <1>3, <1>9, <2>1, <2>2, <2>4, <2>5, CalmTurn
<1>12. CASE BodyReturns(t) \/ BodyThrows(t)
  <2>1. stack[t] # <<>> /\ Top(t).op = "execute" /\ Top(t).at = "body" /\ UNCHANGED status
    BY <1>12 DEF BodyReturns, BodyThrows, At, OnlyStackChanges, stateVars
  <2>2. PICK j \in Jobs : j = Top(t).job /\ status[j] = "Running"
    BY <1>8, <2>1
  <2>3. Become(t, FinishCall(j, "Succeeded", None)) \/ Become(t, FinishCall(j, "Failed", j))
    BY <1>12, <2>2 DEF BodyReturns, BodyThrows, Calm, ScopeStops
  <2> QED BY <1>9, <2>1, <2>2, <2>3
<1> QED BY <1>5, <1>6, <1>7, <1>10, <1>11, <1>12 DEF Executions

(* Every step keeps the contract's invariant while all is calm.              *)
LEMMA ContractInvStep == ASSUME ContractInv, Calm, [Next]_vars PROVE ContractInv'
<1>1. FailureInv'
  BY FailureStep DEF ContractInv
<1>2. ~Ends
  BY DEF Ends, EndsAt, Calm
<1>3. FramesEnd' /\ ReasonsOK'
  BY <1>2, QuietCalm, SubmitsCalm, FinishesCalm, ExecutionsCalm, StepKinds DEF ContractInv, FailureInv
<1> QED BY <1>1, <1>3 DEF ContractInv

(* It holds at the start.                                                    *)
LEMMA ContractInvInit == ASSUME Init PROVE ContractInv
<1>1. FramesEnd
  BY NoPlaces DEF FramesEnd
<1>2. ReasonsOK
  BY JobSystemAssumption DEF Init, ReasonsOK, Unhappy, Known, Jobs
<1> QED BY <1>1, <1>2, FailureInit DEF ContractInv

-----------------------------------------------------------------------------
(* Why a completion function runs once: the inductive invariant. *)

(* What a step of thread t does to its stack, when it hands no completion    *)
(* function to a call.                                                       *)
Moves(t) ==
    \/ UNCHANGED stack
    \/ \E f : Enter(t, f) /\ f.calls = {}
    \/ stack[t] # <<>> /\ \E f : Become(t, f) /\ f.calls \subseteq Top(t).calls
    \/ stack[t] # <<>> /\ \E f, g : BecomeAndEnter(t, f, g) /\ f.calls \subseteq Top(t).calls /\ g.calls = {}
    \/ stack[t] # <<>> /\ Return(t)

(* The functions that a call still has to run are among those it had.        *)
KeepsCalls == \A h \in Places' : \A c \in FrameOf(h)'.calls : h \in Places /\ c \in FrameOf(h).calls

(* A type-correct stack holds frames.                                        *)
LEMMA TopsAreFrames ==
    ASSUME StackType, StackType', NEW t \in Threads
    PROVE  /\ \A f : Enter(t, f) => f \in Frame
           /\ \A f : stack[t] # <<>> /\ Become(t, f) => f \in Frame
           /\ \A f, g : stack[t] # <<>> /\ BecomeAndEnter(t, f, g) => f \in Frame /\ g \in Frame
<1>1. stack[t] \in Seq(Frame) /\ stack'[t] \in Seq(Frame)
  BY DEF StackType
<1>2. ASSUME NEW f, Enter(t, f) PROVE f \in Frame
  <2>1. stack'[t] = <<f>> \o stack[t]
    BY <1>2 DEF Enter, StackType
  <2> QED BY <1>1, <2>1
<1>3. ASSUME NEW f, stack[t] # <<>>, Become(t, f) PROVE f \in Frame
  <2>1. stack'[t] = <<f>> \o Tail(stack[t]) /\ Tail(stack[t]) \in Seq(Frame)
    BY <1>1, <1>3 DEF Become, StackType
  <2> QED BY <1>1, <2>1
<1>4. ASSUME NEW f, NEW g, stack[t] # <<>>, BecomeAndEnter(t, f, g) PROVE f \in Frame /\ g \in Frame
  <2>1. stack'[t] = <<g, f>> \o Tail(stack[t]) /\ Tail(stack[t]) \in Seq(Frame)
    BY <1>1, <1>4 DEF BecomeAndEnter, StackType
  <2>2. stack'[t][1] = g /\ stack'[t][2] = f /\ Len(stack'[t]) >= 2
    BY <2>1, ConcatProperties
  <2> QED BY <1>1, <2>2
<1> QED BY <1>2, <1>3, <1>4

(* A step that moves calls keeps the completion functions they have.         *)
LEMMA MovesKeepCalls ==
    ASSUME StackType, StackType', NEW t \in Threads, Moves(t) PROVE KeepsCalls
<1>1. CASE UNCHANGED stack
  <2>1. Places' = Places /\ \A h : FrameOf(h)' = FrameOf(h)
    BY <1>1 DEF Places, FrameOf
  <2> QED BY <2>1 DEF KeepsCalls
<1>2. ASSUME NEW f, Enter(t, f), f.calls = {} PROVE KeepsCalls
  <2>1. PICK a : Entering(t, a, f)
    BY <1>2, TopsAreFrames, EnterPlaces
  <2> QED BY <1>2, <2>1 DEF Entering, KeepsCalls
<1>3. ASSUME stack[t] # <<>>, NEW f, Become(t, f), f.calls \subseteq Top(t).calls PROVE KeepsCalls
  <2>1. PICK h : Turning(t, h, f)
    BY <1>3, TopsAreFrames, BecomePlaces
  <2> QED BY <1>3, <2>1 DEF Turning, KeepsCalls
<1>4. ASSUME stack[t] # <<>>, NEW f, NEW g, BecomeAndEnter(t, f, g), f.calls \subseteq Top(t).calls, g.calls = {}
      PROVE  KeepsCalls
  <2>1. PICK h, a : Calling(t, h, a, f, g)
    BY <1>4, TopsAreFrames, CallPlaces
  <2> QED BY <1>4, <2>1 DEF Calling, KeepsCalls
<1>5. ASSUME stack[t] # <<>>, Return(t) PROVE KeepsCalls
  <2>1. PICK h : Leaving(t, h)
    BY <1>5, ReturnPlaces
  <2> QED BY <2>1 DEF Leaving, KeepsCalls
<1> QED BY <1>1, <1>2, <1>3, <1>4, <1>5 DEF Moves

(* The calls that Call and FinishCall make have no functions to run.         *)
LEMMA NewCallsEmpty ==
    /\ \A op, at, j : Call(op, at, j).calls = {}
    /\ \A op, at, j, S : [Call(op, at, j) EXCEPT !.todo = S].calls = {}
    /\ \A j, s, e : FinishCall(j, s, e).calls = {}
  BY DEF Call, FinishCall

(* Going through a list, or to another point, leaves the functions alone.    *)
LEMMA TurnsKeepCalls ==
    ASSUME NEW f \in Frame
    PROVE  /\ \A S : [f EXCEPT !.todo = S].calls = f.calls
           /\ \A p : [f EXCEPT !.at = p].calls = f.calls
           /\ \A p, S : [f EXCEPT !.at = p, !.todo = S].calls = f.calls
           /\ \A p, s, S : [f EXCEPT !.at = p, !.was = s, !.todo = S].calls = f.calls
  BY DEF Frame

(* Every step but those of completion functions.                             *)
Serves(t) == FinishCallbacks(t) \/ \E c \in Callbacks : RunCallback(t, c) \/ \E j \in Jobs : OnComplete(t, j, c)

(* Every other step only moves calls.                                        *)
LEMMA StepsMove ==
    ASSUME DependencyInv, NEW t \in Threads, Step(t) \/ Request(t)
    PROVE  Serves(t) \/ (Moves(t) /\ UNCHANGED callVars)
<1>1. stack[t] # <<>> => Top(t) \in Frame
  BY CallFacts
<1>2. ASSUME NEW d \in Jobs, \/ RegisterDependency(t, d) \/ FinishRelease(t, d) \/ BodyWaits(t, d)
                             \/ ScopeCancelFlag(t, d) \/ ScopeWaitEach(t, d)
                             \/ CloseFlag(t, d) \/ CloseSweep(t, d)
      PROVE  Moves(t) /\ UNCHANGED callVars
  <2>1. stack[t] # <<>> /\ UNCHANGED callVars
    BY <1>2 DEF RegisterDependency, FinishRelease, BodyWaits, ScopeCancelFlag, ScopeWaitEach, CloseFlag,
                CloseSweep, At, OnlyStackChanges
  <2>2. PICK f : f = [Top(t) EXCEPT !.todo = Top(t).todo \ {d}]
    OBVIOUS
  <2>3. \/ Become(t, f)
        \/ \E op, at, j : BecomeAndEnter(t, f, Call(op, at, j))
        \/ \E j, s, e : BecomeAndEnter(t, f, FinishCall(j, s, e))
    <3>1. CASE RegisterDependency(t, d) \/ CloseFlag(t, d)
      BY <2>2, <3>1 DEF RegisterDependency, CloseFlag
    <3>2. CASE FinishRelease(t, d)
      BY <2>2, <3>2 DEF FinishRelease
    <3>3. CASE BodyWaits(t, d) \/ ScopeCancelFlag(t, d) \/ ScopeWaitEach(t, d)
      BY <2>2, <3>3 DEF BodyWaits, ScopeCancelFlag, ScopeWaitEach
    <3>4. CASE CloseSweep(t, d)
      BY <2>2, <3>4 DEF CloseSweep
    <3> QED BY <1>2, <3>1, <3>2, <3>3, <3>4
  <2>4. f.calls = Top(t).calls
    BY <1>1, <2>1, <2>2, TurnsKeepCalls
  <2> QED BY <2>1, <2>3, <2>4, NewCallsEmpty DEF Moves
<1>3. CASE RegisterDone(t) \/ RegisterThrows(t)
  <2>1. stack[t] # <<>> /\ UNCHANGED callVars
    BY <1>3 DEF RegisterDone, RegisterThrows, At
  <2>2. PICK j : j = Top(t).job
    OBVIOUS
  <2>3. \/ Become(t, Call("submit", "return", j))
        \/ BecomeAndEnter(t, Call("submit", "return", j), Call("enqueue", "claim", j))
        \/ \E k, s, e : BecomeAndEnter(t, Call("submit", "return", j), FinishCall(k, s, e))
    <3>1. CASE RegisterDone(t)
      BY <2>2, <3>1 DEF RegisterDone
    <3>2. CASE RegisterThrows(t)
      BY <2>2, <3>2 DEF RegisterThrows
    <3> QED BY <1>3, <3>1, <3>2
  <2> QED BY <2>1, <2>3, NewCallsEmpty DEF Moves
<1>4. CASE \/ SubmitReturn(t) \/ EnqueuePublish(t) \/ WaitWake(t) \/ ScopeReturn(t) \/ CloseReturn(t)
  <2>1. stack[t] # <<>> /\ Return(t) /\ UNCHANGED callVars
    BY <1>4 DEF SubmitReturn, EnqueuePublish, WaitWake, ScopeReturn, CloseReturn, At, OnlyStackChanges
  <2> QED BY <2>1 DEF Moves
<1>5. CASE \/ EnqueueClaim(t) \/ FinishClaim(t) \/ FinishSettle(t) \/ ExecuteBegin(t) \/ ExecuteCall(t)
           \/ BodyReturns(t) \/ BodyThrows(t) \/ CancelLook(t) \/ ScopeCancelLook(t) \/ ScopeCollect(t) \/ CloseJoin(t)
  <2>1. stack[t] # <<>> /\ UNCHANGED callVars
    BY <1>5 DEF EnqueueClaim, FinishClaim, FinishSettle, ExecuteBegin, ExecuteCall, BodyReturns, BodyThrows,
                CancelLook, ScopeCancelLook, ScopeCollect, CloseJoin, At, OnlyStackChanges
  <2>2. \/ Return(t)
        \/ \E p : Become(t, [Top(t) EXCEPT !.at = p])
        \/ \E p, S : Become(t, [Top(t) EXCEPT !.at = p, !.todo = S])
        \/ \E p, s, S : Become(t, [Top(t) EXCEPT !.at = p, !.was = s, !.todo = S])
        \/ \E j, s, e : Become(t, FinishCall(j, s, e))
    <3>1. CASE EnqueueClaim(t)
      BY <3>1 DEF EnqueueClaim
    <3>2. CASE FinishClaim(t)
      BY <3>2 DEF FinishClaim
    <3>3. CASE FinishSettle(t)
      BY <3>3 DEF FinishSettle
    <3>4. CASE ExecuteBegin(t)
      <4>1. PICK p : p = "call"
        OBVIOUS
      <4>2. \/ Return(t) \/ Become(t, [Top(t) EXCEPT !.at = p])
            \/ Become(t, FinishCall(Top(t).job, "Cancelled", None))
        BY <3>4, <4>1 DEF ExecuteBegin
      <4> QED BY <4>2
    <3>5. CASE ExecuteCall(t)
      BY <3>5 DEF ExecuteCall
    <3>6. CASE BodyReturns(t)
      BY <3>6 DEF BodyReturns
    <3>7. CASE BodyThrows(t)
      BY <3>7 DEF BodyThrows
    <3>8. CASE CancelLook(t) \/ ScopeCancelLook(t)
      BY <3>8 DEF CancelLook, ScopeCancelLook
    <3>9. CASE ScopeCollect(t)
      BY <3>9 DEF ScopeCollect
    <3>10. CASE CloseJoin(t)
      BY <3>10 DEF CloseJoin
    <3> QED BY <1>5, <3>1, <3>2, <3>3, <3>4, <3>5, <3>6, <3>7, <3>8, <3>9, <3>10
  <2>3. ASSUME NEW p, Become(t, [Top(t) EXCEPT !.at = p]) PROVE Moves(t)
    <3>1. PICK f : f = [Top(t) EXCEPT !.at = p]
      OBVIOUS
    <3>2. f.calls \subseteq Top(t).calls
      BY <1>1, <2>1, <3>1, TurnsKeepCalls, NewCallsEmpty
    <3> QED BY <2>1, <2>3, <3>1, <3>2 DEF Moves
  <2>4. ASSUME NEW p, NEW S, Become(t, [Top(t) EXCEPT !.at = p, !.todo = S]) PROVE Moves(t)
    <3>1. PICK f : f = [Top(t) EXCEPT !.at = p, !.todo = S]
      OBVIOUS
    <3>2. f.calls \subseteq Top(t).calls
      BY <1>1, <2>1, <3>1, TurnsKeepCalls, NewCallsEmpty
    <3> QED BY <2>1, <2>4, <3>1, <3>2 DEF Moves
  <2>5. ASSUME NEW p, NEW s, NEW S, Become(t, [Top(t) EXCEPT !.at = p, !.was = s, !.todo = S]) PROVE Moves(t)
    <3>1. PICK f : f = [Top(t) EXCEPT !.at = p, !.was = s, !.todo = S]
      OBVIOUS
    <3>2. f.calls \subseteq Top(t).calls
      BY <1>1, <2>1, <3>1, TurnsKeepCalls, NewCallsEmpty
    <3> QED BY <2>1, <2>5, <3>1, <3>2 DEF Moves
  <2>6. ASSUME NEW j, NEW s, NEW e, Become(t, FinishCall(j, s, e)) PROVE Moves(t)
    <3>1. PICK f : f = FinishCall(j, s, e)
      OBVIOUS
    <3>2. f.calls \subseteq Top(t).calls
      BY <1>1, <2>1, <3>1, TurnsKeepCalls, NewCallsEmpty
    <3> QED BY <2>1, <2>6, <3>1, <3>2 DEF Moves
  <2>7. CASE Return(t)
    BY <2>1, <2>7 DEF Moves
  <2> QED BY <2>1, <2>2, <2>3, <2>4, <2>5, <2>6, <2>7
<1>6. CASE (\E w \in Pool : CloseRequestStop(t, w)) \/ WorkerExit(t) \/ SetDeterministicSimulation(t)
  BY <1>6 DEF CloseRequestStop, WorkerExit, SetDeterministicSimulation, Moves
<1>7. CASE WaitCheck(t)
  <2>1. stack[t] # <<>> /\ UNCHANGED callVars
    BY <1>7 DEF WaitCheck, At
  <2>2. \/ Return(t) \/ \E j : Enter(t, Call("execute", "begin", j))
        \/ \E p : Become(t, [Top(t) EXCEPT !.at = p])
    BY <1>7 DEF WaitCheck
  <2>3. ASSUME NEW p, Become(t, [Top(t) EXCEPT !.at = p]) PROVE Moves(t)
    <3>1. PICK f : f = [Top(t) EXCEPT !.at = p]
      OBVIOUS
    <3>2. f.calls = Top(t).calls
      BY <1>1, <2>1, <3>1, TurnsKeepCalls
    <3> QED BY <2>1, <2>3, <3>1, <3>2 DEF Moves
  <2>4. CASE Return(t) \/ \E j : Enter(t, Call("execute", "begin", j))
    BY <2>1, <2>4, NewCallsEmpty DEF Moves
  <2> QED BY <2>1, <2>2, <2>3, <2>4
<1>8. CASE \/ Take(t) \/ ScopeCancel(t) \/ ScopeWait(t) \/ \E j \in Jobs : ClientWaits(t, j) \/ Cancel(t, j)
  <2>1. UNCHANGED callVars /\ \E op, at, j : Enter(t, Call(op, at, j))
    BY <1>8 DEF Take, ScopeCancel, ScopeWait, ClientWaits, Cancel, OnlyStackChanges
  <2> QED BY <2>1, NewCallsEmpty DEF Moves
<1>9. CASE Close(t)
  <2>1. UNCHANGED callVars /\ \E S : Enter(t, [Call("close", "flag", None) EXCEPT !.todo = S])
    BY <1>9 DEF Close
  <2> QED BY <2>1, NewCallsEmpty DEF Moves
<1>10. ASSUME NEW sh, SubmitBegin(t, sh) PROVE Moves(t) /\ UNCHANGED callVars
  <2>1. UNCHANGED callVars /\ \E j, S : Enter(t, [Call("submit", "register", j) EXCEPT !.todo = S])
    BY <1>10 DEF SubmitBegin
  <2> QED BY <2>1, NewCallsEmpty DEF Moves
<1>11. ASSUME Step(t) PROVE Serves(t) \/ (Moves(t) /\ UNCHANGED callVars)
  BY <1>2, <1>3, <1>4, <1>5, <1>6, <1>7, <1>8, <1>9, <1>11 DEF Step, Serves
<1>12. ASSUME Request(t) PROVE Serves(t) \/ (Moves(t) /\ UNCHANGED callVars)
  BY <1>6, <1>8, <1>9, <1>10, <1>12 DEF Request, Serves
<1> QED BY <1>11, <1>12

(* A job that is over stays so.                                              *)
StaysOver == \A j \in Jobs : IsTerminal(status[j]) => IsTerminal(status'[j])

(* A job that is over stays so, as it is.                                    *)
LEMMA OverForGood == ASSUME ExecutionInv, [Next]_vars PROVE StaysOver
<1>1. CASE Onwards
  BY <1>1 DEF Onwards, StaysOver
<1>2. ASSUME NEW t \in Threads, NEW sh, SubmitBegin(t, sh) PROVE StaysOver
  <2>1. DataType /\ DependencyInv
    BY TypePart DEF ExecutionInv
  <2>2. PICK j : j = next /\ status' = [status EXCEPT ![j] = "Waiting"]
    BY <1>2 DEF SubmitBegin
  <2>3. j \in Jobs => ~IsTerminal(status[j])
    BY <2>1, <2>2 DEF DependencyInv, JobsOK, Known, IsTerminal, DataType, Jobs
  <2> QED BY <2>1, <2>2, <2>3 DEF StaysOver, DataType
<1> QED BY <1>1, <1>2, JobsAdvance

(* Frames hold jobs and completion functions.                                *)
LEMMA CallbackTypes ==
    ASSUME ExecutionInv
    PROVE  /\ DataType /\ StackType /\ callbacksDone \subseteq Jobs
           /\ \A h \in Places : FrameOf(h).calls \subseteq Callbacks
           /\ \A j \in Jobs : callbacks[j] \subseteq Callbacks
<1>1. DataType /\ StackType /\ \A h \in Places : FrameOf(h) \in Frame
  BY CallFacts DEF ExecutionInv
<1>2. \A h \in Places : FrameOf(h).calls \subseteq Callbacks
  BY <1>1 DEF Frame
<1> QED BY <1>1, <1>2 DEF DataType

(* Steps that hand no completion function on.                                *)
LEMMA CallbacksLeftAlone ==
    ASSUME CallbackInv, StaysOver, KeepsCalls, UNCHANGED callVars PROVE CallbacksOK'
<1>1. /\ UNCHANGED <<callbacks, callbacksDone, asked, delivered>> /\ CallbacksOK
      /\ callbacksDone \subseteq Jobs
  BY CallbackTypes DEF callVars, CallbackInv
<1>2. KeptByJobs'
  BY <1>1 DEF CallbacksOK, KeptByJobs, HandedOut
<1>3. \A c : Due(c) => Due(c)'
  BY <1>1 DEF Due, HandedOut, StaysOver
<1>4. KeptByCalls'
  <2> SUFFICES ASSUME NEW h \in Places', NEW c \in FrameOf(h)'.calls
               PROVE  Due(c)' /\ \A j \in Jobs : c \notin callbacks[j]
    BY <1>1 DEF KeptByCalls
  <2>1. h \in Places /\ c \in FrameOf(h).calls
    BY DEF KeepsCalls
  <2> QED BY <1>1, <1>3, <2>1 DEF CallbacksOK, KeptByCalls
<1>5. KeptOnce'
  <2> SUFFICES ASSUME NEW h \in Places', NEW i \in Places', NEW c \in FrameOf(h)'.calls, c \in FrameOf(i)'.calls
               PROVE  h = i
    BY DEF KeptOnce
  <2>1. h \in Places /\ i \in Places /\ c \in FrameOf(h).calls /\ c \in FrameOf(i).calls
    BY DEF KeepsCalls
  <2> QED BY <1>1, <2>1 DEF CallbacksOK, KeptOnce
<1>6. RanOnce' /\ DoneWhenOver'
  BY <1>1 DEF CallbacksOK, RanOnce, DoneWhenOver, StaysOver
<1> QED BY <1>2, <1>4, <1>5, <1>6 DEF CallbacksOK

(* FinishJob takes the functions that its job has, or is done with them.     *)
LEMMA FinishCallbacksOK ==
    ASSUME CallbackInv, StackType', NEW t \in Threads, FinishCallbacks(t) PROVE CallbacksOK'
<1>1. /\ stack[t] # <<>> /\ Top(t).op = "finish" /\ Top(t).at = "release" /\ Top(t).calls = {}
      /\ UNCHANGED <<status, asked, delivered>>
  BY DEF FinishCallbacks, At, stateVars
<1>2. DependencyInv /\ StackType /\ DataType /\ CallbacksOK
  BY CallbackTypes DEF CallbackInv, ExecutionInv
<1>3. Top(t) \in Frame /\ FrameOK(t, Top(t))
  BY <1>1, <1>2, CallFacts
<1>4. PICK j \in Jobs : j = Top(t).job /\ IsTerminal(status[j])
  BY <1>1, <1>3, JobSystemAssumption DEF FrameOK, WithoutJob
<1>5. \A c : Due(c)' <=> Due(c)
  BY <1>1 DEF Due, HandedOut
<1>6. RanOnce'
  BY <1>1, <1>2 DEF CallbacksOK, RanOnce
<1>7. CASE callbacks[j] = {}
  <2>1. callbacksDone' = callbacksDone \cup {j} /\ Return(t) /\ UNCHANGED callbacks
    BY <1>4, <1>7 DEF FinishCallbacks
  <2>2. KeepsCalls
    BY <1>1, <1>2, <2>1, MovesKeepCalls DEF Moves
  <2>3. KeptByJobs' /\ DoneWhenOver'
    BY <1>1, <1>2, <1>4, <2>1 DEF CallbacksOK, KeptByJobs, HandedOut, DoneWhenOver
  <2>4. KeptByCalls'
    BY <1>2, <1>5, <2>1, <2>2 DEF CallbacksOK, KeptByCalls, KeepsCalls
  <2>5. KeptOnce'
    BY <1>2, <2>2 DEF CallbacksOK, KeptOnce, KeepsCalls
  <2> QED BY <1>6, <2>3, <2>4, <2>5 DEF CallbacksOK
<1>8. CASE callbacks[j] # {}
  <2>1. PICK C : C = callbacks[j]
    OBVIOUS
  <2>2. PICK f : f = [Top(t) EXCEPT !.calls = C]
    OBVIOUS
  <2>3. /\ callbacks' = [callbacks EXCEPT ![j] = {}] /\ Become(t, f) /\ UNCHANGED callbacksDone
        /\ f.calls = C
    <3>1. callbacks' = [callbacks EXCEPT ![j] = {}] /\ UNCHANGED callbacksDone
      BY <1>4, <1>8 DEF FinishCallbacks
    <3>2. Become(t, f)
      BY <1>4, <1>8, <2>1, <2>2 DEF FinishCallbacks
    <3>3. f.calls = C
      BY <1>3, <2>2 DEF Frame
    <3> QED BY <3>1, <3>2, <3>3
  <2>4. PICK h : Turning(t, h, f)
    BY <1>1, <1>2, <2>3, TopsAreFrames, BecomePlaces
  <2>5. /\ h \in Places /\ Places' = Places /\ FrameOf(h)' = f /\ FrameOf(h) = Top(t)
        /\ \A i \in Places \ {h} : FrameOf(i)' = FrameOf(i)
    BY <2>4 DEF Turning
  <2>6. /\ callbacks'[j] = {} /\ \A k \in Jobs \ {j} : callbacks'[k] = callbacks[k]
    BY <1>2, <2>3 DEF DataType
  <2>7. \A c \in C : Due(c) /\ asked[c] = j
    BY <1>2, <1>4, <2>1 DEF CallbacksOK, KeptByJobs, Due, HandedOut
  <2>8. KeptByJobs' /\ DoneWhenOver'
    BY <1>1, <1>2, <2>3, <2>6 DEF CallbacksOK, KeptByJobs, HandedOut, DoneWhenOver
  <2>9. \A c \in C : \A k \in Jobs : c \notin callbacks'[k]
    BY <1>2, <2>6, <2>7 DEF CallbacksOK, KeptByJobs
  <2>10. ASSUME NEW i \in Places \ {h} PROVE \A c \in FrameOf(i).calls : c \notin C
    BY <1>2, <2>1, <2>10 DEF CallbacksOK, KeptByCalls
  <2>11. KeptByCalls'
    <3> SUFFICES ASSUME NEW i \in Places, NEW c \in FrameOf(i)'.calls
                 PROVE  Due(c) /\ \A k \in Jobs : c \notin callbacks'[k]
      BY <1>5, <2>5 DEF KeptByCalls
    <3>1. CASE i = h
      BY <2>3, <2>5, <2>7, <2>9, <3>1
    <3>2. CASE i # h
      BY <1>2, <2>5, <2>6, <3>2 DEF CallbacksOK, KeptByCalls
    <3> QED BY <3>1, <3>2
  <2>12. KeptOnce'
    <3> SUFFICES ASSUME NEW i \in Places, NEW k \in Places, NEW c \in FrameOf(i)'.calls, c \in FrameOf(k)'.calls
                 PROVE  i = k
      BY <2>5 DEF KeptOnce
    <3> QED BY <1>2, <2>3, <2>5, <2>10 DEF CallbacksOK, KeptOnce
  <2> QED BY <1>6, <2>8, <2>11, <2>12 DEF CallbacksOK
<1> QED BY <1>7, <1>8

(* A function that runs is run by one call only, and not kept for another.   *)
LEMMA RunCallbackOK ==
    ASSUME CallbackInv, StackType', NEW t \in Threads, NEW c \in Callbacks, RunCallback(t, c)
    PROVE  CallbacksOK' /\ Due(c) /\ delivered' = [delivered EXCEPT ![c] = 1]
<1>1. /\ stack[t] # <<>> /\ c \in Top(t).calls
      /\ delivered' = [delivered EXCEPT ![c] = delivered[c] + 1]
      /\ UNCHANGED <<status, asked, callbacks, callbacksDone>>
  BY DEF RunCallback, stateVars
<1>2. DependencyInv /\ StackType /\ DataType /\ CallbacksOK
  BY CallbackTypes DEF CallbackInv, ExecutionInv
<1>3. Top(t) \in Frame
  BY <1>1, <1>2, CallFacts
<1>4. PICK h \in Places : FrameOf(h) = Top(t) /\ h = <<t, Len(stack[t])>>
  BY <1>1, <1>2, TopPlace
<1>5. Due(c) /\ \A j \in Jobs : c \notin callbacks[j]
  BY <1>1, <1>2, <1>4 DEF CallbacksOK, KeptByCalls
<1>6. delivered' = [delivered EXCEPT ![c] = 1]
  BY <1>1, <1>5 DEF Due, HandedOut
<1>7. /\ \A d \in Callbacks \ {c} : delivered'[d] = delivered[d]
      /\ delivered'[c] = 1
  BY <1>2, <1>6 DEF DataType
<1>8. KeepsCalls /\ h \in Places' => c \notin FrameOf(h)'.calls
  <2>1. CASE Top(t).op = "notify"
    <3>1. Return(t)
      BY <2>1 DEF RunCallback
    <3>2. PICK i : Leaving(t, i)
      BY <1>1, <1>2, <3>1, ReturnPlaces
    <3> QED BY <1>4, <3>2 DEF Leaving
  <2>2. CASE Top(t).op # "notify"
    <3>1. PICK f : f = [Top(t) EXCEPT !.calls = Top(t).calls \ {c}]
      OBVIOUS
    <3>2. Become(t, f) /\ f.calls = Top(t).calls \ {c}
      <4>1. Become(t, f)
        BY <2>2, <3>1 DEF RunCallback
      <4>2. f.calls = Top(t).calls \ {c}
        BY <1>3, <3>1 DEF Frame
      <4> QED BY <4>1, <4>2
    <3>3. PICK i : Turning(t, i, f)
      BY <1>1, <1>2, <3>2, TopsAreFrames, BecomePlaces
    <3> QED BY <1>4, <3>2, <3>3 DEF Turning
  <2> QED BY <2>1, <2>2
<1>9. KeepsCalls
  <2>1. CASE Top(t).op = "notify"
    <3>1. Return(t)
      BY <2>1 DEF RunCallback
    <3> QED BY <1>1, <1>2, <3>1, MovesKeepCalls DEF Moves
  <2>2. CASE Top(t).op # "notify"
    <3>1. PICK f : f = [Top(t) EXCEPT !.calls = Top(t).calls \ {c}]
      OBVIOUS
    <3>2. Become(t, f)
      BY <2>2, <3>1 DEF RunCallback
    <3>3. f.calls \subseteq Top(t).calls
      BY <1>3, <3>1 DEF Frame
    <3> QED BY <1>1, <1>2, <3>2, <3>3, MovesKeepCalls DEF Moves
  <2> QED BY <2>1, <2>2
<1>10. \A i \in Places' : c \notin FrameOf(i)'.calls
  <2> SUFFICES ASSUME NEW i \in Places', c \in FrameOf(i)'.calls PROVE FALSE
    OBVIOUS
  <2>1. i \in Places /\ c \in FrameOf(i).calls
    BY <1>9 DEF KeepsCalls
  <2>2. i = h
    BY <1>1, <1>2, <1>4, <2>1 DEF CallbacksOK, KeptOnce
  <2> QED BY <1>8, <1>9, <2>2
<1>11. KeptByJobs' /\ DoneWhenOver'
  <2>1. ASSUME NEW j \in Jobs, NEW d \in callbacks[j] PROVE HandedOut(d)' /\ asked[d] = j
    <3>1. d # c /\ d \in Callbacks
      BY <1>5, CallbackTypes DEF CallbackInv
    <3> QED BY <1>1, <1>2, <1>7, <3>1 DEF CallbacksOK, KeptByJobs, HandedOut
  <2> QED BY <1>1, <1>2, <2>1 DEF CallbacksOK, KeptByJobs, DoneWhenOver
<1>12. KeptByCalls'
  <2> SUFFICES ASSUME NEW i \in Places', NEW d \in FrameOf(i)'.calls
               PROVE  Due(d)' /\ \A j \in Jobs : d \notin callbacks[j]
    BY <1>1 DEF KeptByCalls
  <2>1. i \in Places /\ d \in FrameOf(i).calls /\ d # c
    BY <1>9, <1>10 DEF KeepsCalls
  <2>2. d \in Callbacks \ {c}
    BY <2>1, CallbackTypes DEF CallbackInv
  <2> QED BY <1>1, <1>2, <1>7, <2>1, <2>2 DEF CallbacksOK, KeptByCalls, Due, HandedOut
<1>13. KeptOnce'
  BY <1>2, <1>9 DEF CallbacksOK, KeptOnce, KeepsCalls
<1>14. RanOnce'
  BY <1>1, <1>2, <1>5, <1>7 DEF CallbacksOK, RanOnce, Due, HandedOut
<1> QED BY <1>5, <1>6, <1>11, <1>12, <1>13, <1>14 DEF CallbacksOK

(* A function that nobody has yet is left with the job, or run at once when  *)
(* the job is done with its functions.                                       *)
LEMMA OnCompleteOK ==
    ASSUME CallbackInv, StackType', NEW t \in Threads, NEW j \in Jobs, NEW c \in Callbacks, OnComplete(t, j, c)
    PROVE  CallbacksOK'
<1>1. /\ asked[c] = None /\ asked' = [asked EXCEPT ![c] = j]
      /\ UNCHANGED <<status, delivered, callbacksDone>>
  BY DEF OnComplete, stateVars
<1>2. DependencyInv /\ StackType /\ DataType /\ CallbacksOK /\ asked[c] \notin Jobs
  BY <1>1, CallbackTypes DEF CallbackInv, ExecutionInv, None, Jobs
<1>3. delivered'[c] = 0 /\ asked'[c] = j /\ \A d \in Callbacks \ {c} : asked'[d] = asked[d]
  BY <1>1, <1>2 DEF DataType, CallbacksOK, RanOnce
<1>4. /\ \A k \in Jobs : c \notin callbacks[k]
      /\ \A h \in Places : c \notin FrameOf(h).calls
  BY <1>2 DEF CallbacksOK, KeptByJobs, KeptByCalls, Due, HandedOut
<1>5. ASSUME NEW k \in Jobs, NEW d \in callbacks[k] PROVE HandedOut(d)' /\ asked'[d] = k
  <2>1. d \in Callbacks \ {c}
    BY <1>4, CallbackTypes DEF CallbackInv
  <2> QED BY <1>1, <1>2, <1>3, <2>1 DEF CallbacksOK, KeptByJobs, HandedOut
<1>6. ASSUME NEW h \in Places, NEW d \in FrameOf(h).calls
      PROVE  Due(d)' /\ d # c /\ \A k \in Jobs : d \notin callbacks[k]
  <2>1. d \in Callbacks \ {c}
    BY <1>4, CallbackTypes DEF CallbackInv
  <2> QED BY <1>1, <1>2, <1>3, <2>1 DEF CallbacksOK, KeptByCalls, Due, HandedOut
<1>7. DoneWhenOver' /\ RanOnce'
  BY <1>1, <1>2, <1>3 DEF CallbacksOK, RanOnce, DoneWhenOver
<1>8. CASE AnswersAtOnce(j)
  <2>1. PICK f : f = [Call("notify", "call", j) EXCEPT !.calls = {c}]
    OBVIOUS
  <2>2. Enter(t, f) /\ UNCHANGED callbacks /\ f.calls = {c} /\ IsTerminal(status[j])
    BY <1>2, <1>8, <2>1 DEF OnComplete, Call, AnswersAtOnce, CallbacksOK, DoneWhenOver
  <2>3. PICK a : Entering(t, a, f)
    BY <1>2, <2>2, TopsAreFrames, EnterPlaces
  <2>4. /\ a \notin Places /\ Places' = Places \cup {a} /\ FrameOf(a)' = f
        /\ \A h \in Places : FrameOf(h)' = FrameOf(h)
    BY <2>3 DEF Entering
  <2>5. KeptByJobs'
    BY <1>5, <2>2 DEF KeptByJobs
  <2>6. Due(c)'
    BY <1>1, <1>3, <2>2 DEF Due, HandedOut
  <2>7. KeptByCalls'
    <3> SUFFICES ASSUME NEW h \in Places', NEW d \in FrameOf(h)'.calls
                 PROVE  Due(d)' /\ \A k \in Jobs : d \notin callbacks[k]
      BY <2>2 DEF KeptByCalls
    <3>1. CASE h = a
      BY <1>4, <2>2, <2>4, <2>6, <3>1
    <3>2. CASE h # a
      BY <1>6, <2>4, <3>2
    <3> QED BY <3>1, <3>2
  <2>8. KeptOnce'
    <3> SUFFICES ASSUME NEW h \in Places', NEW i \in Places', NEW d \in FrameOf(h)'.calls, d \in FrameOf(i)'.calls
                 PROVE  h = i
      BY DEF KeptOnce
    <3>1. CASE h \in Places /\ i \in Places
      BY <1>2, <2>4, <3>1 DEF CallbacksOK, KeptOnce
    <3>2. CASE ~(h \in Places /\ i \in Places)
      BY <1>4, <2>2, <2>4, <3>2
    <3> QED BY <3>1, <3>2
  <2> QED BY <1>7, <2>5, <2>7, <2>8 DEF CallbacksOK
<1>9. CASE ~AnswersAtOnce(j)
  <2>1. callbacks' = [callbacks EXCEPT ![j] = callbacks[j] \cup {c}] /\ UNCHANGED stack
    BY <1>9 DEF OnComplete
  <2>2. /\ callbacks'[j] = callbacks[j] \cup {c} /\ \A k \in Jobs \ {j} : callbacks'[k] = callbacks[k]
        /\ Places' = Places /\ \A h : FrameOf(h)' = FrameOf(h)
    BY <1>2, <2>1 DEF DataType, Places, FrameOf
  <2>3. HandedOut(c)'
    BY <1>3 DEF HandedOut
  <2>4. KeptByJobs'
    BY <1>3, <1>5, <2>2, <2>3 DEF KeptByJobs
  <2>5. KeptByCalls'
    BY <1>6, <2>2 DEF KeptByCalls
  <2>6. KeptOnce'
    BY <1>2, <2>2 DEF CallbacksOK, KeptOnce
  <2> QED BY <1>7, <2>4, <2>5, <2>6 DEF CallbacksOK
<1> QED BY <1>8, <1>9

(* Every step keeps the invariant of completion functions.                   *)
LEMMA CallbackInvStep == ASSUME CallbackInv, [Next]_vars PROVE CallbackInv'
<1>1. ExecutionInv' /\ StaysOver
  BY ExecutionStep, OverForGood DEF CallbackInv
<1>2. StackType /\ StackType' /\ DependencyInv
  BY <1>1, CallbackTypes DEF CallbackInv, ExecutionInv, DependencyInv, TypeOK
<1>3. ASSUME UNCHANGED vars PROVE CallbacksOK'
  <2>1. UNCHANGED callVars /\ UNCHANGED stack
    BY <1>3 DEF vars
  <2>2. KeepsCalls
    <3>1. Places' = Places /\ \A h : FrameOf(h)' = FrameOf(h)
      BY <2>1 DEF Places, FrameOf
    <3> QED BY <3>1 DEF KeepsCalls
  <2> QED BY <1>1, <2>1, <2>2, CallbacksLeftAlone
<1>4. ASSUME NEW t \in Threads, Step(t) \/ Request(t) PROVE CallbacksOK'
  <2>1. CASE Serves(t)
    BY <1>2, <2>1, FinishCallbacksOK, RunCallbackOK, OnCompleteOK DEF Serves
  <2>2. CASE Moves(t) /\ UNCHANGED callVars
    BY <1>1, <1>2, <2>2, MovesKeepCalls, CallbacksLeftAlone
  <2> QED BY <1>2, <1>4, <2>1, <2>2, StepsMove
<1> QED BY <1>1, <1>3, <1>4 DEF Next, CallbackInv

(* It holds at the start.                                                    *)
LEMMA CallbackInvInit == ASSUME Init PROVE CallbackInv
<1>1. KeptByJobs /\ RanOnce /\ DoneWhenOver
  BY DEF Init, KeptByJobs, RanOnce, DoneWhenOver
<1>2. KeptByCalls /\ KeptOnce
  BY NoPlaces DEF KeptByCalls, KeptOnce
<1> QED BY <1>1, <1>2, ExecutionInit DEF CallbackInv, CallbacksOK

(* Each completion function has at most one keeper, its job or one call, and *)
(* a call has it only when the job is over.                                  *)
THEOREM CallbackInvariant == Spec => []CallbackInv
<1>1. Init => CallbackInv
  BY CallbackInvInit
<1>2. CallbackInv /\ [Next]_vars => CallbackInv'
  BY CallbackInvStep
<1> QED BY <1>1, <1>2, PTL DEF Spec

(* FinishJob, which swaps the list of completion functions out under the     *)
(* job's mutex and runs it without, and OnComplete, which runs a late one at *)
(* once, never run the same function twice and never one of a job that is    *)
(* not over, whatever is cancelled, closed or thrown meanwhile.              *)
THEOREM CallbacksRunOnce == Spec => [](\A c \in Callbacks :
    delivered[c] \in {0, 1} /\ (delivered[c] = 1 => asked[c] \in Jobs /\ IsTerminal(status[asked[c]])))
<1>1. CallbackInv => \A c \in Callbacks :
          delivered[c] \in {0, 1} /\ (delivered[c] = 1 => asked[c] \in Jobs /\ IsTerminal(status[asked[c]]))
  BY DEF CallbackInv, CallbacksOK, RanOnce
<1> QED BY <1>1, CallbackInvariant, PTL

-----------------------------------------------------------------------------
(* Every step of the scheduler is one of the contract or invisible to it. *)

(* What the contract sees of a job's state, and which jobs it sees as        *)
(* tolerant of failures.                                                     *)
Seen(j) == IF status[j] \in {"Waiting", "Queued"} THEN "Pending" ELSE status[j]
SeenStates == [j \in Jobs |-> Seen(j)]
Tolerant == {j \in Jobs : status[j] # "Unsubmitted" /\ ~RequiresSuccess(j)}

ImplementInv == ContractInv /\ CallbackInv

(* One job changes its state, and nothing else that the contract sees.       *)
LEMMA OneSeen ==
    ASSUME DataType, NEW j \in Jobs, NEW s \in Statuses, status' = [status EXCEPT ![j] = s],
           status[j] # "Unsubmitted", s # "Unsubmitted", UNCHANGED <<shape, deps, asked, delivered>>
    PROVE  /\ SeenStates' = [SeenStates EXCEPT ![j] = IF s \in {"Waiting", "Queued"} THEN "Pending" ELSE s]
           /\ Tolerant' = Tolerant /\ UNCHANGED <<deps, asked, delivered>>
<1>1. status'[j] = s /\ \A k \in Jobs \ {j} : status'[k] = status[k]
  BY DEF DataType
<1>2. Tolerant' = Tolerant
  BY <1>1 DEF Tolerant, RequiresSuccess
<1>3. SeenStates' = [SeenStates EXCEPT ![j] = IF s \in {"Waiting", "Queued"} THEN "Pending" ELSE s]
  BY <1>1 DEF SeenStates, Seen
<1> QED BY <1>2, <1>3

(* A job that a call carries to its start or end has all its dependencies    *)
(* over, and those of a job that was told of no failure have succeeded.      *)
LEMMA CarriedJob ==
    ASSUME ContractInv, Calm, NEW j \in Jobs, Ready(j, blockedBy)
    PROVE  /\ \A d \in deps[j] : d \in Jobs /\ IsTerminal(status[d])
           /\ RequiresSuccess(j) /\ depFailure[j] = None => \A d \in deps[j] : status[d] = "Succeeded"
<1>1. /\ DataType /\ JobsOK /\ FailuresOK /\ ReasonsOK
      /\ j \in registered \ MayRunOut /\ blockedBy[j] = {}
  BY InvParts, TypePart DEF ContractInv, FailureInv, ExecutionInv, Calm, Ready
<1>2. \A d \in deps[j] : d \in Jobs /\ IsTerminal(status[d])
  BY <1>1 DEF JobsOK, Attached, DataType
<1>3. ASSUME RequiresSuccess(j), depFailure[j] = None, NEW d \in deps[j], status[d] # "Succeeded" PROVE FALSE
  <2>1. Unhappy(status[d]) /\ failure[d] # None /\ IsTerminal(status[d])
    BY <1>1, <1>2, <1>3 DEF Unhappy, IsTerminal, ReasonsOK
  <2>2. Noted(j, {})
    BY <1>1 DEF FailuresOK
  <2> QED BY <1>1, <1>3, <2>1, <2>2 DEF Noted
<1> QED BY <1>2, <1>3

(* Submit.                                                                   *)
LEMMA SubmitSeen ==
    ASSUME ImplementInv, ImplementInv', NEW t \in Threads, NEW sh, SubmitBegin(t, sh)
    PROVE  \E j \in Jobs : Contract!Submit(j)
<1>1. /\ DataType /\ JobsOK /\ StatesOK /\ FailuresOK' /\ DataType'
  BY InvParts, TypePart, CallFacts DEF ImplementInv, ContractInv, FailureInv, ExecutionInv, DependencyInv, TypeOK
<1>2. PICK j \in Jobs : j = next /\ next' = j + 1 /\ j \notin Known /\ Known = 1..(j - 1)
  <2>1. next \in Jobs /\ next' = next + 1
    BY <1>1, JobSystemAssumption DEF SubmitBegin, DataType, Jobs
  <2>2. PICK j \in Jobs : j = next
    BY <2>1
  <2>3. Known = 1..(j - 1)
    BY <2>2, JobSystemAssumption DEF Known, Jobs
  <2>4. j \notin Known
    BY <2>2, <2>3 DEF Jobs
  <2> QED BY <2>1, <2>2, <2>3, <2>4
<1>3. /\ shape' = [shape EXCEPT ![j] = sh] /\ status' = [status EXCEPT ![j] = "Waiting"]
      /\ UNCHANGED <<asked, delivered>>
      /\ \E D : deps' = [deps EXCEPT ![j] = D]
  BY <1>2 DEF SubmitBegin, callVars
<1>4. PICK D : deps' = [deps EXCEPT ![j] = D]
  BY <1>3
<1>5. D \subseteq 1..(j - 1) /\ D \subseteq Jobs
  BY <1>1, <1>4 DEF FailuresOK, DataType
<1>6. /\ status'[j] = "Waiting" /\ status[j] = "Unsubmitted"
      /\ \A k \in Jobs \ {j} : status'[k] = status[k] /\ shape'[k] = shape[k]
  BY <1>1, <1>2, <1>3 DEF DataType, JobsOK
<1>7. D \subseteq {d \in Jobs : SeenStates[d] # "Unsubmitted"}
  BY <1>1, <1>2, <1>5 DEF StatesOK, SeenStates, Seen
<1>8. SeenStates' = [SeenStates EXCEPT ![j] = "Pending"] /\ SeenStates[j] = "Unsubmitted"
  BY <1>6 DEF SeenStates, Seen
<1>9. Tolerant' \in {Tolerant, Tolerant \cup {j}}
  <2>1. \A k \in Jobs \ {j} : k \in Tolerant' <=> k \in Tolerant
    BY <1>6 DEF Tolerant, RequiresSuccess
  <2>2. j \notin Tolerant
    BY <1>6 DEF Tolerant
  <2>3. Tolerant \subseteq Jobs /\ Tolerant' \subseteq Jobs
    BY DEF Tolerant
  <2>4. CASE j \in Tolerant'
    <3>1. Tolerant' = Tolerant \cup {j}
      BY <2>1, <2>3, <2>4
    <3> QED BY <3>1
  <2>5. CASE j \notin Tolerant'
    <3>1. Tolerant' = Tolerant
      BY <2>1, <2>2, <2>3, <2>5
    <3> QED BY <3>1
  <2> QED BY <2>4, <2>5
<1> QED BY <1>3, <1>4, <1>7, <1>8, <1>9 DEF Contract!Submit, Contract!Known, SeenStates, Seen, Tolerant

(* Execute starts a job that the contract may start.                         *)
LEMMA StartSeen ==
    ASSUME ImplementInv, Calm, NEW t \in Threads, ExecuteBegin(t)
    PROVE  UNCHANGED status \/ \E j \in Jobs : Contract!Start(j)
<1>1. /\ stack[t] # <<>> /\ Top(t).op = "execute" /\ Top(t).at = "begin"
      /\ UNCHANGED <<shape, deps, asked, delivered>>
  BY DEF ExecuteBegin, At, jobVars, callVars
<1>2. Carries(Top(t)) /\ ContractInv /\ DataType /\ BlameOK(Top(t)) /\ CallOK(Top(t))
  BY <1>1, TopCalm DEF Carries, ImplementInv
<1>3. PICK j \in Jobs : j = Top(t).job
  BY <1>1, <1>2, TopCalm
<1>4. Ready(j, blockedBy) /\ MayStart(j) /\ QueuedOrOver(j)
  BY <1>1, <1>2, <1>3, TopCalm DEF BlameOK, CallOK
<1>5. CASE IsTerminal(status[j])
  BY <1>3, <1>5 DEF ExecuteBegin
<1>6. CASE ~IsTerminal(status[j])
  <2>1. status[j] = "Queued" /\ status' = [status EXCEPT ![j] = "Running"]
    BY <1>3, <1>4, <1>6 DEF ExecuteBegin, QueuedOrOver
  <2>2. /\ SeenStates' = [SeenStates EXCEPT ![j] = "Running"]
        /\ Tolerant' = Tolerant /\ UNCHANGED <<deps, asked, delivered>>
    BY <1>1, <1>2, <2>1, OneSeen DEF Statuses
  <2>3. SeenStates[j] = "Pending"
    BY <2>1 DEF SeenStates, Seen
  <2>4. \A d \in deps[j] : IF j \in Tolerant THEN SeenStates[d] \in {"Succeeded", "Failed", "Cancelled"}
                                             ELSE SeenStates[d] = "Succeeded"
    <3>1. /\ \A d \in deps[j] : d \in Jobs /\ IsTerminal(status[d])
          /\ RequiresSuccess(j) => \A d \in deps[j] : status[d] = "Succeeded"
      BY <1>2, <1>4, CarriedJob DEF MayStart
    <3>2. j \notin Tolerant => RequiresSuccess(j)
      BY <2>1 DEF Tolerant
    <3> QED BY <3>1, <3>2 DEF SeenStates, Seen, IsTerminal
  <2> QED BY <2>2, <2>3, <2>4 DEF Contract!Start, Contract!Over, SeenStates, Seen, Tolerant
<1> QED BY <1>5, <1>6

(* FinishJob finishes a job that ran, or skips one that its dependencies     *)
(* stopped.                                                                  *)
LEMMA FinishSeen ==
    ASSUME ImplementInv, Calm, NEW t \in Threads, FinishClaim(t)
    PROVE  UNCHANGED status \/ \E j \in Jobs : Contract!Finish(j) \/ Contract!Skip(j)
<1>1. /\ stack[t] # <<>> /\ Top(t).op = "finish" /\ Claims(Top(t))
      /\ UNCHANGED <<shape, deps, asked, delivered>>
  BY DEF FinishClaim, At, Claims, jobVars, callVars
<1>2. Carries(Top(t)) /\ ContractInv /\ DataType /\ EndOK(Top(t)) /\ FrameOK(t, Top(t)) /\ ReasonsOK
  BY <1>1, TopCalm DEF Carries, ImplementInv, Calm, Stopped, ScopeStops, ContractInv
<1>3. PICK j \in Jobs : j = Top(t).job /\ Ready(j, blockedBy)
  BY <1>1, <1>2, TopCalm
<1>4. PICK s \in {"Succeeded", "Failed", "Cancelled"} : s = Top(t).status
  BY <1>1, <1>2 DEF FrameOK, IsTerminal
<1>5. CASE IsTerminal(status[j])
  BY <1>3, <1>5 DEF FinishClaim, stateVars
<1>6. CASE ~IsTerminal(status[j])
  <2>1. status' = [status EXCEPT ![j] = s]
    BY <1>3, <1>4, <1>6 DEF FinishClaim
  <2>2. IF s = "Cancelled" THEN RequiresSuccess(j) /\ depFailure[j] # None /\ status[j] = "Waiting"
                           ELSE status[j] = "Running"
    BY <1>1, <1>2, <1>3, <1>4 DEF EndOK
  <2>3. /\ SeenStates' = [SeenStates EXCEPT ![j] = s]
        /\ Tolerant' = Tolerant /\ UNCHANGED <<deps, asked, delivered>>
    BY <1>1, <1>2, <2>1, <2>2, OneSeen DEF Statuses
  <2>4. CASE s # "Cancelled"
    <3>1. SeenStates[j] = "Running"
      BY <2>2, <2>4 DEF SeenStates, Seen
    <3> QED BY <1>4, <2>3, <2>4, <3>1 DEF Contract!Finish, SeenStates, Seen, Tolerant
  <2>5. CASE s = "Cancelled"
    <3>1. SeenStates[j] = "Pending" /\ j \notin Tolerant
      BY <2>2, <2>5 DEF SeenStates, Seen, Tolerant
    <3>2. \A d \in deps[j] : d \in Jobs /\ IsTerminal(status[d])
      BY <1>2, <1>3, CarriedJob
    <3>3. PICK d \in deps[j] : Unhappy(status[d])
      BY <1>2, <2>2, <2>5 DEF ReasonsOK
    <3>4. \A k \in deps[j] : SeenStates[k] \in {"Succeeded", "Failed", "Cancelled"}
      BY <3>2 DEF SeenStates, Seen, IsTerminal
    <3>5. SeenStates[d] # "Succeeded"
      BY <3>2, <3>3 DEF SeenStates, Seen, Unhappy
    <3> QED BY <2>3, <2>5, <3>1, <3>3, <3>4, <3>5 DEF Contract!Skip, Contract!Over, SeenStates, Seen, Tolerant
  <2> QED BY <2>4, <2>5
<1> QED BY <1>5, <1>6

(* A job that waits and one that is queued are the same to the contract.     *)
LEMMA EnqueueSeen ==
    ASSUME ImplementInv, NEW t \in Threads, EnqueueClaim(t)
    PROVE  UNCHANGED <<SeenStates, Tolerant, deps, asked, delivered>>
<1>1. UNCHANGED <<shape, deps, asked, delivered>> /\ stack[t] # <<>> /\ Top(t).op = "enqueue"
  BY DEF EnqueueClaim, At, jobVars, callVars
<1>2. PICK j \in Jobs : j = Top(t).job
  BY <1>1, TopCalm DEF ImplementInv, Carries
<1>3. DataType
  BY <1>1, TopCalm DEF ImplementInv
<1>4. CASE UNCHANGED status
  BY <1>1, <1>4 DEF SeenStates, Seen, Tolerant, RequiresSuccess
<1>5. CASE status[j] = "Waiting" /\ status' = [status EXCEPT ![j] = "Queued"]
  <2>1. /\ SeenStates' = [SeenStates EXCEPT ![j] = "Pending"]
        /\ Tolerant' = Tolerant /\ UNCHANGED <<deps, asked, delivered>>
    BY <1>1, <1>3, <1>5, OneSeen DEF Statuses
  <2>2. SeenStates[j] = "Pending"
    BY <1>5 DEF SeenStates, Seen
  <2>3. SeenStates' = SeenStates
    BY <2>1, <2>2 DEF SeenStates
  <2> QED BY <2>1, <2>3
<1> QED BY <1>2, <1>4, <1>5 DEF EnqueueClaim

(* OnComplete and the run of a completion function.                          *)
LEMMA AskSeen ==
    ASSUME ImplementInv, NEW t \in Threads, NEW j \in Jobs, NEW c \in Callbacks, OnComplete(t, j, c)
    PROVE  Contract!Ask(c, j)
<1>1. /\ asked[c] = None /\ asked' = [asked EXCEPT ![c] = j] /\ status[j] # "Unsubmitted"
      /\ UNCHANGED <<status, shape, deps, delivered>>
  BY DEF OnComplete, HasHandle, stateVars, jobVars
<1>2. UNCHANGED <<SeenStates, Tolerant, deps, delivered>> /\ SeenStates[j] # "Unsubmitted"
  BY <1>1 DEF SeenStates, Seen, Tolerant, RequiresSuccess
<1> QED BY <1>1, <1>2 DEF Contract!Ask, Contract!Known, SeenStates, Seen, Tolerant

(* A completion function that runs is the contract's answer.                 *)
LEMMA TellSeen ==
    ASSUME ImplementInv, StackType', NEW t \in Threads, NEW c \in Callbacks, RunCallback(t, c)
    PROVE  Contract!Tell(c)
<1>1. UNCHANGED <<status, shape, deps, asked>>
  BY DEF RunCallback, stateVars, jobVars
<1>2. Due(c) /\ delivered' = [delivered EXCEPT ![c] = 1]
  BY RunCallbackOK DEF ImplementInv
<1>3. UNCHANGED <<SeenStates, Tolerant, deps, asked>>
  BY <1>1 DEF SeenStates, Seen, Tolerant, RequiresSuccess
<1>4. asked[c] # None /\ delivered[c] = 0 /\ SeenStates[asked[c]] \in {"Succeeded", "Failed", "Cancelled"}
  BY <1>2 DEF Due, HandedOut, None, Jobs, SeenStates, Seen, IsTerminal
<1> QED BY <1>2, <1>3, <1>4 DEF Contract!Tell, Contract!Over, SeenStates, Seen, Tolerant

(* What the contract sees of a state.                                        *)
Sight == <<SeenStates, deps, Tolerant, asked, delivered>>

(* Steps that change nothing the contract sees.                              *)
LEMMA Unseen ==
    ASSUME UNCHANGED <<status, shape, deps, asked, delivered>> PROVE UNCHANGED Sight
  BY DEF Sight, SeenStates, Seen, Tolerant, RequiresSuccess

(* Every step of the scheduler is one of the contract or none.               *)
LEMMA ContractStep ==
    ASSUME ImplementInv, ImplementInv', Calm, [Next]_vars
    PROVE  Contract!Next \/ UNCHANGED Sight
<1>1. StackType' /\ ExecutionInv
  BY CallbackTypes DEF ImplementInv, CallbackInv, ExecutionInv, DependencyInv, TypeOK
<1>2. ~Ends
  BY DEF Ends, EndsAt, Calm
<1>3. ASSUME NEW t \in Threads, Submits(t) PROVE Contract!Next \/ UNCHANGED Sight
  <2>1. ASSUME NEW sh, SubmitBegin(t, sh) PROVE Contract!Next
    BY <2>1, SubmitSeen DEF Contract!Next
  <2>2. CASE RegisterDone(t) \/ RegisterThrows(t) \/ \E d \in Jobs : RegisterDependency(t, d)
    <3>1. UNCHANGED <<status, shape, deps, asked, delivered>>
      BY <2>2 DEF RegisterDone, RegisterThrows, RegisterDependency, stateVars, jobVars, callVars
    <3> QED BY <3>1, Unseen
  <2> QED BY <1>3, <2>1, <2>2 DEF Submits
<1>4. ASSUME NEW t \in Threads, Finishes(t) PROVE Contract!Next \/ UNCHANGED Sight
  <2>1. UNCHANGED <<shape, deps, asked, delivered>>
    BY <1>4 DEF Finishes, FinishClaim, FinishSettle, FinishRelease, jobVars, callVars
  <2>2. CASE FinishClaim(t)
    <3>1. UNCHANGED status \/ \E j \in Jobs : Contract!Finish(j) \/ Contract!Skip(j)
      BY <2>2, FinishSeen
    <3> QED BY <2>1, <3>1, Unseen DEF Contract!Next
  <2>3. CASE FinishSettle(t) \/ \E d \in Jobs : FinishRelease(t, d)
    <3>1. UNCHANGED status
      BY <2>3 DEF FinishSettle, FinishRelease, stateVars
    <3> QED BY <2>1, <3>1, Unseen
  <2> QED BY <1>4, <2>2, <2>3 DEF Finishes
<1>5. ASSUME NEW t \in Threads, Executions(t) PROVE Contract!Next \/ UNCHANGED Sight
  <2>1. CASE EnqueueClaim(t)
    BY <2>1, EnqueueSeen DEF Sight
  <2>2. CASE ExecuteBegin(t)
    <3>1. UNCHANGED status \/ \E j \in Jobs : Contract!Start(j)
      BY <2>2, StartSeen
    <3>2. UNCHANGED <<shape, deps, asked, delivered>>
      BY <2>2 DEF ExecuteBegin, jobVars, callVars
    <3> QED BY <3>1, <3>2, Unseen DEF Contract!Next
  <2>3. CASE \/ EnqueuePublish(t) \/ Take(t) \/ Helps(t) \/ ExecuteCall(t) \/ BodyReturns(t) \/ BodyThrows(t)
    <3>1. UNCHANGED <<status, shape, deps, asked, delivered>>
      BY <2>3 DEF EnqueuePublish, Take, Helps, WaitCheck, ExecuteCall, BodyReturns, BodyThrows, OnlyStackChanges,
                  stateVars, jobVars, callVars
    <3> QED BY <3>1, Unseen
  <2> QED BY <1>5, <2>1, <2>2, <2>3 DEF Executions
<1>6. ASSUME Quiet PROVE Contract!Next \/ UNCHANGED Sight
  <2>1. UNCHANGED <<status, shape, deps>>
    BY <1>6 DEF Quiet, QuietData, stateVars, jobVars
  <2>2. CASE UNCHANGED vars
    BY <2>1, <2>2, Unseen DEF vars, callVars
  <2>3. ASSUME NEW t \in Threads, Step(t) \/ Request(t) PROVE Contract!Next \/ UNCHANGED Sight
    <3>1. CASE UNCHANGED callVars \/ FinishCallbacks(t)
      <4>1. UNCHANGED <<asked, delivered>>
        BY <3>1 DEF callVars, FinishCallbacks
      <4> QED BY <2>1, <4>1, Unseen
    <3>2. ASSUME NEW c \in Callbacks, RunCallback(t, c) \/ \E j \in Jobs : OnComplete(t, j, c)
          PROVE  Contract!Next
      BY <1>1, <3>2, TellSeen, AskSeen DEF Contract!Next
    <3> QED BY <1>1, <2>3, <3>1, <3>2, StepsMove DEF Serves, ExecutionInv
  <2> QED BY <2>2, <2>3 DEF Next
<1> QED BY <1>1, <1>2, <1>3, <1>4, <1>5, <1>6, StepKinds

(* The scheduler keeps JobContract, whatever the threads, shapes, exceptions *)
(* and interleavings, in every behaviour in which nobody cancels a job or    *)
(* the scope or closes the system and no registration runs out of memory.    *)
THEOREM SchedulerKeepsContract == Spec /\ []Calm => Contract!Spec
<1>1. Init => ImplementInv /\ Contract!Init
  <2> SUFFICES ASSUME Init PROVE ImplementInv /\ Contract!Init
    OBVIOUS
  <2>1. ImplementInv
    BY ContractInvInit, CallbackInvInit DEF ImplementInv
  <2> QED BY <2>1 DEF Init, Contract!Init
<1>2. ImplementInv /\ Calm /\ [Next]_vars => ImplementInv'
  BY ContractInvStep, CallbackInvStep DEF ImplementInv
<1>3. ImplementInv /\ ImplementInv' /\ Calm /\ [Next]_vars => [Contract!Next]_(Contract!vars)
  <2> SUFFICES ASSUME ImplementInv, ImplementInv', Calm, [Next]_vars, ~Contract!Next
               PROVE  UNCHANGED Contract!vars
    OBVIOUS
  <2>1. UNCHANGED Sight
    BY ContractStep
  <2> QED BY <2>1 DEF Sight, Contract!vars, SeenStates, Seen, Tolerant
<1> QED BY <1>1, <1>2, <1>3, PTL DEF Spec, Contract!Spec
=============================================================================
