--------------------------- MODULE WorkflowProofs ---------------------------
(***************************************************************************)
(* Theorems about TaskWorkflow, for every set of callers, every valid      *)
(* workflow and every number of tasks:                                     *)
(*                                                                         *)
(*   MergedTrees    what lands was rebased on and checked against what the *)
(*                  target branch is at that moment;                       *)
(*   LoopsEnd       no step of a loop gets more iterations than its        *)
(*                  definition allows;                                     *)
(*   DepsBeforeStart  where loops are of failures and the user's calls     *)
(*                  wait for one another (Orderly), an agent starts on a   *)
(*                  task only when what the task depends on was Done.      *)
(*   Settled        where, besides, users move only what is up for review  *)
(*                  (Reviewing), an instance whose tasks are all terminal  *)
(*                  is settled once no call is under way;                  *)
(*   NothingForgotten  and, where nothing is deleted and steps are         *)
(*                  declared after what they depend on, a task that waits  *)
(*                  waits for something that can still come.               *)
(*                                                                         *)
(* The first rests on CallsInv: a merge that is under way holds the lock   *)
(* and is at one of the stages of MergeStages, and none of these stages    *)
(* is reached by another call.  The second adds Kinds (what a task was     *)
(* created as stays, and links name tasks that were) and LoopCalls: the    *)
(* number a call has fixed for an iteration it has yet to create is one    *)
(* its gate's loop allows, whatever other calls do in between.  The third  *)
(* rests on OrderInv: what each call has read, has stored and has left to  *)
(* do agrees with the tables, and a row that is Ready has all its          *)
(* dependencies Done.  The last two add Tidy (the columns of a row agree,  *)
(* and what a call has read still holds of the task it is about), Owed     *)
(* (when the last task is terminal, some call has yet to look at the       *)
(* instance) and Unblocking (when the last dependency is Done, some call   *)
(* has yet to look at what is Blocked).                                    *)
(***************************************************************************)
EXTENDS TaskWorkflow, SequenceTheorems, FiniteSetTheorems, WellFoundedInduction, TLAPS

(* What merge_queue_execute has left to do, and what any other handler has.*)
MergeStages == {<<"rebase">>, <<"land">>, <<"landed">>,
                <<"prune", "refresh", "complete", "merged">>,
                <<"refresh", "complete", "merged">>, <<"apply", "complete", "merged">>,
                <<"complete", "merged">>, <<"merged">>}
Other == {"refresh", "apply", "loop", "mark", "complete", "cleanup", "store", "erase",
          "verdict", "end", "iterate"}

(* A call's record.                                                        *)
IsCall(k) == k = [op |-> k.op, task |-> k.task, seen |-> k.seen, todo |-> k.todo,
                  writes |-> k.writes, next |-> k.next, iter |-> k.iter]

Shaped == call = [c \in Caller |-> call[c]] /\ \A c \in Caller : IsCall(call[c])

(* A merge holds the lock; from its rebase to its landing nothing lands.   *)
CallsOK == \A c \in Caller :
    IF call[c].op = "merge"
    THEN /\ lock = c /\ call[c].todo \in MergeStages
         /\ call[c].todo = <<"land">> => call[c].task \in fresh
    ELSE call[c].todo \in Seq(Other)

(* What a record of that shape is, and when a function is one.             *)
Fields == {"op", "task", "seen", "todo", "writes", "next", "iter"}

LEMMA IsFields ==
    ASSUME NEW r, IsCall(r)
    PROVE  DOMAIN r = Fields
BY DEF IsCall, Fields

LEMMA FieldsAre ==
    ASSUME NEW k, DOMAIN k = Fields, k = [x \in DOMAIN k |-> k[x]]
    PROVE  IsCall(k)
BY DEF IsCall, Fields

(* The stage at its head says which of these sequences it is.              *)
LEMMA MergeHeads ==
    ASSUME NEW q \in MergeStages
    PROVE  /\ Head(q) = "rebase" => q = <<"rebase">>
           /\ Head(q) = "land" => q = <<"land">>
           /\ Head(q) = "landed" => q = <<"landed">>
           /\ Head(q) = "prune" => q = <<"prune", "refresh", "complete", "merged">>
           /\ Head(q) = "refresh" => q = <<"refresh", "complete", "merged">>
           /\ Head(q) = "apply" => q = <<"apply", "complete", "merged">>
           /\ Head(q) = "complete" => q = <<"complete", "merged">>
           /\ Head(q) = "merged" => q = <<"merged">>
           /\ Head(q) \notin {"loop", "mark", "cleanup", "store", "erase", "verdict", "end", "iterate"}
           /\ q # <<>>
BY DEF MergeStages

LEMMA MergeTails ==
    /\ Tail(<<"prune", "refresh", "complete", "merged">>) = <<"refresh", "complete", "merged">>
    /\ Tail(<<"refresh", "complete", "merged">>) = <<"complete", "merged">>
    /\ Tail(<<"apply", "complete", "merged">>) = <<"complete", "merged">>
    /\ Tail(<<"complete", "merged">>) = <<"merged">>
    /\ <<"apply">> \o <<"complete", "merged">> = <<"apply", "complete", "merged">>
<1>1. <<"apply">> \o <<"complete", "merged">> = <<"apply", "complete", "merged">>
  <2> DEFINE S == {"apply", "complete", "merged"}
             p == <<"apply">>  q == <<"complete", "merged">>  r == <<"apply", "complete", "merged">>
  <2>1. /\ p \in Seq(S) /\ q \in Seq(S) /\ r \in Seq(S)
        /\ Len(p) = 1 /\ Len(q) = 2 /\ Len(r) = 3
    BY DEF S
  <2>2. /\ Len(p \o q) = 3 /\ p \o q \in Seq(S)
        /\ \A i \in 1 .. 3 : (p \o q)[i] = IF i <= 1 THEN p[i] ELSE q[i - 1]
    <3>1. /\ Len(p \o q) = Len(p) + Len(q) /\ p \o q \in Seq(S)
          /\ \A i \in 1 .. Len(p) + Len(q) :
                (p \o q)[i] = IF i <= Len(p) THEN p[i] ELSE q[i - Len(p)]
      <4> HIDE DEF p, q, S
      <4> QED BY <2>1, ConcatProperties
    <3>2. Len(p) = 1 /\ Len(q) = 2
      BY <2>1
    <3> HIDE DEF p, q, S
    <3> QED BY <3>1, <3>2
  <2>3. \A i \in 1 .. 3 : (p \o q)[i] = r[i]
    BY <2>2
  <2> HIDE DEF p, q, r, S
  <2>4. p \o q = r
    BY <2>1, <2>2, <2>3, SeqEqual
  <2> QED BY <2>4 DEF p, q, r
<1> QED BY <1>1

LEMMA MergeAdvance ==
    ASSUME NEW q \in MergeStages, Head(q) \in {"prune", "refresh", "apply", "complete"}
    PROVE  Tail(q) \in MergeStages /\ Tail(q) # <<"land">>
<1>1. CASE Head(q) = "prune"
  <2>1. q = <<"prune", "refresh", "complete", "merged">>
    BY <1>1, MergeHeads
  <2>2. Tail(q) = <<"refresh", "complete", "merged">>
    BY <2>1, MergeTails
  <2> QED BY <2>2 DEF MergeStages
<1>2. CASE Head(q) = "refresh"
  <2>1. q = <<"refresh", "complete", "merged">>
    BY <1>2, MergeHeads
  <2>2. Tail(q) = <<"complete", "merged">>
    BY <2>1, MergeTails
  <2> QED BY <2>2 DEF MergeStages
<1>3. CASE Head(q) = "apply"
  <2>1. q = <<"apply", "complete", "merged">>
    BY <1>3, MergeHeads
  <2>2. Tail(q) = <<"complete", "merged">>
    BY <2>1, MergeTails
  <2> QED BY <2>2 DEF MergeStages
<1>4. CASE Head(q) = "complete"
  <2>1. q = <<"complete", "merged">>
    BY <1>4, MergeHeads
  <2>2. Tail(q) = <<"merged">>
    BY <2>1, MergeTails
  <2> QED BY <2>2 DEF MergeStages
<1> QED BY <1>1, <1>2, <1>3, <1>4

LEMMA OtherQueues ==
    ASSUME NEW q \in Seq(Other), q # <<>>
    PROVE  /\ Tail(q) \in Seq(Other) /\ Head(q) \in Other
           /\ \A p \in Seq(Other) : p \o Tail(q) \in Seq(Other)
OBVIOUS

(* What a call that goes on may become.                                    *)
Sound(c, k) ==
    /\ IsCall(k)
    /\ IF k.op = "merge"
       THEN /\ lock' = c /\ k.todo \in MergeStages
            /\ k.todo = <<"land">> => k.task \in fresh'
       ELSE k.todo \in Seq(Other)

(* The call that moved is sound, and the others keep what they had.        *)
LEMMA Onward ==
    ASSUME Shaped, CallsOK, NEW c \in Caller, NEW k, Sound(c, k),
           call' = [call EXCEPT ![c] = k],
           \A d \in Caller \ {c} : call[d].op = "merge" =>
                 lock' = d /\ (call[d].task \in fresh => call[d].task \in fresh')
    PROVE  Shaped' /\ CallsOK'
<1>1. call'[c] = k /\ \A d \in Caller \ {c} : call'[d] = call[d]
  BY DEF Shaped
<1>2. call' = [d \in Caller |-> call'[d]]
  BY <1>1 DEF Shaped
<1>3. ASSUME NEW d \in Caller
      PROVE  IsCall(call'[d])
  <2>1. CASE d = c
    BY <1>1, <2>1 DEF Sound
  <2>2. CASE d # c
    BY <1>1, <2>2 DEF Shaped
  <2> QED BY <2>1, <2>2
<1>4. ASSUME NEW d \in Caller
      PROVE  IF call'[d].op = "merge"
             THEN /\ lock' = d /\ call'[d].todo \in MergeStages
                  /\ call'[d].todo = <<"land">> => call'[d].task \in fresh'
             ELSE call'[d].todo \in Seq(Other)
  <2>1. CASE d = c
    BY <1>1, <2>1 DEF Sound
  <2>2. CASE d # c
    BY <1>1, <2>2 DEF CallsOK
  <2> QED BY <2>1, <2>2
<1> QED BY <1>2, <1>3, <1>4 DEF Shaped, CallsOK

LEMMA IdleSound ==
    ASSUME NEW c PROVE Sound(c, Idle)
BY DEF Sound, Idle, IsCall

LEMMA GoesSound ==
    ASSUME NEW c, NEW k, Sound(c, k) PROVE Sound(c, Goes(k))
<1>1. CASE k.todo = <<>> /\ k.next = None
  BY <1>1, IdleSound DEF Goes
<1>2. CASE ~(k.todo = <<>> /\ k.next = None)
  BY <1>2 DEF Goes
<1> QED BY <1>1, <1>2

(* The stage a call is at says what it is.                                 *)
LEMMA Stages ==
    ASSUME CallsOK, NEW c \in Caller, NEW s, Stage(c, s)
    PROVE  /\ call[c].op # "merge" =>
                 /\ call[c].todo \in Seq(Other) /\ call[c].todo # <<>> /\ s \in Other
                 /\ Tail(call[c].todo) \in Seq(Other)
                 /\ \A p \in Seq(Other) : p \o Tail(call[c].todo) \in Seq(Other)
           /\ call[c].op = "merge" =>
                 /\ lock = c /\ call[c].todo \in MergeStages /\ Head(call[c].todo) = s
<1>1. call[c].todo # <<>> /\ Head(call[c].todo) = s
  BY DEF Stage
<1>2. ASSUME call[c].op # "merge"
      PROVE  /\ call[c].todo \in Seq(Other) /\ call[c].todo # <<>> /\ s \in Other
             /\ Tail(call[c].todo) \in Seq(Other)
             /\ \A p \in Seq(Other) : p \o Tail(call[c].todo) \in Seq(Other)
  <2>1. call[c].todo \in Seq(Other)
    BY <1>2 DEF CallsOK
  <2> QED BY <1>1, <2>1, OtherQueues
<1> QED BY <1>1, <1>2 DEF CallsOK

LEMMA MergeStage ==
    ASSUME CallsOK, NEW c \in Caller, NEW s \in {"rebase", "land", "landed", "prune", "merged"},
           Stage(c, s)
    PROVE  call[c].op = "merge"
BY Stages DEF Other

(* A call that keeps to its own list of stages.                            *)
LEMMA Continues ==
    ASSUME Shaped, CallsOK, NEW c \in Caller, NEW todo, Continue(c, todo),
           UNCHANGED <<lock, fresh>>,
           IF call[c].op = "merge" THEN lock = c /\ todo \in MergeStages /\ todo # <<"land">>
           ELSE todo \in Seq(Other)
    PROVE  Shaped' /\ CallsOK'
<1> DEFINE k == [call[c] EXCEPT !.todo = todo]
<1>1. IsCall(k) /\ k.op = call[c].op /\ k.todo = todo
  <2>1. DOMAIN call[c] = Fields
    BY IsFields DEF Shaped
  <2>2. DOMAIN k = Fields /\ k = [x \in DOMAIN k |-> k[x]]
    BY <2>1
  <2>3. k.op = call[c].op /\ k.todo = todo
    BY <2>1 DEF Fields
  <2> HIDE DEF k
  <2> QED BY <2>2, <2>3, FieldsAre
<1>4. Sound(c, k)
  <2> HIDE DEF k
  <2> QED BY <1>1 DEF Sound
<1>2. Sound(c, Goes(k))
  <2> HIDE DEF k
  <2> QED BY <1>4, GoesSound
<1>3. call' = [call EXCEPT ![c] = Goes(k)]
  BY DEF Continue, Shaped
<1>5. \A d \in Caller \ {c} : call[d].op = "merge" =>
                 lock' = d /\ (call[d].task \in fresh => call[d].task \in fresh')
  BY DEF CallsOK
<1> HIDE DEF k
<1> QED BY <1>2, <1>3, <1>5, Onward

LEMMA Advances ==
    ASSUME Shaped, CallsOK, NEW c \in Caller, Stage(c, Head(call[c].todo)),
           Head(call[c].todo) \in Other \cup {"prune"}, UNCHANGED <<lock, fresh>>, Advance(c)
    PROVE  Shaped' /\ CallsOK'
<1>1. CASE call[c].op # "merge"
  BY <1>1, Stages, Continues DEF Advance
<1>2. CASE call[c].op = "merge"
  <2>1. lock = c /\ call[c].todo \in MergeStages
    BY <1>2 DEF CallsOK
  <2>2. Tail(call[c].todo) \in MergeStages /\ Tail(call[c].todo) # <<"land">>
    <3>1. Head(call[c].todo) \in {"prune", "refresh", "apply", "complete"}
      BY <2>1, MergeHeads DEF Other
    <3> QED BY <2>1, <3>1, MergeAdvance
  <2> QED BY <1>2, <2>1, <2>2, Continues DEF Advance
<1> QED BY <1>1, <1>2

(* A merge call returns, and gives the lock back.                          *)
LEMMA GivesUp ==
    ASSUME Shaped, CallsOK, NEW c \in Caller, call[c].op = "merge", GiveUp(c)
    PROVE  Shaped' /\ CallsOK'
<1>1. \A d \in Caller \ {c} : call[d].op # "merge"
  BY DEF CallsOK
<1>2. call' = [call EXCEPT ![c] = Idle]
  BY DEF GiveUp, Return
<1> QED BY <1>1, <1>2, IdleSound, Onward

LEMMA Begins ==
    ASSUME Shaped, CallsOK, NEW c \in Caller, NEW o, NEW t, NEW todo, Begin(c, o, t, todo),
           fresh' = fresh,
           IF o = "merge" THEN lock = None /\ lock' = c /\ todo = <<"rebase">>
           ELSE lock' = lock /\ todo \in Seq(Other),
           None \notin Caller
    PROVE  Shaped' /\ CallsOK'
<1> DEFINE k == Call(o, t, todo)
<1>1. Sound(c, k)
  BY DEF Call, Sound, MergeStages, IsCall
<1>2. call' = [call EXCEPT ![c] = k]
  BY DEF Begin
<1>3. \A d \in Caller \ {c} : call[d].op = "merge" =>
                 lock' = d /\ (call[d].task \in fresh => call[d].task \in fresh')
  BY DEF CallsOK
<1> HIDE DEF k
<1> QED BY <1>1, <1>2, <1>3, Onward

(* The invariant of all calls, and the steps that keep it.                 *)
CallsInv == Shaped /\ CallsOK

LEMMA RefreshKeeps ==
    ASSUME CallsInv, NEW c \in Caller, Refresh(c) PROVE CallsInv'
<1> USE DEF CallsInv
<1>0. Shaped /\ CallsOK /\ Stage(c, "refresh") /\ UNCHANGED <<lock, fresh>>
  BY DEF Refresh, gitVars
<1>1. CASE Advance(c)
  <2>1. Head(call[c].todo) = "refresh" /\ "refresh" \in Other
    BY <1>0 DEF Stage, Other
  <2> QED BY <1>0, <1>1, <2>1, Advances
<1>2. ASSUME NEW w,
             call' = [call EXCEPT ![c].writes = w, ![c].todo = <<"apply">> \o Tail(@)]
      PROVE  CallsInv'
  <2> DEFINE q == <<"apply">> \o Tail(call[c].todo)
             k == [call[c] EXCEPT !.writes = w, !.todo = q]
  <2>1. call' = [call EXCEPT ![c] = k]
    BY <1>0, <1>2 DEF Shaped
  <2>2. call[c].op # "merge" => q \in Seq(Other)
    <3>1. <<"apply">> \in Seq(Other)
      BY DEF Other
    <3> QED BY <1>0, <3>1, Stages
  <2>3. call[c].op = "merge" => lock = c /\ q = <<"apply", "complete", "merged">>
    <3> SUFFICES ASSUME call[c].op = "merge"
                 PROVE  lock = c /\ q = <<"apply", "complete", "merged">>
      OBVIOUS
    <3>1. lock = c /\ call[c].todo \in MergeStages /\ Head(call[c].todo) = "refresh"
      BY <1>0, Stages
    <3>2. call[c].todo = <<"refresh", "complete", "merged">>
      BY <3>1, MergeHeads
    <3> QED BY <3>1, <3>2, MergeTails
  <2>4. Sound(c, k)
    <3>1. IsCall(k) /\ k.op = call[c].op /\ k.task = call[c].task /\ k.todo = q
      <4>1. DOMAIN call[c] = Fields
        BY <1>0, IsFields DEF Shaped
      <4>2. DOMAIN k = Fields /\ k = [x \in DOMAIN k |-> k[x]]
        BY <4>1
      <4>3. k.op = call[c].op /\ k.task = call[c].task /\ k.todo = q
        BY <4>1 DEF Fields
      <4> HIDE DEF k
      <4> QED BY <4>2, <4>3, FieldsAre
    <3> HIDE DEF k, q
    <3> QED BY <1>0, <2>2, <2>3, <3>1 DEF Sound, MergeStages
  <2>5. \A d \in Caller \ {c} : call[d].op = "merge" =>
                 lock' = d /\ (call[d].task \in fresh => call[d].task \in fresh')
    BY <1>0 DEF CallsOK
  <2> HIDE DEF k, q
  <2> QED BY <1>0, <2>1, <2>4, <2>5, Onward
<1> QED BY <1>1, <1>2 DEF Refresh

LEMMA ApplyKeeps ==
    ASSUME CallsInv, NEW c \in Caller, Apply(c) PROVE CallsInv'
<1> USE DEF CallsInv
<1>0. Shaped /\ CallsOK /\ Stage(c, "apply") /\ UNCHANGED <<lock, fresh>>
  BY DEF Apply, gitVars
<1>1. PICK t : call' = [call EXCEPT ![c] = Goes(Applied(call[c], t))]
  BY <1>0 DEF Apply, Shaped
<1> DEFINE k == Applied(call[c], t)
           q == k.todo
<1>2. IsCall(k) /\ k.op = call[c].op /\ k.task = call[c].task
      /\ q \in {call[c].todo, Tail(call[c].todo)}
  <2>1. DOMAIN call[c] = Fields
    BY <1>0, IsFields DEF Shaped
  <2>2. DOMAIN k = Fields /\ k = [x \in DOMAIN k |-> k[x]]
    BY <2>1 DEF Applied
  <2>3. k.op = call[c].op /\ k.task = call[c].task /\ q \in {call[c].todo, Tail(call[c].todo)}
    BY <2>1 DEF Fields, Applied
  <2> HIDE DEF k
  <2> QED BY <2>2, <2>3, FieldsAre
<1> HIDE DEF k
<1>3. call[c].op # "merge" => q \in Seq(Other)
  BY <1>0, <1>2, Stages
<1>4. call[c].op = "merge" => lock = c /\ q \in MergeStages /\ q # <<"land">>
  <2> SUFFICES ASSUME call[c].op = "merge"
               PROVE  lock = c /\ q \in MergeStages /\ q # <<"land">>
    OBVIOUS
  <2>1. lock = c /\ call[c].todo \in MergeStages /\ Head(call[c].todo) = "apply"
    BY <1>0, Stages
  <2>2. call[c].todo = <<"apply", "complete", "merged">>
    BY <2>1, MergeHeads
  <2>3. Tail(call[c].todo) \in MergeStages /\ Tail(call[c].todo) # <<"land">>
    BY <2>1, MergeAdvance
  <2>4. call[c].todo # <<"land">>
    BY <2>2
  <2> QED BY <1>2, <2>1, <2>3, <2>4
<1>5. Sound(c, Goes(k))
  BY <1>0, <1>2, <1>3, <1>4, GoesSound DEF Sound
<1>6. \A d \in Caller \ {c} : call[d].op = "merge" =>
               lock' = d /\ (call[d].task \in fresh => call[d].task \in fresh')
  BY <1>0 DEF CallsOK
<1> QED BY <1>0, <1>1, <1>5, <1>6, Onward DEF k

LEMMA DispatchNextKeeps ==
    ASSUME CallsInv, NEW c \in Caller, DispatchNext(c) PROVE CallsInv'
<1> USE DEF CallsInv
<1>0. Shaped /\ CallsOK /\ UNCHANGED <<lock, fresh>>
  BY DEF DispatchNext, gitVars, Start
<1> DEFINE k == [call[c] EXCEPT !.next = None]
<1>1. call' = [call EXCEPT ![c] = Goes(k)]
  BY <1>0 DEF DispatchNext, Shaped
<1>2. Sound(c, k)
  <2>1. IsCall(k) /\ k.op = call[c].op /\ k.task = call[c].task /\ k.todo = call[c].todo
    <3>1. DOMAIN call[c] = Fields
      BY <1>0, IsFields DEF Shaped
    <3>2. DOMAIN k = Fields /\ k = [x \in DOMAIN k |-> k[x]]
      BY <3>1
    <3>3. k.op = call[c].op /\ k.task = call[c].task /\ k.todo = call[c].todo
      BY <3>1 DEF Fields
    <3> HIDE DEF k
    <3> QED BY <3>2, <3>3, FieldsAre
  <2> HIDE DEF k
  <2> QED BY <1>0, <2>1 DEF Sound, CallsOK
<1>3. Sound(c, Goes(k))
  <2> HIDE DEF k
  <2> QED BY <1>2, GoesSound
<1>4. \A d \in Caller \ {c} : call[d].op = "merge" =>
               lock' = d /\ (call[d].task \in fresh => call[d].task \in fresh')
  BY <1>0 DEF CallsOK
<1> HIDE DEF k
<1> QED BY <1>0, <1>1, <1>3, <1>4, Onward

(* Stages only calls that do not merge have.                               *)
LEMMA NoMerge ==
    ASSUME CallsOK, NEW c \in Caller,
           NEW s \in {"loop", "mark", "cleanup", "store", "erase", "verdict", "end", "iterate"},
           Stage(c, s)
    PROVE  call[c].op # "merge"
BY Stages, MergeHeads

LEMMA Queues ==
    /\ <<>> \in Seq(Other) /\ <<"refresh">> \in Seq(Other) /\ <<"complete">> \in Seq(Other)
    /\ <<"iterate">> \in Seq(Other) /\ <<"mark">> \in Seq(Other) /\ <<"end">> \in Seq(Other)
    /\ <<"verdict">> \in Seq(Other) /\ <<"store">> \in Seq(Other)
    /\ <<"refresh", "complete">> \in Seq(Other) /\ <<"loop", "end">> \in Seq(Other)
    /\ <<"loop", "cleanup", "end">> \in Seq(Other)
    /\ <<"refresh", "cleanup", "loop">> \in Seq(Other)
    /\ <<"cleanup", "erase", "refresh">> \in Seq(Other)
BY DEF Other

(* A call other than a merge changes what it holds and does next.          *)
LEMMA Becomes ==
    ASSUME CallsInv, NEW c \in Caller, NEW k, call[c].op # "merge", UNCHANGED <<lock, fresh>>,
           call' = [call EXCEPT ![c] = k], k.op = call[c].op, k.todo \in Seq(Other), IsCall(k)
    PROVE  CallsInv'
<1>1. Sound(c, k)
  BY DEF Sound
<1>2. \A d \in Caller \ {c} : call[d].op = "merge" =>
               lock' = d /\ (call[d].task \in fresh => call[d].task \in fresh')
  BY DEF CallsInv, CallsOK
<1> QED BY <1>1, <1>2, Onward DEF CallsInv

LEMMA LoopKeeps ==
    ASSUME CallsInv, NEW c \in Caller, CheckLoop(c) PROVE CallsInv'
<1>0. Shaped /\ CallsOK /\ Stage(c, "loop") /\ UNCHANGED <<lock, fresh>>
  BY DEF CheckLoop, gitVars, CallsInv
<1>1. call[c].op # "merge" /\ \A p \in Seq(Other) : p \o Tail(call[c].todo) \in Seq(Other)
  BY <1>0, NoMerge, Stages
<1>2. ASSUME NEW r, NEW n, call' = [call EXCEPT ![c].todo = <<"iterate">> \o Tail(@),
                                               ![c].seen = r, ![c].iter = n]
      PROVE  CallsInv'
  <2> DEFINE k == [call[c] EXCEPT !.todo = <<"iterate">> \o Tail(call[c].todo), !.seen = r, !.iter = n]
  <2>1. call' = [call EXCEPT ![c] = k]
    BY <1>0, <1>2 DEF Shaped
  <2>2. IsCall(k) /\ k.op = call[c].op /\ k.todo = <<"iterate">> \o Tail(call[c].todo)
    <3>1. DOMAIN call[c] = Fields
      BY <1>0, IsFields DEF Shaped
    <3>2. DOMAIN k = Fields /\ k = [x \in DOMAIN k |-> k[x]]
      BY <3>1
    <3>3. k.op = call[c].op /\ k.todo = <<"iterate">> \o Tail(call[c].todo)
      BY <3>1 DEF Fields
    <3> HIDE DEF k
    <3> QED BY <3>2, <3>3, FieldsAre
  <2>3. k.todo \in Seq(Other)
    BY <1>0, <1>1, Queues, <2>2
  <2> HIDE DEF k
  <2> QED BY <1>0, <1>1, <2>1, <2>2, <2>3, Becomes
<1>3. CASE Continue(c, AfterNoLoop(c) \o Tail(call[c].todo))
  <2>1. AfterNoLoop(c) \in Seq(Other)
    BY Queues DEF AfterNoLoop
  <2>2. AfterNoLoop(c) \o Tail(call[c].todo) \in Seq(Other)
    BY <1>1, <2>1
  <2> QED BY <1>0, <1>1, <1>3, <2>2, Continues DEF CallsInv
<1> QED BY <1>2, <1>3 DEF CheckLoop

LEMMA IterateKeeps ==
    ASSUME CallsInv, NEW c \in Caller, CreateIteration(c) PROVE CallsInv'
<1>0. Shaped /\ CallsOK /\ Stage(c, "iterate") /\ UNCHANGED <<lock, fresh>>
  BY DEF CreateIteration, gitVars, CallsInv
<1>1. call[c].op # "merge" /\ \A p \in Seq(Other) : p \o Tail(call[c].todo) \in Seq(Other)
  BY <1>0, NoMerge, Stages
<1>2. PICK p \in {<<"mark">>, AfterNoLoop(c)} : Continue(c, p \o Tail(call[c].todo))
  BY DEF CreateIteration
<1>3. p \in Seq(Other)
  BY <1>2, Queues DEF AfterNoLoop
<1> QED BY <1>0, <1>1, <1>2, <1>3, Continues DEF CallsInv

LEMMA MarkKeeps ==
    ASSUME CallsInv, NEW c \in Caller, MarkLooped(c) PROVE CallsInv'
<1>0. Shaped /\ CallsOK /\ Stage(c, "mark") /\ UNCHANGED <<lock, fresh>>
  BY DEF MarkLooped, gitVars, CallsInv
<1>1. call[c].op # "merge" /\ \A p \in Seq(Other) : p \o Tail(call[c].todo) \in Seq(Other)
  BY <1>0, NoMerge, Stages
<1>2. AfterLoop(c) \in Seq(Other)
  BY Queues DEF AfterLoop
<1>3. Continue(c, AfterLoop(c) \o Tail(call[c].todo))
  BY DEF MarkLooped
<1> QED BY <1>0, <1>1, <1>2, <1>3, Continues DEF CallsInv

(* The stages that only end there.                                         *)
LEMMA PlainKeeps ==
    ASSUME CallsInv, NEW c \in Caller,
           CheckCompletion(c) \/ Cleanup(c) \/ Erase(c) \/ EndFinish(c)
    PROVE  CallsInv'
<1>1. PICK s \in {"complete", "cleanup", "erase", "end"} : Stage(c, s)
  BY DEF CheckCompletion, Cleanup, Erase, EndFinish
<1>2. UNCHANGED <<lock, fresh>> /\ Advance(c)
  BY DEF CheckCompletion, Cleanup, Erase, EndFinish, gitVars
<1>3. Head(call[c].todo) \in Other /\ Stage(c, Head(call[c].todo))
  BY <1>1 DEF Stage, Other
<1> QED BY <1>2, <1>3, Advances DEF CallsInv

LEMMA StoreKeeps ==
    ASSUME CallsInv, NEW c \in Caller, StoreUpdate(c) PROVE CallsInv'
<1>0. Shaped /\ CallsOK /\ Stage(c, "store") /\ UNCHANGED <<lock, fresh>>
  BY DEF StoreUpdate, gitVars, CallsInv
<1>1. call[c].op # "merge"
  BY <1>0, NoMerge
<1>2. CASE Return(c)
  <2>1. call' = [call EXCEPT ![c] = Idle]
    BY <1>2 DEF Return
  <2>2. \A d \in Caller \ {c} : call[d].op = "merge" =>
               lock' = d /\ (call[d].task \in fresh => call[d].task \in fresh')
    BY <1>0 DEF CallsOK
  <2> QED BY <1>0, <2>1, <2>2, IdleSound, Onward DEF CallsInv
<1>3. ASSUME NEW r, NEW w, NEW q \in {<<"refresh", "cleanup", "loop">>, <<"refresh">>},
             call' = [call EXCEPT ![c].seen = r, ![c].writes = w, ![c].todo = q]
      PROVE  CallsInv'
  <2> DEFINE k == [call[c] EXCEPT !.seen = r, !.writes = w, !.todo = q]
  <2>1. call' = [call EXCEPT ![c] = k]
    BY <1>0, <1>3 DEF Shaped
  <2>2. IsCall(k) /\ k.op = call[c].op /\ k.todo = q
    <3>1. DOMAIN call[c] = Fields
      BY <1>0, IsFields DEF Shaped
    <3>2. DOMAIN k = Fields /\ k = [x \in DOMAIN k |-> k[x]]
      BY <3>1
    <3>3. k.op = call[c].op /\ k.todo = q
      BY <3>1 DEF Fields
    <3> HIDE DEF k
    <3> QED BY <3>2, <3>3, FieldsAre
  <2>3. k.todo \in Seq(Other)
    BY <1>0, <1>3, Queues, <2>2
  <2> HIDE DEF k
  <2> QED BY <1>0, <1>1, <2>1, <2>2, <2>3, Becomes
<1> QED BY <1>2, <1>3 DEF StoreUpdate

LEMMA VerdictKeeps ==
    ASSUME CallsInv, NEW c \in Caller, WriteVerdict(c) PROVE CallsInv'
<1>0. Shaped /\ CallsOK /\ Stage(c, "verdict") /\ UNCHANGED <<lock, fresh>>
  BY DEF WriteVerdict, gitVars, CallsInv
<1>1. call[c].op # "merge"
  BY <1>0, NoMerge
<1>2. PICK r, v : call' = [call EXCEPT ![c].seen = r, ![c].todo = FinishStages(v)]
  BY DEF WriteVerdict
<1>3. FinishStages(v) \in Seq(Other)
  BY Queues DEF FinishStages
<1> DEFINE k == [call[c] EXCEPT !.seen = r, !.todo = FinishStages(v)]
<1>4. call' = [call EXCEPT ![c] = k]
  BY <1>0, <1>2 DEF Shaped
<1>5. IsCall(k) /\ k.op = call[c].op /\ k.todo = FinishStages(v)
  <2>1. DOMAIN call[c] = Fields
    BY <1>0, IsFields DEF Shaped
  <2>2. DOMAIN k = Fields /\ k = [x \in DOMAIN k |-> k[x]]
    BY <2>1
  <2>3. k.op = call[c].op /\ k.todo = FinishStages(v)
    BY <2>1 DEF Fields
  <2> HIDE DEF k
  <2> QED BY <2>2, <2>3, FieldsAre
<1>6. k.todo \in Seq(Other)
  BY <1>3, <1>5
<1> HIDE DEF k
<1> QED BY <1>0, <1>1, <1>4, <1>5, <1>6, Becomes

(* A merge, one stage after another under the lock.                        *)
LEMMA MergeKeeps ==
    ASSUME WorkflowAssumption, CallsInv, NEW c \in Caller,
           Rebase(c) \/ Land(c) \/ LandFails(c) \/ StoreDone(c) \/ Prune(c) \/ Merged(c)
    PROVE  CallsInv'
<1> USE DEF CallsInv
<1>0. Shaped /\ CallsOK
  OBVIOUS
<1>1. call[c].op = "merge" /\ \A d \in Caller \ {c} : call[d].op # "merge"
  <2>1. call[c].op = "merge"
    BY MergeStage DEF Rebase, Land, LandFails, StoreDone, Prune, Merged
  <2> QED BY <2>1 DEF CallsOK
<1>2. lock = c /\ call[c].todo \in MergeStages
  BY <1>1 DEF CallsOK
<1>3. CASE GiveUp(c)
  BY <1>0, <1>1, <1>3, GivesUp
<1>4. CASE Rebase(c) /\ ~GiveUp(c)
  <2>1. /\ Continue(c, <<"land">>) /\ fresh' = fresh \cup {Of(c)} /\ lock' = lock
    BY <1>4 DEF Rebase
  <2> DEFINE k == [call[c] EXCEPT !.todo = <<"land">>]
  <2>2. IsCall(k) /\ k.op = call[c].op /\ k.task = call[c].task /\ k.todo = <<"land">>
    <3>1. DOMAIN call[c] = Fields
      BY IsFields DEF Shaped
    <3>2. DOMAIN k = Fields /\ k = [x \in DOMAIN k |-> k[x]]
      BY <3>1
    <3>3. k.op = call[c].op /\ k.task = call[c].task /\ k.todo = <<"land">>
      BY <3>1 DEF Fields
    <3> HIDE DEF k
    <3> QED BY <3>2, <3>3, FieldsAre
  <2>3. call' = [call EXCEPT ![c] = Goes(k)]
    BY <2>1 DEF Continue, Shaped
  <2> HIDE DEF k
  <2>4. Sound(c, k)
    BY <1>1, <1>2, <2>1, <2>2 DEF Sound, MergeStages, Of
  <2> QED BY <1>0, <1>1, <2>3, <2>4, GoesSound, Onward
<1>5. CASE Land(c)
  <2>1. Continue(c, <<"landed">>) /\ lock' = lock
    BY <1>5 DEF Land
  <2> DEFINE k == [call[c] EXCEPT !.todo = <<"landed">>]
  <2>2. IsCall(k) /\ k.op = call[c].op /\ k.todo = <<"landed">>
    <3>1. DOMAIN call[c] = Fields
      BY IsFields DEF Shaped
    <3>2. DOMAIN k = Fields /\ k = [x \in DOMAIN k |-> k[x]]
      BY <3>1
    <3>3. k.op = call[c].op /\ k.todo = <<"landed">>
      BY <3>1 DEF Fields
    <3> HIDE DEF k
    <3> QED BY <3>2, <3>3, FieldsAre
  <2>3. call' = [call EXCEPT ![c] = Goes(k)]
    BY <2>1 DEF Continue, Shaped
  <2> HIDE DEF k
  <2>4. Sound(c, k)
    BY <1>1, <1>2, <2>1, <2>2 DEF Sound, MergeStages
  <2> QED BY <1>0, <1>1, <2>3, <2>4, GoesSound, Onward
<1>6. CASE StoreDone(c)
  <2>1. Continue(c, <<"prune", "refresh", "complete", "merged">>) /\ UNCHANGED <<lock, fresh>>
    BY <1>6 DEF StoreDone, gitVars
  <2>2. /\ <<"prune", "refresh", "complete", "merged">> \in MergeStages
        /\ <<"prune", "refresh", "complete", "merged">> # <<"land">>
    BY DEF MergeStages
  <2> QED BY <1>0, <1>1, <1>2, <2>1, <2>2, Continues
<1>7. CASE Prune(c) /\ ~GiveUp(c)
  <2>1. Advance(c) /\ UNCHANGED <<lock, fresh>> /\ Stage(c, "prune")
    BY <1>7 DEF Prune
  <2>2. Head(call[c].todo) = "prune"
    BY <2>1 DEF Stage
  <2> QED BY <1>0, <2>1, <2>2, Advances
<1> QED BY <1>3, <1>4, <1>5, <1>6, <1>7 DEF LandFails, Merged

(* A new call.                                                             *)
LEMMA BeginKeeps ==
    ASSUME WorkflowAssumption, CallsInv, NEW c \in Caller, BeginCall(c)
    PROVE  CallsInv'
<1> USE DEF CallsInv
<1>0. Shaped /\ CallsOK /\ None \notin Caller
  BY DEF WorkflowAssumption
<1>1. ASSUME NEW deps, CreateTask(c, deps) PROVE CallsInv'
  <2>1. Begin(c, "create", None, <<"refresh">>) /\ UNCHANGED <<lock, fresh>>
    BY <1>1 DEF CreateTask, gitVars
  <2> QED BY <1>0, <2>1, Begins, Queues
<1>2. ASSUME NEW t, BeginDelete(c, t) PROVE CallsInv'
  <2>1. Begin(c, "delete", t, <<"cleanup", "erase", "refresh">>) /\ UNCHANGED <<lock, fresh>>
    BY <1>2 DEF BeginDelete, gitVars
  <2> QED BY <1>0, <2>1, Begins, Queues
<1>3. ASSUME NEW t, BeginFinish(c, t) PROVE CallsInv'
  <2>1. PICK q \in {<<"verdict">>, <<"end">>} : Begin(c, "finish", t, q)
    BY <1>3 DEF BeginFinish
  <2>2. UNCHANGED <<lock, fresh>>
    BY <1>3 DEF BeginFinish, gitVars
  <2> QED BY <1>0, <2>1, <2>2, Begins, Queues
<1>4. ASSUME NEW t, BeginMerge(c, t) PROVE CallsInv'
  <2>1. lock = None /\ fresh' = fresh
    BY <1>4 DEF BeginMerge, gitVars, LockFree
  <2>2. CASE Begin(c, "merge", t, <<"rebase">>) /\ lock' = c
    BY <1>0, <2>1, <2>2, Begins
  <2>3. CASE UNCHANGED <<lock, call>>
    BY <2>1, <2>3 DEF Shaped, CallsOK
  <2> QED BY <1>4, <2>2, <2>3 DEF BeginMerge
<1>5. ASSUME NEW t, NEW st, NEW deps, BeginUpdate(c, t, st, deps) PROVE CallsInv'
  <2>1. UNCHANGED <<lock, fresh>> /\ call[c].op # "merge"
    BY <1>5 DEF BeginUpdate, gitVars, Free, Busy, Idle
  <2>2. PICK w : call' = [call EXCEPT ![c] = [Call("update", t, <<"store">>) EXCEPT !.writes = w]]
    BY <1>5 DEF BeginUpdate
  <2> DEFINE k == [Call("update", t, <<"store">>) EXCEPT !.writes = w]
  <2>3. IsCall(k) /\ k.op = "update" /\ k.todo = <<"store">>
    BY DEF Call, IsCall
  <2>4. call' = [call EXCEPT ![c] = k]
    BY <2>2
  <2> HIDE DEF k
  <2>5. Sound(c, k)
    BY <2>3, Queues DEF Sound
  <2>6. \A d \in Caller \ {c} : call[d].op = "merge" =>
               lock' = d /\ (call[d].task \in fresh => call[d].task \in fresh')
    BY <2>1 DEF CallsOK
  <2> QED BY <1>0, <2>4, <2>5, <2>6, Onward
<1> QED BY <1>1, <1>2, <1>3, <1>4, <1>5 DEF BeginCall

LEMMA NoCalls ==
    ASSUME NEW f, f = [c \in Caller |-> Idle]
    PROVE  /\ f = [c \in Caller |-> f[c]]
           /\ \A c \in Caller : IsCall(f[c]) /\ f[c].op # "merge" /\ f[c].todo \in Seq(Other)
<1>1. IsCall(Idle) /\ Idle.op # "merge" /\ Idle.todo \in Seq(Other)
  BY Queues DEF IsCall, Idle
<1> QED BY <1>1

LEMMA CallsInitially == Init => CallsInv
BY NoCalls DEF Init, CallsInv, Shaped, CallsOK

LEMMA CallsStay == WorkflowAssumption /\ CallsInv /\ [Next]_vars => CallsInv'
<1> SUFFICES ASSUME WorkflowAssumption, CallsInv, [Next]_vars PROVE CallsInv'
  OBVIOUS
<1>1. CASE UNCHANGED <<call, lock, fresh>>
  BY <1>1 DEF CallsInv, Shaped, CallsOK
<1>2. ASSUME NEW c \in Caller, CallStep(c) PROVE CallsInv'
  <2>1. CASE Rebase(c) \/ Land(c) \/ LandFails(c) \/ StoreDone(c) \/ Prune(c) \/ Merged(c)
    BY <2>1, MergeKeeps
  <2>2. CASE CheckCompletion(c) \/ Cleanup(c) \/ Erase(c) \/ EndFinish(c)
    BY <2>2, PlainKeeps
  <2> QED BY <1>2, <2>1, <2>2, RefreshKeeps, ApplyKeeps, DispatchNextKeeps, LoopKeeps,
             IterateKeeps, MarkKeeps, StoreKeeps, VerdictKeeps DEF CallStep
<1>3. CASE Crash
  <2>1. call' = [c \in Caller |-> Idle]
    BY <1>3 DEF Crash
  <2> QED BY <2>1, NoCalls DEF CallsInv, Shaped, CallsOK
<1>4. ASSUME NEW t, DispatchTask(t) \/ ApproveReview(t) \/ RejectReview(t) PROVE CallsInv'
  <2>1. UNCHANGED <<call, lock, fresh>>
    BY <1>4 DEF DispatchTask, Start, ApproveReview, RejectReview, gitVars
  <2> QED BY <1>1, <2>1
<1>5. CASE Instantiate
  <2>1. UNCHANGED <<call, lock, fresh>>
    BY <1>5 DEF Instantiate, gitVars
  <2> QED BY <1>1, <2>1
<1>6. CASE UNCHANGED vars
  <2>1. UNCHANGED <<call, lock, fresh>>
    BY <1>6 DEF vars, gitVars
  <2> QED BY <1>1, <2>1
<1> QED BY <1>2, <1>3, <1>4, <1>5, <1>6, BeginKeeps DEF Next

(* merge_branch_locks: merge_queue_execute holds the lock of the target    *)
(* branch from its first stage to its return, so two merges are never      *)
(* between their first and their last stage.                               *)
THEOREM OneMergeAtATime == Spec => []CallsInv
<1>1. WorkflowAssumption
  BY WorkflowAssumption
<1> QED BY <1>1, CallsInitially, CallsStay, PTL DEF Spec

LEMMA LandIsChecked ==
    ASSUME CallsInv, NEW c \in Caller, Land(c) PROVE Of(c) \in fresh
<1>1. call[c].op = "merge" /\ Head(call[c].todo) = "land"
  BY MergeStage DEF Land, CallsInv, Stage
<1>2. call[c].todo \in MergeStages /\ (call[c].todo = <<"land">> => call[c].task \in fresh)
  BY <1>1 DEF CallsInv, CallsOK
<1> QED BY <1>1, <1>2, MergeHeads DEF Of

(* merge_queue_execute: a branch lands only while what it was rebased on   *)
(* and checked against is still what the target branch is.                 *)
THEOREM MergedTrees == Spec => MergedTreeWasChecked
<1>1. CallsInv => [\A c \in Caller : Land(c) => Of(c) \in fresh]_vars
  BY LandIsChecked
<1> QED BY <1>1, OneMergeAtATime, PTL DEF MergedTreeWasChecked

-----------------------------------------------------------------------------
(* Iterations.                                                             *)
Plain == {"refresh", "apply", "loop", "mark", "complete", "cleanup", "store", "erase",
          "verdict", "end", "rebase", "land", "landed", "prune", "merged"}

(* An iteration about to be created is one its gate's loop allows.         *)
LoopCall(k, def, last, kinds) ==
    /\ k.todo # <<>> => Tail(k.todo) \in Seq(Plain)
    /\ k.todo # <<>> /\ Head(k.todo) = "iterate" =>
          /\ k.task \in 1 .. last /\ kinds[k.task].step # 0
          /\ def[kinds[k.task].step].loop.mode # "none"
          /\ k.iter \in 1 .. def[kinds[k.task].step].loop.max

LoopCalls == \A c \in Caller : LoopCall(call[c], steps, made, kind)

Kinds ==
    /\ steps \in Workflows
    /\ made \in 0 .. MaxTasks
    /\ kind \in [Task -> [step : 0 .. Len(steps), iter : 0 .. 20, ctx : BOOLEAN]]
    /\ link \subseteq 1 .. made
    /\ \A t \in link : kind[t].step # 0

(* What was created stays what it is.                                      *)
KindsGrow ==
    /\ steps' = steps /\ made' \in Nat /\ made <= made'
    /\ \A t \in 1 .. made : kind'[t] = kind[t]

OthersStay(c) == \A d \in Caller \ {c} : call'[d] = call[d]

LEMMA PlainQueues ==
    ASSUME NEW q \in Seq(Plain)
    PROVE  /\ q # <<>> => Tail(q) \in Seq(Plain) /\ Head(q) \in Plain
           /\ \A p \in Seq(Plain) : p \o q \in Seq(Plain)
OBVIOUS

LEMMA Prefixed ==
    ASSUME NEW q \in Seq(Plain)
    PROVE  <<"iterate">> \o q # <<>> /\ Tail(<<"iterate">> \o q) \in Seq(Plain)
<1> DEFINE S == Plain \cup {"iterate"}
           p == <<"iterate">>
<1>1. p \in Seq(S) /\ q \in Seq(S) /\ Len(p) = 1
  OBVIOUS
<1>2. /\ p \o q \in Seq(S) /\ Len(p \o q) = 1 + Len(q)
      /\ \A i \in 1 .. 1 + Len(q) : (p \o q)[i] = IF i <= 1 THEN p[i] ELSE q[i - 1]
  <2> HIDE DEF S, p
  <2> QED BY <1>1, ConcatProperties
<1> HIDE DEF S, p
<1>3. p \o q # <<>>
  BY <1>2
<1>4. /\ Tail(p \o q) \in Seq(S) /\ Len(Tail(p \o q)) = Len(q)
      /\ \A i \in 1 .. Len(q) : Tail(p \o q)[i] = q[i]
  <2>1. /\ Tail(p \o q) \in Seq(S) /\ Len(Tail(p \o q)) = Len(p \o q) - 1
        /\ \A i \in 1 .. Len(Tail(p \o q)) : Tail(p \o q)[i] = (p \o q)[i + 1]
    BY <1>2, <1>3, HeadTailProperties
  <2> QED BY <1>1, <1>2, <2>1
<1>5. Tail(p \o q) = q
  BY <1>1, <1>4, SeqEqual
<1> QED BY <1>3, <1>5 DEF p

LEMMA PlainIsLoopCall ==
    ASSUME NEW k, k.todo \in Seq(Plain) PROVE LoopCall(k, steps', made', kind')
<1>1. k.todo # <<>> => Tail(k.todo) \in Seq(Plain) /\ Head(k.todo) # "iterate"
  BY PlainQueues DEF Plain
<1> QED BY <1>1 DEF LoopCall

LEMMA LoopCallStays ==
    ASSUME Kinds, KindsGrow, NEW k, LoopCall(k, steps, made, kind), NEW n, n.todo = k.todo, n.task = k.task,
           n.iter = k.iter
    PROVE  LoopCall(n, steps', made', kind')
<1>1. CASE ~(k.todo # <<>> /\ Head(k.todo) = "iterate")
  BY <1>1 DEF LoopCall
<1>2. CASE k.todo # <<>> /\ Head(k.todo) = "iterate"
  <2>1. k.task \in 1 .. made /\ k.task \in 1 .. made' /\ kind'[k.task] = kind[k.task]
    BY <1>2 DEF LoopCall, KindsGrow, Kinds
  <2> QED BY <1>2, <2>1 DEF LoopCall, KindsGrow
<1> QED BY <1>1, <1>2

LEMMA PlainStep ==
    ASSUME Kinds, KindsGrow, LoopCalls, NEW c \in Caller, OthersStay(c),
           call'[c].todo \in Seq(Plain)
    PROVE  LoopCalls'
<1>1. LoopCall(call'[c], steps', made', kind')
  BY PlainIsLoopCall
<1>2. ASSUME NEW d \in Caller \ {c} PROVE LoopCall(call'[d], steps', made', kind')
  BY <1>2, LoopCallStays DEF LoopCalls, OthersStay
<1> QED BY <1>1, <1>2 DEF LoopCalls

LEMMA SameStep ==
    ASSUME Kinds, KindsGrow, LoopCalls, NEW c \in Caller, OthersStay(c),
           call'[c].todo = call[c].todo, call'[c].task = call[c].task,
           call'[c].iter = call[c].iter
    PROVE  LoopCalls'
BY LoopCallStays DEF LoopCalls, OthersStay

LEMMA NoStep ==
    ASSUME Kinds, KindsGrow, LoopCalls, UNCHANGED call PROVE LoopCalls'
BY LoopCallStays DEF LoopCalls

LEMMA Becoming ==
    ASSUME Shaped, NEW c \in Caller, NEW k, call' = [call EXCEPT ![c] = k]
    PROVE  OthersStay(c) /\ call'[c] = k
BY DEF Shaped, OthersStay

LEMMA Continuing ==
    ASSUME Shaped, NEW c \in Caller, NEW todo, Continue(c, todo)
    PROVE  OthersStay(c) /\ call'[c].todo = todo
<1> DEFINE k == [call[c] EXCEPT !.todo = todo]
<1>1. k.todo = todo
  <2>1. DOMAIN call[c] = Fields
    BY IsFields DEF Shaped
  <2> QED BY <2>1 DEF Fields
<1>2. call' = [call EXCEPT ![c] = Goes(k)]
  BY DEF Continue, Shaped
<1> HIDE DEF k
<1>3. OthersStay(c) /\ call'[c] = Goes(k)
  BY <1>2, Becoming
<1> QED BY <1>1, <1>3 DEF Goes, Idle

LEMMA Tails ==
    ASSUME LoopCalls, NEW c \in Caller, NEW s, Stage(c, s)
    PROVE  /\ Tail(call[c].todo) \in Seq(Plain)
           /\ \A p \in Seq(Plain) : p \o Tail(call[c].todo) \in Seq(Plain)
<1>1. Tail(call[c].todo) \in Seq(Plain)
  BY DEF Stage, LoopCalls, LoopCall
<1> QED BY <1>1, PlainQueues

LEMMA MoreQueues ==
    /\ <<>> \in Seq(Plain) /\ <<"refresh">> \in Seq(Plain) /\ <<"complete">> \in Seq(Plain)
    /\ <<"mark">> \in Seq(Plain) /\ <<"end">> \in Seq(Plain) /\ <<"apply">> \in Seq(Plain)
    /\ <<"verdict">> \in Seq(Plain) /\ <<"store">> \in Seq(Plain)
    /\ <<"refresh", "complete">> \in Seq(Plain) /\ <<"loop", "end">> \in Seq(Plain)
    /\ <<"loop", "cleanup", "end">> \in Seq(Plain)
    /\ <<"refresh", "cleanup", "loop">> \in Seq(Plain)
    /\ <<"cleanup", "erase", "refresh">> \in Seq(Plain)
    /\ <<"rebase">> \in Seq(Plain) /\ <<"land">> \in Seq(Plain) /\ <<"landed">> \in Seq(Plain)
    /\ <<"prune", "refresh", "complete", "merged">> \in Seq(Plain)
BY DEF Plain

LEMMA IdleQueue == Idle.todo = <<>>
BY DEF Idle

(* The steps of a call other than those that concern a loop's iteration.   *)
LEMMA OrdinaryCalls ==
    ASSUME Shaped, Kinds, KindsGrow, LoopCalls, NEW c \in Caller, CallStep(c),
           ~CheckLoop(c)
    PROVE  LoopCalls'
<1>1. ASSUME NEW s, Stage(c, s), Advance(c) PROVE LoopCalls'
  <2>1. OthersStay(c) /\ call'[c].todo = Tail(call[c].todo)
    BY <1>1, Continuing DEF Advance
  <2> QED BY <1>1, <2>1, Tails, PlainStep
<1>2. ASSUME NEW s, Stage(c, s), NEW p \in Seq(Plain), Continue(c, p \o Tail(call[c].todo))
      PROVE  LoopCalls'
  <2>1. OthersStay(c) /\ call'[c].todo = p \o Tail(call[c].todo)
    BY <1>2, Continuing
  <2> QED BY <1>2, <2>1, Tails, PlainStep
<1>3. ASSUME NEW p \in Seq(Plain), Continue(c, p) PROVE LoopCalls'
  <2>1. OthersStay(c) /\ call'[c].todo = p
    BY <1>3, Continuing
  <2> QED BY <1>3, <2>1, PlainStep
<1>4. CASE Return(c)
  <2>1. OthersStay(c) /\ call'[c] = Idle
    BY <1>4, Becoming DEF Return
  <2> QED BY <2>1, MoreQueues, IdleQueue, PlainStep
<1>5. CASE Refresh(c)
  <2>1. Stage(c, "refresh")
    BY <1>5 DEF Refresh
  <2>2. ASSUME NEW w, call' = [call EXCEPT ![c].writes = w, ![c].todo = <<"apply">> \o Tail(@)]
        PROVE  LoopCalls'
    <3> DEFINE k == [call[c] EXCEPT !.writes = w, !.todo = <<"apply">> \o Tail(call[c].todo)]
    <3>1. call' = [call EXCEPT ![c] = k]
      BY <2>2 DEF Shaped
    <3>2. k.todo = <<"apply">> \o Tail(call[c].todo)
      <4>1. DOMAIN call[c] = Fields
        BY IsFields DEF Shaped
      <4> QED BY <4>1 DEF Fields
    <3> HIDE DEF k
    <3>3. k.todo \in Seq(Plain)
      BY <2>1, <3>2, Tails, MoreQueues
    <3> QED BY <3>1, <3>3, Becoming, PlainStep
  <2> QED BY <1>1, <1>5, <2>1, <2>2 DEF Refresh
<1>6. CASE Apply(c)
  <2>1. Stage(c, "apply")
    BY <1>6 DEF Apply
  <2>2. PICK t : call' = [call EXCEPT ![c] = Goes(Applied(call[c], t))]
    BY <1>6 DEF Apply, Shaped
  <2> DEFINE k == Applied(call[c], t)
  <2>3. /\ k.task = call[c].task /\ k.iter = call[c].iter
        /\ k.todo \in {call[c].todo, Tail(call[c].todo)}
    <3>1. DOMAIN call[c] = Fields
      BY IsFields DEF Shaped
    <3> QED BY <3>1 DEF Fields, Applied
  <2> HIDE DEF k
  <2>4. OthersStay(c) /\ call'[c] = Goes(k)
    BY <2>2, Becoming DEF k
  <2>5. CASE Goes(k) = Idle
    BY <2>4, <2>5, MoreQueues, IdleQueue, PlainStep
  <2>6. CASE Goes(k) = k
    BY <2>1, <2>3, <2>4, <2>6, Tails, PlainStep, SameStep
  <2> QED BY <2>5, <2>6 DEF Goes
<1>7. CASE DispatchNext(c)
  <2> DEFINE k == [call[c] EXCEPT !.next = None]
  <2>1. call' = [call EXCEPT ![c] = Goes(k)]
    BY <1>7 DEF DispatchNext, Shaped
  <2>2. k.task = call[c].task /\ k.iter = call[c].iter /\ k.todo = call[c].todo
    <3>1. DOMAIN call[c] = Fields
      BY IsFields DEF Shaped
    <3> QED BY <3>1 DEF Fields
  <2> HIDE DEF k
  <2>3. OthersStay(c) /\ call'[c] = Goes(k)
    BY <2>1, Becoming
  <2>4. CASE Goes(k) = Idle
    BY <2>3, <2>4, MoreQueues, IdleQueue, PlainStep
  <2>5. CASE Goes(k) = k
    BY <2>2, <2>3, <2>5, SameStep
  <2> QED BY <2>4, <2>5 DEF Goes
<1>8. CASE CreateIteration(c)
  <2>1. PICK p \in {<<"mark">>, AfterNoLoop(c)} : Continue(c, p \o Tail(call[c].todo))
    BY <1>8 DEF CreateIteration
  <2>2. p \in Seq(Plain) /\ Stage(c, "iterate")
    BY <1>8, <2>1, MoreQueues DEF AfterNoLoop, CreateIteration
  <2> QED BY <1>2, <2>1, <2>2
<1>9. CASE MarkLooped(c)
  <2>1. AfterLoop(c) \in Seq(Plain) /\ Stage(c, "mark")
    BY <1>9, MoreQueues DEF AfterLoop, MarkLooped
  <2> QED BY <1>2, <1>9, <2>1 DEF MarkLooped
<1>10. CASE CheckCompletion(c) \/ Cleanup(c) \/ Erase(c) \/ EndFinish(c)
  BY <1>1, <1>10 DEF CheckCompletion, Cleanup, Erase, EndFinish
<1>11. CASE StoreUpdate(c)
  <2>1. ASSUME NEW r, NEW w, NEW q \in {<<"refresh", "cleanup", "loop">>, <<"refresh">>},
               call' = [call EXCEPT ![c].seen = r, ![c].writes = w, ![c].todo = q]
        PROVE  LoopCalls'
    <3> DEFINE k == [call[c] EXCEPT !.seen = r, !.writes = w, !.todo = q]
    <3>1. call' = [call EXCEPT ![c] = k]
      BY <2>1 DEF Shaped
    <3>2. k.todo = q
      <4>1. DOMAIN call[c] = Fields
        BY IsFields DEF Shaped
      <4> QED BY <4>1 DEF Fields
    <3> HIDE DEF k
    <3>3. k.todo \in Seq(Plain)
      BY <3>2, MoreQueues
    <3> QED BY <3>1, <3>3, Becoming, PlainStep
  <2> QED BY <1>4, <1>11, <2>1 DEF StoreUpdate
<1>12. CASE WriteVerdict(c)
  <2>1. PICK r, v : call' = [call EXCEPT ![c].seen = r, ![c].todo = FinishStages(v)]
    BY <1>12 DEF WriteVerdict
  <2> DEFINE k == [call[c] EXCEPT !.seen = r, !.todo = FinishStages(v)]
  <2>2. call' = [call EXCEPT ![c] = k]
    BY <2>1 DEF Shaped
  <2>3. k.todo = FinishStages(v)
    <3>1. DOMAIN call[c] = Fields
      BY IsFields DEF Shaped
    <3> QED BY <3>1 DEF Fields
  <2> HIDE DEF k
  <2>4. k.todo \in Seq(Plain)
    BY <2>3, MoreQueues DEF FinishStages
  <2> QED BY <2>2, <2>4, Becoming, PlainStep
<1>13. CASE Rebase(c) \/ Land(c) \/ LandFails(c) \/ StoreDone(c) \/ Prune(c) \/ Merged(c)
  <2>1. CASE \E p \in Seq(Plain) : Continue(c, p)
    BY <1>3, <2>1
  <2>2. CASE GiveUp(c)
    BY <1>4, <2>2 DEF GiveUp
  <2>3. CASE Prune(c) /\ Advance(c)
    BY <1>1, <2>3 DEF Prune
  <2> QED BY <1>13, <2>1, <2>2, <2>3, MoreQueues
          DEF Rebase, Land, LandFails, StoreDone, Prune, Merged
<1> QED BY <1>5, <1>6, <1>7, <1>8, <1>9, <1>10, <1>11, <1>12, <1>13 DEF CallStep

(* A set of numbers has a smallest, and a bounded one a largest.           *)
LEMMA Smallest ==
    ASSUME NEW S \in SUBSET Nat, S # {}
    PROVE  \E n \in S : \A m \in S : n <= m
<1> DEFINE R == OpToRel(<, Nat)
<1>1. IsWellFoundedOn(R, Nat)
  BY NatLessThanWellFounded, Zenon
<1>2. \A m, n \in Nat : m < n => <<m, n>> \in R
  BY DEF OpToRel
<1> HIDE DEF R
<1>3. PICK n \in S : \A m \in S : ~(<<m, n>> \in R)
  BY <1>1, WFMin
<1>4. \A m \in S : ~(m < n)
  BY <1>2, <1>3
<1> QED BY <1>4

LEMMA Largest ==
    ASSUME NEW top \in Nat, NEW S \in SUBSET (0 .. top), S # {}
    PROVE  \E n \in S : \A m \in S : m <= n
<1> DEFINE T == {top - m : m \in S}
<1>1. T \in SUBSET Nat /\ T # {}
  <2>1. \A m \in S : top - m \in Nat
    OBVIOUS
  <2>2. PICK m \in S : TRUE
    OBVIOUS
  <2>3. top - m \in T
    OBVIOUS
  <2> QED BY <2>1, <2>3
<1>2. PICK k \in T : \A m \in T : k <= m
  <2> HIDE DEF T
  <2> QED BY <1>1, Smallest
<1>3. PICK n \in S : k = top - n
  BY <1>2
<1>4. \A m \in S : top - n <= top - m
  BY <1>2, <1>3
<1> QED BY <1>3, <1>4

LEMMA MadeAreTasks == Kinds => made \in Nat /\ 1 .. made \subseteq Task
<1>1. MaxTasks \in Nat
  BY WorkflowAssumption
<1> QED BY <1>1 DEF Kinds, Task

LEMMA LatestIs ==
    ASSUME Kinds, NEW i
    PROVE  /\ LatestIteration(i) \in 0 .. 20
           /\ \A t \in AtStep(i) : kind[t].iter <= LatestIteration(i)
<1> DEFINE S == {kind[t].iter : t \in AtStep(i)}
<1>1. AtStep(i) \subseteq Task
  BY MadeAreTasks DEF AtStep, Kinds
<1>2. S \in SUBSET (0 .. 20)
  BY <1>1 DEF Kinds
<1>3. CASE AtStep(i) = {}
  BY <1>3 DEF LatestIteration
<1>4. CASE AtStep(i) # {}
  <2>1. S # {}
    BY <1>4
  <2>2. \E n \in S : \A m \in S : m <= n
    <3> HIDE DEF S
    <3> QED BY <1>2, <2>1, Largest
  <2>3. \E n \in S : \A t \in AtStep(i) : kind[t].iter <= n
    BY <2>2
  <2>4. LatestIteration(i) \in S /\ \A t \in AtStep(i) : kind[t].iter <= LatestIteration(i)
    <3>1. LatestIteration(i) = CHOOSE n \in S : \A t \in AtStep(i) : kind[t].iter <= n
      BY <1>4 DEF LatestIteration
    <3> HIDE DEF S
    <3> QED BY <2>3, <3>1
  <2> QED BY <1>2, <2>4
<1> QED BY <1>3, <1>4

LEMMA FailingIs ==
    ASSUME NEW target \in Nat, NEW gate \in Nat, target <= gate, NEW iter
    PROVE  FirstFailing(target, gate, iter) \in target .. gate + 1
<1> DEFINE S == {i \in target .. gate : Undone(i, target) \/ Taken(i, iter)}
<1>1. CASE S = {}
  BY <1>1 DEF FirstFailing
<1>2. CASE S # {}
  <2>1. S \in SUBSET Nat /\ S \subseteq target .. gate
    OBVIOUS
  <2>2. FirstFailing(target, gate, iter) = CHOOSE i \in S : \A j \in S : i <= j
    BY <1>2 DEF FirstFailing
  <2> HIDE DEF S
  <2>3. \E i \in S : \A j \in S : i <= j
    BY <1>2, <2>1, Smallest
  <2>4. FirstFailing(target, gate, iter) \in S
    BY <2>2, <2>3
  <2>5. target .. gate \subseteq target .. gate + 1
    OBVIOUS
  <2> QED BY <2>1, <2>4, <2>5
<1> QED BY <1>1, <1>2

LEMMA StepsAre ==
    ASSUME Kinds
    PROVE  steps \in Seq(StepDef) /\ Valid(steps) /\ DOMAIN steps = 1 .. Len(steps)
           /\ Len(steps) \in Nat
<1>1. steps \in Seq(StepDef) /\ Valid(steps)
  BY WorkflowAssumption DEF Kinds
<1> QED BY <1>1

(* A gate's loop as WorkflowDef::validate leaves it.                       *)
LEMMA LoopIs ==
    ASSUME Kinds, NEW g \in DOMAIN steps, steps[g].loop.mode # "none"
    PROVE  steps[g].loop.target \in 1 .. g /\ steps[g].loop.max \in 1 .. 20
<1>1. steps \in Seq(StepDef) /\ Valid(steps)
  BY WorkflowAssumption DEF Kinds
<1>2. LoopAllowed(steps[g].loop, g)
  BY <1>1 DEF Valid
<1>3. g \in 1 .. Len(steps)
  BY <1>1
<1> QED BY <1>2, <1>3 DEF LoopAllowed

(* check_loop_trigger: the number it fixes is within the limit.            *)
LEMMA LoopSteps ==
    ASSUME Kinds, KindsGrow, LoopCalls, Shaped, NEW c \in Caller, CheckLoop(c)
    PROVE  LoopCalls'
<1>0. Stage(c, "loop")
  BY DEF CheckLoop
<1>1. CASE Continue(c, AfterNoLoop(c) \o Tail(call[c].todo))
  <2>1. OthersStay(c) /\ call'[c].todo = AfterNoLoop(c) \o Tail(call[c].todo)
    BY <1>1, Continuing
  <2>2. AfterNoLoop(c) \in Seq(Plain)
    BY MoreQueues DEF AfterNoLoop
  <2> QED BY <1>0, <2>1, <2>2, Tails, PlainStep
<1>2. ASSUME Triggers(Of(c), call[c].seen.st), NEW r,
             call' = [call EXCEPT ![c].todo = <<"iterate">> \o Tail(@), ![c].seen = r,
                                  ![c].iter = LatestIteration(kind[Of(c)].step) + 1]
      PROVE  LoopCalls'
  <2> DEFINE n == LatestIteration(kind[Of(c)].step) + 1
             q == <<"iterate">> \o Tail(call[c].todo)
             k == [call[c] EXCEPT !.todo = q, !.seen = r, !.iter = n]
  <2>1. call' = [call EXCEPT ![c] = k]
    BY <1>2 DEF Shaped
  <2>2. k.todo = q /\ k.iter = n /\ k.task = Of(c)
    <3>1. DOMAIN call[c] = Fields
      BY IsFields DEF Shaped
    <3> QED BY <3>1 DEF Fields, Of
  <2>3. q # <<>> /\ Tail(q) \in Seq(Plain)
    <3>1. Tail(call[c].todo) \in Seq(Plain)
      BY <1>0, Tails
    <3> QED BY <3>1, Prefixed
  <2>4. Of(c) \in link /\ LoopOf(Of(c)) = steps[kind[Of(c)].step].loop
        /\ steps[kind[Of(c)].step].loop.mode # "none"
    BY <1>2 DEF Triggers, LoopOf, NoLoop, StepOf
  <2>5. Of(c) \in 1 .. made /\ Of(c) \in Task /\ kind[Of(c)].step # 0
        /\ kind[Of(c)].step \in 0 .. Len(steps)
    BY <2>4, MadeAreTasks DEF Kinds
  <2>6. kind[Of(c)].step \in DOMAIN steps
    BY <2>5, StepsAre
  <2>7. steps[kind[Of(c)].step].loop.max \in 1 .. 20
    BY <2>4, <2>6, LoopIs
  <2>8. n \in 1 .. steps[kind[Of(c)].step].loop.max
    BY <1>2, <2>4, <2>7, LatestIs DEF Triggers
  <2> HIDE DEF k, n, q
  <2>9. LoopCall(k, steps, made, kind)
    BY <2>2, <2>3, <2>4, <2>5, <2>8 DEF LoopCall
  <2>10. LoopCall(k, steps', made', kind')
    BY <2>9, LoopCallStays
  <2>11. OthersStay(c) /\ call'[c] = k
    BY <2>1, Becoming
  <2> QED BY <2>10, <2>11, LoopCallStays DEF LoopCalls, OthersStay
<1> QED BY <1>1, <1>2 DEF CheckLoop

(* The invariant behind LoopsEnd.                                          *)
LoopInv == CallsInv /\ Kinds /\ LoopCalls /\ IterationsBounded

(* The tasks of one iteration.                                             *)
(* create_loop_iteration: what it creates follows what there was, each at  *)
(* a step of the loop and with the number the call had fixed.              *)
LEMMA Iterating ==
    ASSUME Kinds, LoopCalls, IterationsBounded, NEW c \in Caller, CreateIteration(c)
    PROVE  KindsGrow /\ Kinds' /\ IterationsBounded'
<1> DEFINE t == Of(c)
           gate == kind[t].step
           target == LoopOf(t).target
           iter == call[c].iter
           bad == FirstFailing(target, gate, iter)
           last == IF bad > gate \/ Undone(bad, target) THEN bad - 1 ELSE bad
           id == [i \in target .. last |-> made + 1 + i - target]
           new == {id[i] : i \in target .. last}
           at(n) == CHOOSE i \in target .. last : id[i] = n
<1>1. /\ Stage(c, "iterate") /\ t \in link /\ steps' = steps
      /\ made + Cardinality(new) <= MaxTasks /\ made' = made + Cardinality(new)
      /\ kind' = [u \in Task |->
             IF u \in new THEN [step |-> at(u), iter |-> iter,
                                ctx |-> LoopOf(t).mode = "until_complete"]
             ELSE kind[u]]
      /\ link' = link \cup {n \in new : at(n) < bad}
  BY DEF CreateIteration
<1>2. LoopCall(call[c], steps, made, kind) /\ call[c].todo # <<>> /\ Head(call[c].todo) = "iterate"
  BY <1>1 DEF LoopCalls, Stage
<1>3. /\ t \in 1 .. made /\ t \in Task /\ gate \in DOMAIN steps /\ gate \in 1 .. Len(steps)
      /\ LoopOf(t) = steps[gate].loop /\ LoopOf(t).mode # "none"
      /\ iter \in 1 .. steps[gate].loop.max
  <2>1. t \in 1 .. made /\ gate # 0 /\ LoopOf(t) = steps[gate].loop
    BY <1>1 DEF LoopOf, StepOf, Kinds
  <2>2. steps[gate].loop.mode # "none" /\ iter \in 1 .. steps[gate].loop.max
    BY <1>2 DEF LoopCall, Of
  <2>3. t \in Task
    BY <2>1, MadeAreTasks
  <2>4. gate \in 0 .. Len(steps)
    BY <2>3 DEF Kinds
  <2>5. gate \in 1 .. Len(steps) /\ gate \in DOMAIN steps
    <3> HIDE DEF gate
    <3> QED BY <2>1, <2>4, StepsAre
  <2> HIDE DEF t, gate, iter
  <2> QED BY <2>1, <2>2, <2>3, <2>5
<1>4. target \in 1 .. gate /\ steps[gate].loop.max \in 1 .. 20
  BY <1>3, LoopIs
<1> HIDE DEF t, iter
<1>5. bad \in target .. gate + 1
  BY <1>3, <1>4, StepsAre, FailingIs
<1>6. last \in target - 1 .. gate /\ gate \in Nat /\ target \in Nat \ {0}
  BY <1>3, <1>4, <1>5, StepsAre
<1> HIDE DEF target, gate, bad, last
<1>7. made \in Nat /\ new = made + 1 .. made + 1 + last - target
  <2>1. made \in Nat
    BY MadeAreTasks
  <2>2. \A n \in made + 1 .. made + 1 + last - target :
           n - made - 1 + target \in target .. last /\ id[n - made - 1 + target] = n
    BY <1>6, <2>1
  <2>3. \A i \in target .. last : id[i] \in made + 1 .. made + 1 + last - target
    BY <1>6, <2>1
  <2> HIDE DEF id
  <2> QED BY <2>1, <2>2, <2>3
<1>8. Cardinality(new) = last + 1 - target
  <2> HIDE DEF new
  <2>1. CASE last = target - 1
    BY <1>6, <1>7, <2>1, FS_Interval
  <2>2. CASE last # target - 1
    BY <1>6, <1>7, <2>2, FS_Interval
  <2> QED BY <2>1, <2>2
<1>9. \A u \in new : at(u) \in target .. last
  <2>1. \A u \in new : \E i \in target .. last : id[i] = u
    OBVIOUS
  <2> HIDE DEF id, new
  <2> QED BY <2>1
<1> HIDE DEF id, new, at
<1>10. made' \in 0 .. MaxTasks /\ made <= made' /\ new \subseteq 1 .. made' /\ new \cap (1 .. made) = {}
  <2>1. MaxTasks \in Nat
    BY WorkflowAssumption
  <2>2. made' = made + (last + 1 - target) /\ made' <= MaxTasks
    BY <1>1, <1>8
  <2> QED BY <1>6, <1>7, <2>1, <2>2
<1>11. \A u \in 1 .. made : kind'[u] = kind[u]
  BY <1>1, <1>10, MadeAreTasks
<1>12. KindsGrow
  BY <1>1, <1>10, <1>11 DEF KindsGrow
<1>13. \A u \in new : /\ u \in Task /\ kind'[u].step = at(u) /\ kind'[u].iter = iter
                      /\ at(u) \in target .. gate
  <2>1. new \subseteq Task
    BY <1>10, WorkflowAssumption DEF Task
  <2>2. \A u \in new : at(u) \in target .. gate
    BY <1>6, <1>9
  <2> QED BY <1>1, <2>1, <2>2
<1>14. Kinds'
  <2>1. kind' \in [Task -> [step : 0 .. Len(steps), iter : 0 .. 20, ctx : BOOLEAN]]
    <3>1. iter \in 0 .. 20
      <4> DEFINE m == steps[gate].loop.max
      <4>1. iter \in 1 .. m /\ m \in 1 .. 20
        BY <1>3, <1>4
      <4> HIDE DEF m
      <4> QED BY <4>1
    <3>2. \A u \in new : at(u) \in 0 .. Len(steps)
      BY <1>3, <1>4, <1>6, <1>9, StepsAre
    <3> QED BY <1>1, <3>1, <3>2 DEF Kinds
  <2>2. link' \subseteq 1 .. made'
    <3>1. link \subseteq 1 .. made
      BY DEF Kinds
    <3>2. 1 .. made \subseteq 1 .. made'
      BY <1>7, <1>10
    <3>3. link' \subseteq link \cup new
      BY <1>1
    <3> QED BY <1>10, <3>1, <3>2, <3>3
  <2>3. \A u \in link' : kind'[u].step # 0
    <3>1. ASSUME NEW u \in new PROVE kind'[u].step # 0
      BY <1>6, <1>13, <3>1
    <3>2. ASSUME NEW u \in link PROVE kind'[u].step # 0
      <4>1. kind[u].step # 0 /\ u \in 1 .. made
        BY <3>2 DEF Kinds
      <4> QED BY <1>11, <4>1
    <3> QED BY <1>1, <3>1, <3>2
  <2> QED BY <1>1, <1>10, <2>1, <2>2, <2>3 DEF Kinds
<1>15. IterationsBounded'
  <2> SUFFICES ASSUME NEW u \in link', kind'[u].iter > 0
               PROVE  \E g \in DOMAIN steps : /\ steps[g].loop.target <= kind'[u].step
                                              /\ kind'[u].step <= g
                                              /\ kind'[u].iter <= steps[g].loop.max
    BY <1>1 DEF IterationsBounded
  <2>1. CASE u \in new
    <3>1. /\ steps[gate].loop.target <= kind'[u].step /\ kind'[u].step <= gate
          /\ kind'[u].iter <= steps[gate].loop.max
      BY <1>3, <1>4, <1>6, <1>13, <2>1 DEF target
    <3> QED BY <1>3, <3>1
  <2>2. CASE u \notin new
    <3>1. u \in link /\ kind'[u] = kind[u]
      BY <1>1, <1>11, <2>2 DEF Kinds
    <3> QED BY <3>1 DEF IterationsBounded
  <2> QED BY <2>1, <2>2
<1> QED BY <1>12, <1>14, <1>15

(* Tasks are created by three steps; by the others nothing changes here    *)
(* but that links may go.                                                  *)
LEMMA Creating ==
    ASSUME Kinds, IterationsBounded, NEW c, NEW deps, CreateTask(c, deps)
    PROVE  KindsGrow /\ Kinds' /\ IterationsBounded'
<1>1. /\ made < MaxTasks /\ made' = made + 1 /\ kind' = [kind EXCEPT ![made + 1] = NoKind]
      /\ steps' = steps /\ link' = link
  BY DEF CreateTask, Insert
<1>2. made \in Nat /\ made' \in 0 .. MaxTasks /\ MaxTasks \in Nat
  <2>1. MaxTasks \in Nat
    BY WorkflowAssumption
  <2> QED BY <1>1, <2>1, MadeAreTasks
<1>3. \A t \in Task : t # made + 1 => kind'[t] = kind[t]
  BY <1>1 DEF Kinds
<1>4. \A t \in 1 .. made : t \in Task /\ kind'[t] = kind[t]
  BY <1>2, <1>3, MadeAreTasks
<1>5. KindsGrow
  BY <1>1, <1>2, <1>4 DEF KindsGrow
<1>6. kind' \in [Task -> [step : 0 .. Len(steps), iter : 0 .. 20, ctx : BOOLEAN]]
  <2>1. NoKind \in [step : 0 .. Len(steps), iter : 0 .. 20, ctx : BOOLEAN]
    BY StepsAre DEF NoKind
  <2>2. kind \in [Task -> [step : 0 .. Len(steps), iter : 0 .. 20, ctx : BOOLEAN]]
    BY DEF Kinds
  <2> QED BY <1>1, <2>1, <2>2
<1>7. \A t \in link : kind'[t] = kind[t] /\ t \in 1 .. made
  BY <1>4 DEF Kinds
<1>8. Kinds'
  <2>1. 1 .. made \subseteq 1 .. made'
    BY <1>1, <1>2
  <2>2. link' \subseteq 1 .. made' /\ \A t \in link' : kind'[t].step # 0
    BY <1>1, <1>7, <2>1 DEF Kinds
  <2> QED BY <1>1, <1>2, <1>6, <2>2 DEF Kinds
<1>9. IterationsBounded'
  BY <1>1, <1>7 DEF IterationsBounded
<1> QED BY <1>5, <1>8, <1>9

LEMMA Instantiating ==
    ASSUME Kinds, IterationsBounded, Instantiate
    PROVE  KindsGrow /\ Kinds' /\ IterationsBounded'
<1> DEFINE new == made + 1 .. made + Len(steps)
<1>1. /\ made + Len(steps) <= MaxTasks /\ made' = made + Len(steps) /\ steps' = steps
      /\ kind' = [t \in Task |-> IF t \in new THEN [step |-> t - made, iter |-> 0, ctx |-> FALSE]
                                 ELSE kind[t]]
      /\ link' = link \cup new
  BY DEF Instantiate
<1>2. /\ made \in Nat /\ Len(steps) \in Nat /\ made' \in 0 .. MaxTasks
      /\ new \subseteq 1 .. made' /\ 1 .. made \subseteq 1 .. made' /\ new \cap (1 .. made) = {}
      /\ new \subseteq Task
  <2>1. MaxTasks \in Nat /\ made \in Nat /\ Len(steps) \in Nat
    BY WorkflowAssumption, MadeAreTasks, StepsAre
  <2> QED BY <1>1, <2>1 DEF Task
<1>3. \A t \in 1 .. made : t \in Task /\ kind'[t] = kind[t]
  BY <1>1, <1>2, MadeAreTasks
<1>4. KindsGrow
  BY <1>1, <1>2, <1>3 DEF KindsGrow
<1>5. \A t \in new : /\ kind'[t].iter = 0 /\ kind'[t].step \in 1 .. Len(steps)
  BY <1>1, <1>2
<1>6. kind' \in [Task -> [step : 0 .. Len(steps), iter : 0 .. 20, ctx : BOOLEAN]]
  <2>1. \A t \in new : t - made \in 0 .. Len(steps)
    BY <1>2
  <2>2. kind \in [Task -> [step : 0 .. Len(steps), iter : 0 .. 20, ctx : BOOLEAN]]
    BY DEF Kinds
  <2> HIDE DEF new
  <2> QED BY <1>1, <2>1, <2>2
<1>7. \A t \in link : kind'[t] = kind[t] /\ t \in 1 .. made
  BY <1>3 DEF Kinds
<1> HIDE DEF new
<1>8. \A t \in link' : kind'[t].step # 0
  <2>1. \A t \in link : kind[t].step # 0
    BY DEF Kinds
  <2>2. \A t \in new : kind'[t].step # 0
    BY <1>5
  <2> QED BY <1>1, <1>7, <2>1, <2>2
<1>9. Kinds'
  <2>1. link' \subseteq 1 .. made'
    BY <1>1, <1>2, <1>7
  <2> QED BY <1>1, <1>2, <1>6, <1>8, <2>1 DEF Kinds
<1>10. IterationsBounded'
  <2>1. \A t \in new : ~(kind'[t].iter > 0)
    BY <1>5
  <2> QED BY <1>1, <1>7, <2>1 DEF IterationsBounded
<1> QED BY <1>4, <1>9, <1>10

LEMMA NothingCreated ==
    ASSUME Kinds, IterationsBounded, UNCHANGED <<steps, kind, made>>, link' \subseteq link
    PROVE  KindsGrow /\ Kinds' /\ IterationsBounded'
<1>1. KindsGrow
  BY MadeAreTasks DEF KindsGrow
<1>2. Kinds'
  BY DEF Kinds
<1>3. IterationsBounded'
  BY DEF IterationsBounded
<1> QED BY <1>1, <1>2, <1>3

LEMMA BeginCalls ==
    ASSUME Shaped, Kinds, KindsGrow, LoopCalls, NEW c \in Caller, BeginCall(c)
    PROVE  LoopCalls'
<1>1. ASSUME NEW o, NEW t, NEW q \in Seq(Plain), Begin(c, o, t, q) PROVE LoopCalls'
  <2>1. call' = [call EXCEPT ![c] = Call(o, t, q)]
    BY <1>1 DEF Begin
  <2>2. Call(o, t, q).todo = q
    BY DEF Call
  <2>3. OthersStay(c) /\ call'[c].todo = q
    BY <2>1, <2>2, Becoming
  <2> QED BY <2>3, PlainStep
<1>2. ASSUME NEW deps, CreateTask(c, deps) PROVE LoopCalls'
  BY <1>1, <1>2, MoreQueues DEF CreateTask
<1>3. ASSUME NEW t, BeginDelete(c, t) PROVE LoopCalls'
  BY <1>1, <1>3, MoreQueues DEF BeginDelete
<1>4. ASSUME NEW t, BeginFinish(c, t) PROVE LoopCalls'
  <2>1. PICK q \in {<<"verdict">>, <<"end">>} : Begin(c, "finish", t, q)
    BY <1>4 DEF BeginFinish
  <2> QED BY <1>1, <2>1, MoreQueues
<1>5. ASSUME NEW t, BeginMerge(c, t) PROVE LoopCalls'
  <2>1. CASE UNCHANGED call
    BY <2>1, NoStep
  <2>2. CASE Begin(c, "merge", t, <<"rebase">>)
    BY <1>1, <2>2, MoreQueues
  <2> QED BY <1>5, <2>1, <2>2 DEF BeginMerge
<1>6. ASSUME NEW t, NEW st, NEW deps, BeginUpdate(c, t, st, deps) PROVE LoopCalls'
  <2>1. PICK w : call' = [call EXCEPT ![c] = [Call("update", t, <<"store">>) EXCEPT !.writes = w]]
    BY <1>6 DEF BeginUpdate
  <2> DEFINE k == [Call("update", t, <<"store">>) EXCEPT !.writes = w]
  <2>2. k.todo = <<"store">>
    BY DEF Call
  <2> HIDE DEF k
  <2>3. OthersStay(c) /\ call'[c].todo = <<"store">>
    BY <2>1, <2>2, Becoming DEF k
  <2> QED BY <2>3, MoreQueues, PlainStep
<1> QED BY <1>2, <1>3, <1>4, <1>5, <1>6 DEF BeginCall

LEMMA LoopsInitially == Init => LoopInv
<1> SUFFICES ASSUME Init PROVE LoopInv
  OBVIOUS
<1>1. CallsInv
  BY CallsInitially
<1>2. Kinds
  <2>1. steps \in Seq(StepDef) /\ steps \in Workflows /\ MaxTasks \in Nat
    BY WorkflowAssumption DEF Init
  <2>2. NoKind \in [step : 0 .. Len(steps), iter : 0 .. 20, ctx : BOOLEAN]
    BY <2>1 DEF NoKind
  <2> QED BY <2>1, <2>2 DEF Init, Kinds
<1>3. LoopCalls
  <2>1. \A c \in Caller : call[c] = Idle
    BY DEF Init
  <2> QED BY <2>1, IdleQueue DEF LoopCalls, LoopCall
<1>4. IterationsBounded
  BY DEF Init, IterationsBounded
<1> QED BY <1>1, <1>2, <1>3, <1>4 DEF LoopInv

LEMMA TablesStay ==
    ASSUME Kinds, LoopCalls, IterationsBounded, [Next]_vars
    PROVE  KindsGrow /\ Kinds' /\ IterationsBounded'
<1> DEFINE Goal == KindsGrow /\ Kinds' /\ IterationsBounded'
<1>1. ASSUME UNCHANGED <<steps, kind, made>>, link' \subseteq link PROVE Goal
  BY <1>1, NothingCreated
<1> HIDE DEF Goal
<1>2. ASSUME NEW c \in Caller, CreateIteration(c) PROVE Goal
  BY <1>2, Iterating DEF Goal
<1>3. ASSUME NEW c \in Caller, CallStep(c), ~CreateIteration(c) PROVE Goal
  <2>1. CASE Erase(c)
    BY <1>1, <2>1 DEF Erase, Unlinked
  <2>2. CASE DispatchNext(c)
    BY <1>1, <2>2 DEF DispatchNext, Start, rowVars
  <2> QED BY <1>1, <1>3, <2>1, <2>2
          DEF CallStep, Refresh, Apply, CheckLoop, MarkLooped, CheckCompletion, Cleanup,
              StoreUpdate, WriteVerdict, EndFinish, Rebase, Land, LandFails, StoreDone, Prune,
              Merged, rowVars
<1>4. ASSUME NEW c \in Caller, BeginCall(c) PROVE Goal
  <2>1. ASSUME NEW deps, CreateTask(c, deps) PROVE Goal
    BY <2>1, Creating DEF Goal
  <2> QED BY <1>1, <1>4, <2>1
          DEF BeginCall, BeginDelete, BeginFinish, BeginMerge, BeginUpdate, rowVars
<1>5. CASE Instantiate
  BY <1>5, Instantiating DEF Goal
<1>6. ASSUME NEW t, DispatchTask(t) \/ ApproveReview(t) \/ RejectReview(t) PROVE Goal
  BY <1>1, <1>6 DEF DispatchTask, Start, ApproveReview, RejectReview, rowVars
<1>7. ASSUME steps' = steps, kind' = kind, made' = made, link' = link PROVE Goal
  BY <1>1, <1>7
<1>8. CASE Crash
  <2>1. steps' = steps /\ kind' = kind /\ made' = made /\ link' = link
    BY <1>8 DEF Crash
  <2> QED BY <1>7, <2>1 DEF Goal
<1>9. CASE UNCHANGED vars
  <2>1. steps' = steps /\ kind' = kind /\ made' = made /\ link' = link
    BY <1>9 DEF vars, rowVars
  <2> QED BY <1>7, <2>1 DEF Goal
<1> QED BY <1>2, <1>3, <1>4, <1>5, <1>6, <1>8, <1>9 DEF Next, Goal

LEMMA LoopsStay == WorkflowAssumption /\ LoopInv /\ [Next]_vars => LoopInv'
<1> SUFFICES ASSUME WorkflowAssumption, LoopInv, [Next]_vars PROVE LoopInv'
  OBVIOUS
<1>1. CallsInv' /\ Shaped /\ Kinds /\ LoopCalls /\ IterationsBounded
  BY CallsStay DEF LoopInv, CallsInv
<1>2. KindsGrow /\ Kinds' /\ IterationsBounded'
  BY <1>1, TablesStay
<1>3. LoopCalls'
  <2>1. CASE UNCHANGED call
    BY <1>1, <1>2, <2>1, NoStep
  <2>2. ASSUME NEW c \in Caller, CallStep(c) PROVE LoopCalls'
    BY <1>1, <1>2, <2>2, OrdinaryCalls, LoopSteps
  <2>3. ASSUME NEW c \in Caller, BeginCall(c) PROVE LoopCalls'
    BY <1>1, <1>2, <2>3, BeginCalls
  <2>4. CASE Crash
    <3>1. \A c \in Caller : call'[c] = Idle
      BY <2>4 DEF Crash
    <3> QED BY <3>1, IdleQueue DEF LoopCalls, LoopCall
  <2> QED BY <2>1, <2>2, <2>3, <2>4
          DEF Next, Instantiate, DispatchTask, ApproveReview, RejectReview, vars
<1> QED BY <1>1, <1>2, <1>3 DEF LoopInv

(* check_loop_trigger and create_loop_iteration: max_iterations bounds the *)
(* iterations of every step of a loop, although the count is read one step *)
(* before the iteration is created and other calls come between.           *)
THEOREM LoopsEnd == Spec => []IterationsBounded
<1>1. WorkflowAssumption
  BY WorkflowAssumption
<1>2. LoopInv => IterationsBounded
  BY DEF LoopInv
<1> QED BY <1>1, <1>2, LoopsInitially, LoopsStay, PTL DEF Spec

-----------------------------------------------------------------------------
(* What agents start on.                                                   *)
(* What starting in order needs: the users' calls wait for one another, no *)
(* task is moved out of Done or into Review by hand, and loops are of      *)
(* failures.  Without any one of these an agent may start on a task whose  *)
(* dependencies are not Done.                                              *)
Orderly ==
    /\ ~Overlap
    /\ \A m \in Moves : m[1] # "Done" /\ m[2] # "Review"
    /\ \A w \in Workflows : \A i \in DOMAIN w : w[i].loop.mode # "until_complete"

(* What each handler may have left to do.                                  *)
JudgedStages == {<<"complete", "cleanup", "end">>, <<"cleanup", "end">>, <<"end">>}
FailedStages == {<<"loop", "cleanup", "end">>, <<"iterate", "cleanup", "end">>,
                 <<"mark", "cleanup", "end">>}
FinishStagesAll == {<<"verdict">>} \cup FailedStages \cup JudgedStages
UpdateStages == {<<"store">>, <<"refresh", "cleanup", "loop">>, <<"apply", "cleanup", "loop">>,
                 <<"cleanup", "loop">>, <<"loop">>, <<"iterate">>, <<"mark">>, <<"complete">>,
                 <<"refresh">>, <<"apply">>, <<>>}
DeleteStages == {<<"cleanup", "erase", "refresh">>, <<"erase", "refresh">>, <<"refresh">>,
                 <<"apply">>, <<>>}
CreateStages == {<<"refresh">>, <<"apply">>, <<>>}

Staged(o, q) ==
    \/ o = "none" /\ q = <<>>
    \/ o = "merge" /\ q \in MergeStages
    \/ o = "finish" /\ q \in FinishStagesAll
    \/ o = "update" /\ q \in UpdateStages
    \/ o = "delete" /\ q \in DeleteStages
    \/ o = "create" /\ q \in CreateStages

Solo(o) == o \notin {"none", "finish"}

(* What one puts in front of a queue.                                      *)
LEMMA Joined ==
    ASSUME NEW S, NEW p \in Seq(S), NEW q \in Seq(S), NEW r \in Seq(S), Len(r) = Len(p) + Len(q),
           \A i \in 1 .. Len(r) : r[i] = IF i <= Len(p) THEN p[i] ELSE q[i - Len(p)]
    PROVE  p \o q = r
<1>1. /\ Len(p \o q) = Len(p) + Len(q) /\ p \o q \in Seq(S)
      /\ \A i \in 1 .. Len(p) + Len(q) : (p \o q)[i] = IF i <= Len(p) THEN p[i] ELSE q[i - Len(p)]
  BY ConcatProperties
<1> QED BY <1>1, SeqEqual

LEMMA PutOne ==
    ASSUME NEW a
    PROVE  <<a>> \o <<>> = <<a>>
<1> DEFINE S == {a}
<1>1. <<a>> \in Seq(S) /\ <<>> \in Seq(S) /\ <<a>> \in Seq(S)
  OBVIOUS
<1>2. /\ Len(<<a>>) = Len(<<a>>) + Len(<<>>)
      /\ \A i \in 1 .. Len(<<a>>) :
            <<a>>[i] = IF i <= Len(<<a>>) THEN <<a>>[i] ELSE <<>>[i - Len(<<a>>)]
  OBVIOUS
<1> HIDE DEF S
<1> QED BY <1>1, <1>2, Joined

LEMMA PutTwo ==
    ASSUME NEW a, NEW b
    PROVE  <<a>> \o <<b>> = <<a, b>>
<1> DEFINE S == {a, b}
<1>1. <<a>> \in Seq(S) /\ <<b>> \in Seq(S) /\ <<a, b>> \in Seq(S)
  OBVIOUS
<1>2. /\ Len(<<a, b>>) = Len(<<a>>) + Len(<<b>>)
      /\ \A i \in 1 .. Len(<<a, b>>) :
            <<a, b>>[i] = IF i <= Len(<<a>>) THEN <<a>>[i] ELSE <<b>>[i - Len(<<a>>)]
  OBVIOUS
<1> HIDE DEF S
<1> QED BY <1>1, <1>2, Joined

LEMMA PutThree ==
    ASSUME NEW a, NEW b, NEW d
    PROVE  <<a>> \o <<b, d>> = <<a, b, d>>
<1> DEFINE S == {a, b, d}
<1>1. <<a>> \in Seq(S) /\ <<b, d>> \in Seq(S) /\ <<a, b, d>> \in Seq(S)
  OBVIOUS
<1>2. /\ Len(<<a, b, d>>) = Len(<<a>>) + Len(<<b, d>>)
      /\ \A i \in 1 .. Len(<<a, b, d>>) :
            <<a, b, d>>[i] = IF i <= Len(<<a>>) THEN <<a>>[i] ELSE <<b, d>>[i - Len(<<a>>)]
  OBVIOUS
<1> HIDE DEF S
<1> QED BY <1>1, <1>2, Joined

LEMMA PutNone ==
    ASSUME NEW b, NEW d
    PROVE  <<>> \o <<b, d>> = <<b, d>>
<1> DEFINE S == {b, d}
<1>1. <<>> \in Seq(S) /\ <<b, d>> \in Seq(S) /\ <<b, d>> \in Seq(S)
  OBVIOUS
<1>2. /\ Len(<<b, d>>) = Len(<<>>) + Len(<<b, d>>)
      /\ \A i \in 1 .. Len(<<b, d>>) :
            <<b, d>>[i] = IF i <= Len(<<>>) THEN <<>>[i] ELSE <<b, d>>[i - Len(<<>>)]
  OBVIOUS
<1> HIDE DEF S
<1> QED BY <1>1, <1>2, Joined

LEMMA Queued ==
    /\ <<>> \o <<>> = <<>>
    /\ \A a : <<a>> \o <<>> = <<a>> /\ Tail(<<a>>) = <<>>
    /\ \A a, b : <<a>> \o <<b>> = <<a, b>> /\ Tail(<<a, b>>) = <<b>> /\ <<>> \o <<a, b>> = <<a, b>>
    /\ \A a, b, d : <<a>> \o <<b, d>> = <<a, b, d>> /\ Tail(<<a, b, d>>) = <<b, d>>
<1>1. /\ <<>> \o <<>> = <<>> /\ \A a : Tail(<<a>>) = <<>>
      /\ \A a, b : Tail(<<a, b>>) = <<b>> /\ \A a1, b1, d : Tail(<<a1, b1, d>>) = <<b1, d>>
  OBVIOUS
<1> QED BY <1>1, PutOne, PutTwo, PutThree, PutNone

LEMMA Pieces ==
    /\ Tail(<<"loop">>) = <<>> /\ Tail(<<"loop", "cleanup", "end">>) = <<"cleanup", "end">>
    /\ Tail(<<"iterate">>) = <<>> /\ Tail(<<"iterate", "cleanup", "end">>) = <<"cleanup", "end">>
    /\ Tail(<<"mark">>) = <<>> /\ Tail(<<"mark", "cleanup", "end">>) = <<"cleanup", "end">>
    /\ Tail(<<"complete">>) = <<>> /\ Tail(<<"complete", "cleanup", "end">>) = <<"cleanup", "end">>
    /\ Tail(<<"complete", "merged">>) = <<"merged">>
    /\ Tail(<<"cleanup", "loop">>) = <<"loop">> /\ Tail(<<"cleanup", "end">>) = <<"end">>
    /\ Tail(<<"cleanup", "erase", "refresh">>) = <<"erase", "refresh">>
    /\ Tail(<<"erase", "refresh">>) = <<"refresh">> /\ Tail(<<"end">>) = <<>>
    /\ Tail(<<"apply">>) = <<>> /\ Tail(<<"apply", "cleanup", "loop">>) = <<"cleanup", "loop">>
    /\ Tail(<<"apply", "complete", "merged">>) = <<"complete", "merged">>
    /\ <<"complete">> \o <<>> = <<"complete">> /\ <<"iterate">> \o <<>> = <<"iterate">>
    /\ <<"mark">> \o <<>> = <<"mark">> /\ <<"refresh">> \o <<>> = <<"refresh">> /\ <<>> \o <<>> = <<>>
    /\ <<"complete">> \o <<"cleanup", "end">> = <<"complete", "cleanup", "end">>
    /\ <<"iterate">> \o <<"cleanup", "end">> = <<"iterate", "cleanup", "end">>
    /\ <<"mark">> \o <<"cleanup", "end">> = <<"mark", "cleanup", "end">>
    /\ <<>> \o <<"cleanup", "end">> = <<"cleanup", "end">>
BY Queued

(* The stage a handler is at says what is left.                            *)
LEMMA Remaining ==
    ASSUME NEW o, NEW q, Staged(o, q), q # <<>>
    PROVE  /\ Head(q) = "refresh" =>
                 \/ o = "merge" /\ q = <<"refresh", "complete", "merged">>
                 \/ o = "update" /\ q = <<"refresh", "cleanup", "loop">>
                 \/ o \in {"update", "create", "delete"} /\ q = <<"refresh">>
           /\ Head(q) = "apply" =>
                 \/ o = "merge" /\ q = <<"apply", "complete", "merged">>
                 \/ o = "update" /\ q = <<"apply", "cleanup", "loop">>
                 \/ o \in {"update", "create", "delete"} /\ q = <<"apply">>
           /\ Head(q) = "loop" =>
                 \/ o = "update" /\ q = <<"loop">>
                 \/ o = "finish" /\ q = <<"loop", "cleanup", "end">>
           /\ Head(q) = "iterate" =>
                 \/ o = "update" /\ q = <<"iterate">>
                 \/ o = "finish" /\ q = <<"iterate", "cleanup", "end">>
           /\ Head(q) = "mark" =>
                 \/ o = "update" /\ q = <<"mark">>
                 \/ o = "finish" /\ q = <<"mark", "cleanup", "end">>
           /\ Head(q) = "complete" =>
                 \/ o = "merge" /\ q = <<"complete", "merged">>
                 \/ o = "update" /\ q = <<"complete">>
                 \/ o = "finish" /\ q = <<"complete", "cleanup", "end">>
           /\ Head(q) = "cleanup" =>
                 \/ o = "update" /\ q = <<"cleanup", "loop">>
                 \/ o = "delete" /\ q = <<"cleanup", "erase", "refresh">>
                 \/ o = "finish" /\ q = <<"cleanup", "end">>
           /\ Head(q) = "store" => o = "update" /\ q = <<"store">>
           /\ Head(q) = "erase" => o = "delete" /\ q = <<"erase", "refresh">>
           /\ Head(q) = "verdict" => o = "finish" /\ q = <<"verdict">>
           /\ Head(q) = "end" => o = "finish" /\ q = <<"end">>
           /\ Head(q) = "rebase" => o = "merge" /\ q = <<"rebase">>
           /\ Head(q) = "land" => o = "merge" /\ q = <<"land">>
           /\ Head(q) = "landed" => o = "merge" /\ q = <<"landed">>
           /\ Head(q) = "prune" => o = "merge" /\ q = <<"prune", "refresh", "complete", "merged">>
           /\ Head(q) = "merged" => o = "merge" /\ q = <<"merged">>
           /\ o # "none"
<1>1. CASE o = "none"
  BY <1>1 DEF Staged
<1>2. CASE o = "merge"
  BY <1>2 DEF Staged, MergeStages
<1>3. CASE o = "finish"
  BY <1>3 DEF Staged, FinishStagesAll, FailedStages, JudgedStages
<1>4. CASE o = "update"
  BY <1>4 DEF Staged, UpdateStages
<1>5. CASE o = "delete"
  BY <1>5 DEF Staged, DeleteStages
<1>6. CASE o = "create"
  BY <1>6 DEF Staged, CreateStages
<1> QED BY <1>1, <1>2, <1>3, <1>4, <1>5, <1>6 DEF Staged

-----------------------------------------------------------------------------
(* Rows, and a row with one column changed.                                *)
IsRow(r) == /\ r = [st |-> r.st, deps |-> r.deps, complete |-> r.complete]
            /\ r.st = "none" => r = NoRow

WithStatus(r, s) == [r EXCEPT !.st = s]
WithDeps(r, d) == [r EXCEPT !.deps = d]
WithBoth(r, d, s) == [r EXCEPT !.deps = d, !.st = s]
WithAsked(r, s, d) == [r EXCEPT !.st = s, !.deps = d]
WithVerdict(r, s, b) == [r EXCEPT !.st = s, !.complete = b]

LEMMA RowStatus ==
    ASSUME NEW r, IsRow(r), NEW s, s # "none"
    PROVE  IsRow(WithStatus(r, s)) /\ WithStatus(r, s).st = s /\ WithStatus(r, s).deps = r.deps
<1>1. WithStatus(r, s) = [st |-> s, deps |-> r.deps, complete |-> r.complete]
  BY DEF IsRow, WithStatus
<1> QED BY <1>1 DEF IsRow, WithStatus

LEMMA RowDeps ==
    ASSUME NEW r, IsRow(r), r.st # "none", NEW d
    PROVE  IsRow(WithDeps(r, d)) /\ WithDeps(r, d).st = r.st
<1>1. WithDeps(r, d) = [st |-> r.st, deps |-> d, complete |-> r.complete]
  BY DEF IsRow, WithDeps
<1> QED BY <1>1 DEF IsRow, WithDeps

LEMMA RowBoth ==
    ASSUME NEW r, IsRow(r), NEW s, s # "none", NEW d
    PROVE  IsRow(WithBoth(r, d, s)) /\ WithBoth(r, d, s).st = s /\ WithBoth(r, d, s).deps = d
<1>1. [r EXCEPT !.deps = d, !.st = s] = [st |-> s, deps |-> d, complete |-> r.complete]
  <2> DEFINE p == [r EXCEPT !.deps = d]
  <2>1. p = [st |-> r.st, deps |-> d, complete |-> r.complete]
    BY DEF IsRow
  <2> HIDE DEF p
  <2>2. [p EXCEPT !.st = s] = [st |-> s, deps |-> d, complete |-> r.complete]
    BY <2>1
  <2> QED BY <2>2 DEF p
<1> QED BY <1>1 DEF IsRow, WithBoth

LEMMA RowAsked ==
    ASSUME NEW r, IsRow(r), NEW s, s # "none", NEW d
    PROVE  IsRow(WithAsked(r, s, d)) /\ WithAsked(r, s, d).st = s /\ WithAsked(r, s, d).deps = d
<1>1. [r EXCEPT !.st = s, !.deps = d] = [st |-> s, deps |-> d, complete |-> r.complete]
  <2> DEFINE p == [r EXCEPT !.st = s]
  <2>1. p = [st |-> s, deps |-> r.deps, complete |-> r.complete]
    BY DEF IsRow
  <2> HIDE DEF p
  <2>2. [p EXCEPT !.deps = d] = [st |-> s, deps |-> d, complete |-> r.complete]
    BY <2>1
  <2> QED BY <2>2 DEF p
<1> QED BY <1>1 DEF IsRow, WithAsked

LEMMA RowVerdict ==
    ASSUME NEW r, IsRow(r), NEW s, s # "none", NEW b
    PROVE  IsRow(WithVerdict(r, s, b)) /\ WithVerdict(r, s, b).st = s
<1>1. [r EXCEPT !.st = s, !.complete = b] = [st |-> s, deps |-> r.deps, complete |-> b]
  <2> DEFINE p == [r EXCEPT !.st = s]
  <2>1. p = [st |-> s, deps |-> r.deps, complete |-> r.complete]
    BY DEF IsRow
  <2> HIDE DEF p
  <2>2. [p EXCEPT !.complete = b] = [st |-> s, deps |-> r.deps, complete |-> b]
    BY <2>1
  <2> QED BY <2>2 DEF p
<1> QED BY <1>1 DEF IsRow, WithVerdict

(* What a call holds agrees with the tables r and j: what it will store is *)
(* Done exactly for rows that are, and Ready only where the dependencies   *)
(* are Done; a merge that has stored its row has a Done task, and a gate   *)
(* whose loop is being looked at as failed is not Done.                    *)
Held(k, r, j) ==
    \A u \in DOMAIN k.writes :
        /\ u \in Task /\ r[u] # NoRow /\ IsRow(k.writes[u]) /\ k.writes[u].st # "none"
        /\ k.todo # <<"store">> =>
              /\ k.writes[u].st = "Done" <=> r[u].st = "Done"
              /\ k.writes[u].st = "Ready" => j[u] \subseteq Done(r)

Updating(k, r) ==
    k.todo = <<"store">> =>
        LET t == k.task  w == k.writes[k.task]
        IN  /\ DOMAIN k.writes = {t}
            /\ r[t].st = "Done" <=> k.seen.st = "Done"
            /\ k.seen.st = "Done" => w.st = "Done"
            /\ w.st = "Done" => k.seen.st \in {"Review", "Done"}
            /\ w.st = "Review" => k.seen.st = "Review"
            /\ w.st = "Ready" => w.deps \subseteq Done(r)

Landed(k, r) ==
    k.op = "merge" =>
        /\ r[k.task] # NoRow
        /\ k.todo \in {<<"rebase">>, <<"land">>, <<"landed">>} \/ r[k.task].st = "Done"

Gate(k, r) ==
    /\ k.op = "update" /\ k.todo # <<"store">> /\ k.seen.st = "Failed" => r[k.task].st # "Done"
    /\ k.todo \in {<<"iterate">>, <<"mark">>} \cup FailedStages => k.seen.st = "Failed"

Fact(k, r, j) ==
    /\ Staged(k.op, k.todo) /\ (k.op = "none" => k = Idle) /\ IsRow(k.seen)
    /\ k.op \notin {"none", "create"} => k.task \in Task
    /\ k.next = None \/ (Solo(k.op) /\ k.next \in Task)
    /\ k.todo # <<"store">> /\ (k.todo = <<>> \/ Head(k.todo) # "apply") => DOMAIN k.writes = {}
    /\ Held(k, r, j) /\ Updating(k, r) /\ Landed(k, r) /\ Gate(k, r)

Facts == \A c \in Caller : Fact(call[c], row, join)

(* One call at a time besides those of agents that end, each of which is   *)
(* about an agent of its own.                                              *)
Alone == \A c, d \in Caller : Solo(call[c].op) /\ Solo(call[d].op) => c = d

Finishing == \A c \in Caller : call[c].op = "finish" =>
    /\ Of(c) \in running
    /\ \A d \in Caller : call[d].op = "finish" /\ Of(d) = Of(c) => c = d

(* The agent's verdict on a task is not known, or is that it failed.       *)
Judging(t) ==
    /\ t \in running
    /\ \A c \in Caller : call[c].op = "finish" /\ Of(c) = t => call[c].todo \notin JudgedStages

(* Nothing of a review of the task is about.                               *)
Untold(k, t) ==
    /\ k.op = "merge" => k.task # t
    /\ k.op = "update" /\ k.todo = <<"store">> /\ k.task = t => k.seen.st # "Review"
    /\ t \in DOMAIN k.writes => k.writes[t].st # "Review"

Unreviewed(t) ==
    /\ review[t] = "none" /\ queue[t] = "none" /\ row[t].st \notin {"Review", "Done"}
    /\ \A c \in Caller : Untold(call[c], t)

(* Neither is it before the verdict, nor before the task was started.      *)
Judged == \A t \in Task :
    /\ Judging(t) => t \in branches
    /\ Judging(t) \/ (t \notin branches /\ row[t].st # "Done") => Unreviewed(t)

Tables ==
    /\ row = [t \in Task |-> row[t]] /\ join = [t \in Task |-> join[t]]
    /\ review = [t \in Task |-> review[t]] /\ queue = [t \in Task |-> queue[t]]
    /\ \A t \in Task :
          /\ IsRow(row[t])
          /\ review[t] # "none" \/ queue[t] # "none" => row[t] # NoRow
          /\ t > made => row[t] = NoRow

ReadyAfterDeps == \A t \in Task : row[t].st = "Ready" => join[t] \subseteq Done(row)

(* No task was created in an until_complete iteration.                     *)
Unpromised == \A t \in Task : ~kind[t].ctx

OrderInv == LoopInv /\ Unpromised /\ Facts /\ Alone /\ Finishing /\ Judged /\ Tables /\ ReadyAfterDeps

(* Tables that a call which does not move sees no difference in.           *)
Alike(r, j, r2, j2) ==
    /\ \A t \in Task : r[t].st = "Done" <=> r2[t].st = "Done"
    /\ \A t \in Task : r[t] # NoRow /\ j[t] \subseteq Done(r) => j2[t] \subseteq Done(r2)
    /\ \A t \in Task : r[t] # NoRow => r2[t] # NoRow

LEMMA FactStays ==
    ASSUME NEW k, NEW r, NEW j, NEW r2, NEW j2, Fact(k, r, j),
           Solo(k.op) => Alike(r, j, r2, j2)
    PROVE  Fact(k, r2, j2)
<1>1. CASE ~Solo(k.op)
  <2>1. k.op \in {"none", "finish"} /\ k.todo # <<"store">> /\ DOMAIN k.writes = {}
    <3>1. CASE k.op = "none"
      <4>1. k = Idle
        BY <3>1 DEF Fact
      <4> QED BY <4>1 DEF Idle
    <3>2. CASE k.op = "finish"
      BY <1>1, <3>2 DEF Fact, Solo, Staged, FinishStagesAll, FailedStages, JudgedStages
    <3> QED BY <1>1, <3>1, <3>2 DEF Solo
  <2>2. Held(k, r2, j2) /\ Updating(k, r2) /\ Landed(k, r2)
    BY <2>1 DEF Held, Updating, Landed
  <2>3. Gate(k, r2)
    BY <2>1 DEF Gate, Fact
  <2> QED BY <2>1, <2>2, <2>3 DEF Fact
<1>2. CASE Solo(k.op)
  <2>1. Alike(r, j, r2, j2) /\ Done(r) = Done(r2)
    BY <1>2 DEF Alike, Done
  <2>2. Held(k, r2, j2)
    BY <2>1 DEF Fact, Held, Alike
  <2>3. Updating(k, r2)
    <3>1. k.todo = <<"store">> => k.task \in Task /\ k.op = "update"
      BY <1>2 DEF Fact, Solo, Staged, MergeStages, DeleteStages, CreateStages
    <3> QED BY <2>1, <3>1 DEF Fact, Updating, Alike
  <2>4. Landed(k, r2)
    BY <2>1 DEF Fact, Landed, Alike
  <2>5. Gate(k, r2)
    BY <2>1 DEF Fact, Gate, Alike
  <2> QED BY <2>2, <2>3, <2>4, <2>5 DEF Fact
<1> QED BY <1>1, <1>2

LEMMA AlikeSame ==
    ASSUME NEW r, NEW j PROVE Alike(r, j, r, j)
BY DEF Alike

(* A call moves and stays the call it is, or returns.                      *)
Onwards(c) ==
    /\ OthersStay(c)
    /\ call'[c] = Idle \/ (call'[c].op = call[c].op /\ call'[c].task = call[c].task)

LEMMA OthersHold ==
    ASSUME Facts, Alone, NEW c \in Caller, OthersStay(c), Fact(call'[c], row', join'),
           Solo(call[c].op) \/ Alike(row, join, row', join')
    PROVE  Facts'
<1>1. ASSUME NEW d \in Caller PROVE Fact(call'[d], row', join')
  <2>1. CASE d = c
    BY <2>1
  <2>2. CASE d # c
    <3>1. call'[d] = call[d] /\ Fact(call[d], row, join)
      BY <2>2 DEF OthersStay, Facts
    <3>2. Solo(call[d].op) => Alike(row, join, row', join')
      BY <2>2 DEF Alone
    <3> QED BY <3>1, <3>2, FactStays
  <2> QED BY <2>1, <2>2
<1> QED BY <1>1 DEF Facts

LEMMA IdleFact ==
    ASSUME NEW r, NEW j PROVE Fact(Idle, r, j) /\ ~Solo(Idle.op) /\ Idle.op = "none"
BY DEF Fact, Idle, Staged, IsRow, NoRow, Solo, Held, Updating, Landed, Gate, FailedStages

LEMMA AloneStays ==
    ASSUME Alone, NEW c \in Caller, Onwards(c) PROVE Alone'
<1>1. \A d \in Caller : Solo(call'[d].op) => Solo(call[d].op)
  BY IdleFact DEF Onwards, OthersStay
<1> QED BY <1>1 DEF Alone

LEMMA FinishingStays ==
    ASSUME Finishing, NEW c \in Caller, Onwards(c),
           \A t \in running \ running' : call[c].op = "finish" /\ Of(c) = t /\ call'[c] = Idle
    PROVE  Finishing'
<1>1. \A d \in Caller : call'[d].op = "finish" =>
          call[d].op = "finish" /\ call'[d].task = call[d].task /\ call'[d] # Idle
  BY IdleFact DEF Onwards, OthersStay
<1>2. ASSUME NEW d \in Caller, call'[d].op = "finish"
      PROVE  call'[d].task \in running'
  <2>1. call[d].task \in running
    BY <1>1, <1>2 DEF Finishing, Of
  <2>2. ASSUME call[d].task \notin running' PROVE FALSE
    <3>1. call[c].op = "finish" /\ call[c].task = call[d].task /\ call'[c] = Idle
      BY <2>1, <2>2 DEF Of
    <3>2. c = d
      BY <1>1, <1>2, <3>1 DEF Finishing, Of
    <3> QED BY <1>1, <1>2, <3>1, <3>2
  <2> QED BY <1>1, <1>2, <2>2
<1>3. ASSUME NEW d \in Caller, NEW e \in Caller, call'[d].op = "finish", call'[e].op = "finish",
             call'[d].task = call'[e].task
      PROVE  d = e
  BY <1>1, <1>3 DEF Finishing, Of
<1> QED BY <1>2, <1>3 DEF Finishing, Of

(* Judging ends; it begins when a task is started.                         *)
LEMMA JudgingStays ==
    ASSUME NEW c \in Caller, OthersStay(c), NEW t, Judging(t)', t \in running' => t \in running,
           call[c].op = "finish" /\ call[c].todo \in JudgedStages =>
               \/ Of(c) \notin running'
               \/ call'[c].op = "finish" /\ call'[c].task = call[c].task /\ call'[c].todo \in JudgedStages
    PROVE  Judging(t)
<1>1. t \in running' /\ \A d \in Caller : call'[d].op = "finish" /\ call'[d].task = t => call'[d].todo \notin JudgedStages
  BY DEF Judging, Of
<1>2. ASSUME NEW d \in Caller, call[d].op = "finish", call[d].task = t, call[d].todo \in JudgedStages
      PROVE  FALSE
  <2>1. CASE d # c
    BY <1>1, <1>2, <2>1 DEF OthersStay
  <2>2. CASE d = c
    BY <1>1, <1>2, <2>2 DEF Of
  <2> QED BY <2>1, <2>2
<1> QED BY <1>1, <1>2 DEF Judging, Of

LEMMA UnreviewedStays ==
    ASSUME NEW c \in Caller, OthersStay(c), NEW t, Unreviewed(t), review'[t] = "none", queue'[t] = "none",
           row'[t].st \notin {"Review", "Done"}, Untold(call'[c], t)
    PROVE  Unreviewed(t)'
<1>1. ASSUME NEW d \in Caller PROVE Untold(call'[d], t)
  BY DEF Unreviewed, OthersStay
<1>2. \A d \in Caller : Untold(call'[d], t)
  BY <1>1
<1>3. (\A d \in Caller : Untold(call[d], t))'
  BY <1>2 DEF Untold
<1> QED BY <1>3 DEF Unreviewed

LEMMA JudgedStays ==
    ASSUME Judged,
           \A t \in Task : Judging(t)' =>
                 t \in branches' /\ (Judging(t) \/ (t \notin branches /\ row[t].st # "Done")),
           \A t \in Task : t \notin branches' /\ row'[t].st # "Done" =>
                 (t \notin branches /\ row[t].st # "Done") \/ Unreviewed(t)',
           \A t \in Task : Unreviewed(t) /\ (Judging(t)' \/ t \notin branches') => Unreviewed(t)'
    PROVE  Judged'
<1>1. ASSUME NEW t \in Task
      PROVE  /\ Judging(t)' => t \in branches'
             /\ Judging(t)' \/ (t \notin branches' /\ row'[t].st # "Done") => Unreviewed(t)'
  BY DEF Judged
<1> QED BY <1>1 DEF Judged

(* A step that stores what other calls see no difference in.               *)
LEMMA AlikeStep ==
    ASSUME OrderInv, NEW c \in Caller, Onwards(c), Fact(call'[c], row', join'),
           Alike(row, join, row', join'), Tables', ReadyAfterDeps', UNCHANGED <<running, branches>>,
           \A t \in Task : Unreviewed(t) =>
               row'[t].st # "Review" /\ review'[t] = "none" /\ queue'[t] = "none",
           call[c].op = "finish" /\ call[c].todo \in JudgedStages =>
               call'[c].op = "finish" /\ call'[c].todo \in JudgedStages,
           \A t \in Task : Untold(call[c], t) => Untold(call'[c], t)
    PROVE  Facts' /\ Alone' /\ Finishing' /\ Judged' /\ Tables' /\ ReadyAfterDeps'
<1> USE DEF OrderInv
<1>1. Facts'
  BY OthersHold DEF Onwards
<1>2. Alone' /\ Finishing'
  BY AloneStays, FinishingStays
<1>3. Judged'
  <2>1. ASSUME NEW t \in Task, Judging(t)' PROVE t \in branches' /\ Judging(t)
    <3>1. call[c].op = "finish" /\ call[c].todo \in JudgedStages =>
             call'[c].op = "finish" /\ call'[c].task = call[c].task /\ call'[c].todo \in JudgedStages
      BY IdleFact DEF Onwards
    <3>2. Judging(t)
      BY <2>1, <3>1, JudgingStays DEF Onwards
    <3> QED BY <3>2 DEF Judged
  <2>2. ASSUME NEW t \in Task, Unreviewed(t) PROVE Unreviewed(t)'
    <3>1. Untold(call'[c], t)
      BY <2>2 DEF Unreviewed
    <3>2. row'[t].st # "Done"
      BY <2>2 DEF Unreviewed, Alike
    <3> QED BY <2>2, <3>1, <3>2, UnreviewedStays DEF Onwards
  <2>3. \A t \in Task : row'[t].st # "Done" => row[t].st # "Done"
    BY DEF Alike
  <2> QED BY <2>1, <2>2, <2>3, JudgedStays
<1> QED BY <1>1, <1>2, <1>3

(* A step that leaves the tables as they are.                              *)
LEMMA QuietStep ==
    ASSUME OrderInv, NEW c \in Caller, Onwards(c), Fact(call'[c], row, join),
           UNCHANGED <<row, join, made, review, running, branches>>,
           queue' = [t \in Task |-> queue'[t]], \A t \in Task : queue'[t] # "none" => queue[t] # "none",
           call[c].op = "finish" /\ call[c].todo \in JudgedStages =>
               call'[c].op = "finish" /\ call'[c].todo \in JudgedStages,
           \A t \in Task : Untold(call[c], t) => Untold(call'[c], t)
    PROVE  Facts' /\ Alone' /\ Finishing' /\ Judged' /\ Tables' /\ ReadyAfterDeps'
<1>1. Tables'
  BY DEF Tables, OrderInv
<1>2. ReadyAfterDeps'
  BY DEF ReadyAfterDeps, Done, OrderInv
<1>3. \A t \in Task : Unreviewed(t) =>
          row'[t].st # "Review" /\ review'[t] = "none" /\ queue'[t] = "none"
  BY DEF Unreviewed
<1>4. Alike(row, join, row', join')
  BY AlikeSame
<1> QED BY <1>1, <1>2, <1>3, <1>4, AlikeStep

(* A call that goes on with what is left.                                  *)
Same(k, n) == n.op = k.op /\ n.task = k.task /\ n.seen = k.seen /\ n.writes = k.writes /\ n.next = k.next

LEMMA Going ==
    ASSUME Shaped, NEW c \in Caller, NEW q, Continue(c, q)
    PROVE  /\ OthersStay(c)
           /\ IF q = <<>> /\ call[c].next = None THEN call'[c] = Idle
              ELSE call'[c].todo = q /\ Same(call[c], call'[c])
<1> DEFINE k == [call[c] EXCEPT !.todo = q]
<1>1. k.todo = q /\ Same(call[c], k)
  <2>1. DOMAIN call[c] = Fields
    BY IsFields DEF Shaped
  <2> QED BY <2>1 DEF Fields, Same
<1>2. call' = [call EXCEPT ![c] = Goes(k)]
  BY DEF Continue, Shaped
<1> HIDE DEF k
<1>3. OthersStay(c) /\ call'[c] = Goes(k)
  BY <1>2, Becoming
<1> QED BY <1>1, <1>3 DEF Goes, Same

LEMMA FactMoves ==
    ASSUME NEW k, NEW n, NEW r, NEW j, Fact(k, r, j), Same(k, n), Staged(k.op, n.todo),
           k.todo # <<>>, Head(k.todo) \notin {"apply", "store"}, n.todo # <<"store">>,
           k.op = "merge" /\ n.todo \notin {<<"rebase">>, <<"land">>, <<"landed">>} => r[k.task].st = "Done",
           n.todo \in {<<"iterate">>, <<"mark">>} \cup FailedStages => k.seen.st = "Failed"
    PROVE  Fact(n, r, j) /\ \A t : Untold(k, t) => Untold(n, t)
<1>1. k.todo # <<"store">> /\ DOMAIN k.writes = {} /\ k.op # "none"
  BY Remaining DEF Fact
<1>2. DOMAIN n.writes = {}
  BY <1>1 DEF Same
<1>3. Held(n, r, j)
  BY <1>2 DEF Held
<1>4. Updating(n, r) /\ Landed(n, r) /\ Gate(n, r)
  BY <1>1 DEF Updating, Landed, Gate, Fact, Same
<1>5. Fact(n, r, j)
  BY <1>1, <1>2, <1>3, <1>4 DEF Fact, Same
<1>6. \A t : Untold(k, t) => Untold(n, t)
  BY <1>2 DEF Untold, Same
<1> QED BY <1>5, <1>6

(* Such a step, as far as the call is concerned.                           *)
LEMMA CallGoes ==
    ASSUME OrderInv, NEW c \in Caller, NEW s, Stage(c, s), s \notin {"apply", "store"},
           NEW q, Continue(c, q), Staged(call[c].op, q), q # <<"store">>,
           q \in {<<"iterate">>, <<"mark">>} \cup FailedStages => call[c].seen.st = "Failed",
           NEW r, NEW j, Fact(call[c], r, j),
           call[c].op = "merge" /\ q \notin {<<"rebase">>, <<"land">>, <<"landed">>} =>
               r[Of(c)].st = "Done"
    PROVE  /\ Onwards(c) /\ Fact(call'[c], r, j)
           /\ \A t : Untold(call[c], t) => Untold(call'[c], t)
           /\ call[c].op = "finish" => call'[c].op = "finish" /\ call'[c].todo = q
<1>0. Shaped /\ call[c].todo # <<>> /\ Head(call[c].todo) = s /\ call[c].next = None
  BY DEF OrderInv, LoopInv, CallsInv, Stage
<1>1. CASE q = <<>>
  <2>1. OthersStay(c) /\ call'[c] = Idle
    BY <1>0, <1>1, Going
  <2>2. call[c].op # "finish"
    BY <1>1 DEF Staged, FinishStagesAll, FailedStages, JudgedStages
  <2>3. \A t : Untold(Idle, t)
    BY DEF Untold, Idle
  <2> QED BY <2>1, <2>2, <2>3, IdleFact DEF Onwards
<1>2. CASE q # <<>>
  <2>1. OthersStay(c) /\ call'[c].todo = q /\ Same(call[c], call'[c])
    BY <1>0, <1>2, Going
  <2>2. Fact(call'[c], r, j) /\ \A t : Untold(call[c], t) => Untold(call'[c], t)
    BY <1>0, <2>1, FactMoves DEF Of
  <2> QED BY <2>1, <2>2 DEF Onwards, Same
<1> QED BY <1>1, <1>2

(* Refreshed leaves Done alone, and makes Ready only what may start.       *)
LEMMA RefreshedIs ==
    ASSUME NEW t, IsRow(row[t]), row[t] # NoRow, NEW done
    PROVE  /\ IsRow(Refreshed(t, done)) /\ Refreshed(t, done).st # "none"
           /\ Refreshed(t, done).st = "Done" <=> row[t].st = "Done"
           /\ Refreshed(t, done).st = "Review" <=> row[t].st = "Review"
           /\ Refreshed(t, done).st = "Ready" => join[t] \subseteq done
<1> DEFINE s == IF row[t].st \in {"Planned", "Ready", "Blocked"}
                THEN RefreshBlocked(row[t].st, join[t], done) ELSE row[t].st
           f == IF Is(t, "Blocked") /\ s = "Planned" THEN "Ready" ELSE s
<1>1. /\ f # "none" /\ (f = "Done" <=> row[t].st = "Done") /\ (f = "Review" <=> row[t].st = "Review")
      /\ f = "Ready" => join[t] \subseteq done
  <2>1. row[t].st # "none"
    BY DEF IsRow
  <2>2. CASE row[t].st = "Planned"
    BY <2>2 DEF RefreshBlocked, Transition, Is
  <2>3. CASE row[t].st = "Ready"
    BY <2>3 DEF RefreshBlocked, Transition, Is
  <2>4. CASE row[t].st = "Blocked"
    BY <2>4 DEF RefreshBlocked, Transition, Is
  <2>5. CASE row[t].st \notin {"Planned", "Ready", "Blocked"}
    BY <2>1, <2>5 DEF Is
  <2> QED BY <2>2, <2>3, <2>4, <2>5
<1>2. Refreshed(t, done) = WithBoth(row[t], join[t], f)
  BY DEF Refreshed, WithBoth
<1> HIDE DEF s, f
<1>4. IsRow(Refreshed(t, done)) /\ Refreshed(t, done).st = f
  <2>1. IsRow(row[t]) /\ f # "none"
    BY <1>1
  <2> QED BY <1>2, <2>1, RowBoth
<1> QED BY <1>1, <1>4

Rest == Facts' /\ Alone' /\ Finishing' /\ Judged' /\ Tables' /\ ReadyAfterDeps'

LEMMA RefreshOrder == ASSUME OrderInv, NEW c \in Caller, Refresh(c) PROVE Rest
<1> DEFINE q == call[c].todo
           done == Done(row) \cup IF call[c].op \in {"finish", "merge"} THEN {Of(c)} ELSE {}
           w == [t \in Outdated(done) |-> Refreshed(t, done)]
<1>0. /\ Shaped /\ Fact(call[c], row, join) /\ Stage(c, "refresh") /\ Tables
      /\ UNCHANGED <<row, join, made, review, queue, running, branches>>
  BY DEF OrderInv, LoopInv, CallsInv, Facts, Refresh, rowVars, reviewVars, gitVars
<1>1. \/ call[c].op = "merge" /\ q = <<"refresh", "complete", "merged">>
      \/ call[c].op = "update" /\ q = <<"refresh", "cleanup", "loop">>
      \/ call[c].op \in {"update", "create", "delete"} /\ q = <<"refresh">>
  BY <1>0, Remaining DEF Stage, Fact
<1>2. done = Done(row)
  <2>1. CASE call[c].op = "merge"
    <3>1. row[Of(c)].st = "Done" /\ Of(c) \in Task
      BY <1>0, <1>1, <2>1 DEF Fact, Landed, Of
    <3> QED BY <2>1, <3>1 DEF Done
  <2>2. CASE call[c].op # "merge"
    BY <1>1, <2>2
  <2> QED BY <2>1, <2>2
<1> HIDE DEF done
<1>3. /\ Staged(call[c].op, Tail(q)) /\ Staged(call[c].op, <<"apply">> \o Tail(q))
      /\ Tail(q) \notin {<<"store">>, <<"iterate">>, <<"mark">>} \cup FailedStages
      /\ <<"apply">> \o Tail(q) \notin {<<"store">>, <<"iterate">>, <<"mark">>} \cup FailedStages
      /\ <<"apply">> \o Tail(q) # <<>> /\ Head(<<"apply">> \o Tail(q)) = "apply"
      /\ call[c].op = "merge" => /\ Tail(q) \notin {<<"rebase">>, <<"land">>, <<"landed">>}
                                 /\ <<"apply">> \o Tail(q) \notin {<<"rebase">>, <<"land">>, <<"landed">>}
  <2>1. CASE call[c].op = "merge" /\ q = <<"refresh", "complete", "merged">>
    <3>1. Tail(q) = <<"complete", "merged">> /\ <<"apply">> \o Tail(q) = <<"apply", "complete", "merged">>
      BY <2>1, Queued
    <3> HIDE DEF q
    <3> QED BY <2>1, <3>1 DEF Staged, MergeStages, FailedStages
  <2>2. CASE call[c].op = "update" /\ q = <<"refresh", "cleanup", "loop">>
    <3>1. Tail(q) = <<"cleanup", "loop">> /\ <<"apply">> \o Tail(q) = <<"apply", "cleanup", "loop">>
      BY <2>2, Queued
    <3> HIDE DEF q
    <3> QED BY <2>2, <3>1 DEF Staged, UpdateStages, FailedStages
  <2>3. CASE call[c].op \in {"update", "create", "delete"} /\ q = <<"refresh">>
    <3>1. Tail(q) = <<>> /\ <<"apply">> \o Tail(q) = <<"apply">>
      BY <2>3, Queued
    <3> HIDE DEF q
    <3> QED BY <2>3, <3>1 DEF Staged, UpdateStages, CreateStages, DeleteStages, FailedStages
  <2> QED BY <1>1, <2>1, <2>2, <2>3
<1>4. CASE Advance(c)
  <2>1. Continue(c, Tail(q))
    BY <1>4 DEF Advance
  <2>2. call[c].op = "merge" => row[Of(c)].st = "Done"
    BY <1>0, <1>1 DEF Fact, Landed, Of
  <2>3. /\ Onwards(c) /\ Fact(call'[c], row, join)
        /\ \A t : Untold(call[c], t) => Untold(call'[c], t)
    <3> HIDE DEF q
    <3> QED BY <1>0, <1>3, <2>1, <2>2, CallGoes
  <2>4. call[c].op # "finish"
    BY <1>1
  <2> QED BY <1>0, <2>3, <2>4, QuietStep DEF Tables, Rest
<1>5. CASE call' = [call EXCEPT ![c].writes = w, ![c].todo = <<"apply">> \o Tail(@)]
  <2> DEFINE k == [call[c] EXCEPT !.writes = w, !.todo = <<"apply">> \o Tail(q)]
  <2>1. call' = [call EXCEPT ![c] = k]
    BY <1>0, <1>5 DEF Shaped
  <2>2. /\ k.writes = w /\ k.todo = <<"apply">> \o Tail(q) /\ k.op = call[c].op /\ k.task = call[c].task
        /\ k.seen = call[c].seen /\ k.next = call[c].next
    <3>1. DOMAIN call[c] = Fields
      BY <1>0, IsFields DEF Shaped
    <3> QED BY <3>1 DEF Fields
  <2> HIDE DEF k
  <2>3. call'[c] = k /\ OthersStay(c)
    BY <1>0, <2>1, Becoming
  <2>4. \A u \in Outdated(done) : u \in Task /\ IsRow(row[u]) /\ row[u] # NoRow
    BY <1>0 DEF Outdated, Rows, Exists, Tables
  <2>5. ASSUME NEW u \in DOMAIN k.writes
        PROVE  /\ u \in Task /\ row[u] # NoRow /\ IsRow(k.writes[u]) /\ k.writes[u].st # "none"
               /\ k.writes[u].st = "Done" <=> row[u].st = "Done"
               /\ k.writes[u].st = "Review" <=> row[u].st = "Review"
               /\ k.writes[u].st = "Ready" => join[u] \subseteq Done(row)
    <3>1. u \in Outdated(done) /\ k.writes[u] = Refreshed(u, done)
      BY <2>2
    <3> QED BY <1>2, <2>4, <3>1, RefreshedIs
  <2>6. Held(k, row, join)
    BY <2>5 DEF Held
  <2>7. Updating(k, row) /\ Landed(k, row) /\ Gate(k, row)
    BY <1>0, <1>1, <1>3, <2>2 DEF Updating, Landed, Gate, Fact
  <2>8. Fact(k, row, join)
    BY <1>0, <1>1, <1>3, <2>2, <2>6, <2>7 DEF Fact, Solo
  <2>9. ASSUME NEW t \in Task, Unreviewed(t) PROVE Unreviewed(t)'
    <3>1. Untold(call[c], t) /\ row[t].st # "Review"
      BY <2>9 DEF Unreviewed
    <3>2. Untold(k, t)
      BY <1>3, <2>2, <2>5, <3>1 DEF Untold
    <3> QED BY <1>0, <2>3, <2>9, <3>2, UnreviewedStays DEF Unreviewed
  <2>10. call[c].op # "finish"
    BY <1>1
  <2>11. Onwards(c)
    BY <2>2, <2>3 DEF Onwards
  <2>12. Facts' /\ Alone' /\ Finishing'
    BY <1>0, <2>3, <2>8, <2>11, OthersHold, AlikeSame, AloneStays, FinishingStays DEF OrderInv
  <2>13. Judged'
    <3>1. ASSUME NEW t \in Task, Judging(t)' PROVE t \in branches' /\ Judging(t)
      BY <1>0, <2>3, <2>10, <3>1, JudgingStays DEF OrderInv, Judged
    <3> QED BY <1>0, <2>9, <3>1, JudgedStays DEF OrderInv
  <2>14. Tables' /\ ReadyAfterDeps'
    BY <1>0 DEF Tables, OrderInv, ReadyAfterDeps, Done
  <2> QED BY <2>12, <2>13, <2>14 DEF Rest
<1> QED BY <1>4, <1>5 DEF Refresh, done

LEMMA QuietGoes ==
    ASSUME OrderInv, NEW c \in Caller, NEW s, Stage(c, s), s \notin {"apply", "store"},
           NEW q, Continue(c, q), Staged(call[c].op, q), q # <<"store">>,
           call[c].op = "merge" /\ q \notin {<<"rebase">>, <<"land">>, <<"landed">>} =>
               row[Of(c)].st = "Done",
           q \in {<<"iterate">>, <<"mark">>} \cup FailedStages => call[c].seen.st = "Failed",
           call[c].op = "finish" /\ call[c].todo \in JudgedStages => q \in JudgedStages,
           UNCHANGED <<row, join, made, review, running, branches>>,
           queue' = [t \in Task |-> queue'[t]], \A t \in Task : queue'[t] # "none" => queue[t] # "none"
    PROVE  Rest
<1>1. Fact(call[c], row, join)
  BY DEF OrderInv, Facts
<1>2. /\ Onwards(c) /\ Fact(call'[c], row, join)
      /\ \A t : Untold(call[c], t) => Untold(call'[c], t)
      /\ call[c].op = "finish" => call'[c].op = "finish" /\ call'[c].todo = q
  BY <1>1, CallGoes
<1> QED BY <1>2, QuietStep DEF Rest

LEMMA QuietReturn ==
    ASSUME OrderInv, NEW c \in Caller, Return(c), call[c].op # "finish",
           UNCHANGED <<row, join, made, review, running, branches>>,
           queue' = [t \in Task |-> queue'[t]], \A t \in Task : queue'[t] # "none" => queue[t] # "none"
    PROVE  Rest
<1>1. OthersStay(c) /\ call'[c] = Idle
  BY Becoming DEF Return, OrderInv, LoopInv, CallsInv
<1>2. \A t : Untold(Idle, t)
  BY DEF Untold, Idle
<1> QED BY <1>1, <1>2, IdleFact, QuietStep DEF Rest, Onwards

LEMMA TriggersFailed ==
    ASSUME Orderly, Kinds, NEW t, NEW st, Triggers(t, st) PROVE st = "Failed" /\ t \in link
<1>1. t \in link /\ LoopOf(t) = steps[kind[t].step].loop
  BY DEF Triggers, LoopOf, NoLoop, StepOf
<1>2. kind[t].step \in DOMAIN steps
  <2>1. t \in Task /\ kind[t].step # 0 /\ kind[t].step \in 0 .. Len(steps)
    BY <1>1, MadeAreTasks DEF Kinds
  <2> QED BY <2>1, StepsAre
<1>3. LoopOf(t).mode # "until_complete"
  BY <1>1, <1>2 DEF Orderly, Kinds
<1> QED BY <1>1, <1>3 DEF Triggers

LEMMA CheckLoopOrder == ASSUME Orderly, OrderInv, NEW c \in Caller, CheckLoop(c) PROVE Rest
<1> DEFINE q == call[c].todo
<1>0. /\ Shaped /\ Kinds /\ Fact(call[c], row, join) /\ Stage(c, "loop") /\ Tables
      /\ UNCHANGED <<row, join, made, review, queue, running, branches>>
  BY DEF OrderInv, LoopInv, CallsInv, Facts, CheckLoop, rowVars, reviewVars, gitVars
<1>1. \/ call[c].op = "update" /\ q = <<"loop">>
      \/ call[c].op = "finish" /\ q = <<"loop", "cleanup", "end">>
  BY <1>0, Remaining DEF Stage, Fact
<1>2. /\ call[c].op = "update" => Tail(q) = <<>>
      /\ call[c].op = "finish" => Tail(q) = <<"cleanup", "end">>
  BY <1>1, Pieces
<1>3. CASE Continue(c, AfterNoLoop(c) \o Tail(q))
  <2>1. AfterNoLoop(c) = <<"complete">>
    <3>1. call[c].op = "finish" => call[c].seen.st = "Failed"
      BY <1>0, <1>1 DEF Fact, Gate, FailedStages
    <3> QED BY <3>1 DEF AfterNoLoop
  <2>2. AfterNoLoop(c) \o Tail(q) = IF call[c].op = "finish" THEN <<"complete", "cleanup", "end">>
                                    ELSE <<"complete">>
    BY <1>1, <1>2, <2>1, Pieces
  <2> HIDE DEF q
  <2>3. ASSUME NEW p, p = AfterNoLoop(c) \o Tail(q) PROVE Rest
    <3>1. /\ Staged(call[c].op, p) /\ p \notin {<<"store">>, <<"iterate">>, <<"mark">>} \cup FailedStages
          /\ call[c].op = "finish" => p \in JudgedStages
      BY <1>1, <2>2, <2>3 DEF Staged, UpdateStages, FinishStagesAll, JudgedStages, FailedStages
    <3>2. call[c].op # "merge"
      BY <1>1
    <3> QED BY <1>0, <1>3, <2>3, <3>1, <3>2, QuietGoes DEF Tables
  <2> QED BY <2>3
<1>4. ASSUME Triggers(Of(c), call[c].seen.st),
             call' = [call EXCEPT ![c].todo = <<"iterate">> \o Tail(@),
                                 ![c].seen = [row[Of(c)] EXCEPT !.st = call[c].seen.st],
                                 ![c].iter = LatestIteration(kind[Of(c)].step) + 1]
      PROVE  Rest
  <2> DEFINE n == LatestIteration(kind[Of(c)].step) + 1
             r == WithStatus(row[Of(c)], call[c].seen.st)
             k == [call[c] EXCEPT !.todo = <<"iterate">> \o Tail(q), !.seen = r, !.iter = n]
  <2>1. call' = [call EXCEPT ![c] = k]
    BY <1>0, <1>4 DEF Shaped, WithStatus
  <2>2. /\ k.todo = <<"iterate">> \o Tail(q) /\ k.seen = r /\ k.op = call[c].op /\ k.task = call[c].task
        /\ k.writes = call[c].writes /\ k.next = call[c].next
    <3>1. DOMAIN call[c] = Fields
      BY <1>0, IsFields DEF Shaped
    <3> QED BY <3>1 DEF Fields
  <2>3. <<"iterate">> \o Tail(q) = IF call[c].op = "finish" THEN <<"iterate", "cleanup", "end">>
                                   ELSE <<"iterate">>
    BY <1>1, <1>2, Pieces
  <2>4. call[c].seen.st = "Failed" /\ Of(c) \in Task
    BY <1>0, <1>4, TriggersFailed, MadeAreTasks DEF Kinds
  <2>5. IsRow(r) /\ r.st = "Failed"
    <3>1. IsRow(row[Of(c)])
      BY <1>0, <2>4 DEF Tables
    <3> QED BY <2>4, <3>1, RowStatus
  <2> HIDE DEF k, r, n
  <2>6. call'[c] = k /\ OthersStay(c)
    BY <1>0, <2>1, Becoming
  <2>7. DOMAIN k.writes = {} /\ call[c].todo # <<"store">>
    BY <1>0, <1>1, <2>2 DEF Fact
  <2>8. /\ Staged(k.op, k.todo) /\ k.todo # <<"store">>
        /\ k.todo \in {<<"iterate">>} \cup FailedStages
        /\ k.todo # <<>> /\ Head(k.todo) # "apply"
    <3>1. \/ k.op = "finish" /\ k.todo = <<"iterate", "cleanup", "end">>
          \/ k.op = "update" /\ k.todo = <<"iterate">>
      BY <1>1, <2>2, <2>3
    <3>2. ASSUME NEW p, p = <<"iterate">> \/ p = <<"iterate", "cleanup", "end">>
          PROVE  p # <<>> /\ Head(p) # "apply" /\ p # <<"store">>
      BY <3>2
    <3>3. Staged(k.op, k.todo)
      BY <3>1 DEF Staged, UpdateStages, FinishStagesAll, FailedStages
    <3>4. k.todo \in {<<"iterate">>} \cup FailedStages
      BY <3>1 DEF FailedStages
    <3> QED BY <3>1, <3>2, <3>3, <3>4
  <2>9. Held(k, row, join) /\ Updating(k, row) /\ Landed(k, row)
    BY <1>1, <2>2, <2>7, <2>8 DEF Held, Updating, Landed
  <2>10. Gate(k, row)
    BY <1>0, <2>2, <2>4, <2>5, <2>7, <2>8 DEF Gate, Fact
  <2>11. Fact(k, row, join)
    BY <1>0, <1>1, <2>2, <2>5, <2>7, <2>8, <2>9, <2>10 DEF Fact
  <2>12. \A t \in Task : Untold(call[c], t) => Untold(k, t)
    BY <1>1, <2>2, <2>7, <2>8 DEF Untold
  <2>13. ~(call[c].op = "finish" /\ call[c].todo \in JudgedStages)
    BY <1>1 DEF JudgedStages
  <2>14. Onwards(c)
    BY <2>2, <2>6 DEF Onwards
  <2> QED BY <1>0, <2>6, <2>11, <2>12, <2>13, <2>14, QuietStep DEF Rest, Tables
<1> QED BY <1>3, <1>4 DEF CheckLoop

LEMMA CompletionOrder == ASSUME OrderInv, NEW c \in Caller, CheckCompletion(c) PROVE Rest
<1>0. /\ Fact(call[c], row, join) /\ Stage(c, "complete") /\ Tables
      /\ UNCHANGED <<row, join, made, review, queue, running, branches>>
  BY DEF OrderInv, Facts, CheckCompletion, reviewVars, gitVars
<1>1. \/ call[c].op = "merge" /\ call[c].todo = <<"complete", "merged">>
      \/ call[c].op = "update" /\ call[c].todo = <<"complete">>
      \/ call[c].op = "finish" /\ call[c].todo = <<"complete", "cleanup", "end">>
  BY <1>0, Remaining DEF Stage, Fact
<1>2. ASSUME NEW p, p = Tail(call[c].todo) PROVE Rest
  <2>1. /\ Staged(call[c].op, p) /\ p \notin {<<"store">>, <<"iterate">>, <<"mark">>} \cup FailedStages
        /\ call[c].op = "finish" => p \in JudgedStages
    <3>1. \/ call[c].op = "merge" /\ p = <<"merged">>
          \/ call[c].op = "update" /\ p = <<>>
          \/ call[c].op = "finish" /\ p = <<"cleanup", "end">>
      BY <1>1, <1>2, Pieces
    <3> QED BY <3>1 DEF Staged, UpdateStages, FinishStagesAll, JudgedStages, FailedStages, MergeStages
  <2>2. call[c].op = "merge" => row[Of(c)].st = "Done"
    BY <1>0, <1>1 DEF Fact, Landed, Of
  <2>3. Continue(c, p)
    BY <1>2 DEF CheckCompletion, Advance
  <2> QED BY <1>0, <2>1, <2>2, <2>3, QuietGoes DEF Tables
<1> QED BY <1>2

LEMMA CleanupOrder == ASSUME OrderInv, NEW c \in Caller, Cleanup(c) PROVE Rest
<1>0. /\ Fact(call[c], row, join) /\ Stage(c, "cleanup") /\ Tables
      /\ UNCHANGED <<row, join, made, review, queue, running, branches>>
  BY DEF OrderInv, Facts, Cleanup, rowVars, reviewVars
<1>1. \/ call[c].op = "update" /\ call[c].todo = <<"cleanup", "loop">>
      \/ call[c].op = "delete" /\ call[c].todo = <<"cleanup", "erase", "refresh">>
      \/ call[c].op = "finish" /\ call[c].todo = <<"cleanup", "end">>
  BY <1>0, Remaining DEF Stage, Fact
<1>2. ASSUME NEW p, p = Tail(call[c].todo) PROVE Rest
  <2>1. /\ Staged(call[c].op, p) /\ p \notin {<<"store">>, <<"iterate">>, <<"mark">>} \cup FailedStages
        /\ call[c].op = "finish" => p \in JudgedStages
    <3>1. \/ call[c].op = "update" /\ p = <<"loop">>
          \/ call[c].op = "delete" /\ p = <<"erase", "refresh">>
          \/ call[c].op = "finish" /\ p = <<"end">>
      BY <1>1, <1>2, Pieces
    <3> QED BY <3>1 DEF Staged, UpdateStages, DeleteStages, FinishStagesAll, JudgedStages, FailedStages
  <2>2. call[c].op # "merge"
    BY <1>1
  <2>3. Continue(c, p)
    BY <1>2 DEF Cleanup, Advance
  <2> QED BY <1>0, <2>1, <2>2, <2>3, QuietGoes DEF Tables
<1> QED BY <1>2

LEMMA QueueSet ==
    ASSUME Tables, NEW t \in Task, NEW s, SetQueue(t, s)
    PROVE  queue' = [u \in Task |-> queue'[u]] /\ \A u \in Task : queue'[u] # "none" => queue[u] # "none"
BY DEF SetQueue, Tables

LEMMA LockedOrder ==
    ASSUME OrderInv, NEW c \in Caller, Rebase(c) \/ Land(c) \/ LandFails(c) \/ Merged(c)
    PROVE Rest
<1>0. /\ Fact(call[c], row, join) /\ Tables
      /\ UNCHANGED <<row, join, made, review, running, branches>>
  BY DEF OrderInv, Facts, Rebase, Land, LandFails, Merged, rowVars, reviewVars, gitVars
<1>1. PICK s \in {"rebase", "land", "merged"} : Stage(c, s)
  BY DEF Rebase, Land, LandFails, Merged
<1>2. /\ call[c].op = "merge"
      /\ s = "rebase" => call[c].todo = <<"rebase">>
      /\ s = "land" => call[c].todo = <<"land">>
      /\ s = "merged" => call[c].todo = <<"merged">>
  BY <1>0, <1>1, Remaining DEF Stage, Fact
<1>3. Of(c) \in Task
  BY <1>0, <1>2 DEF Fact, Of
<1>4. queue' = [u \in Task |-> queue'[u]] /\ \A u \in Task : queue'[u] # "none" => queue[u] # "none"
  <2>1. ASSUME NEW v, SetQueue(Of(c), v) PROVE <1>4!1 /\ <1>4!2
    BY <1>0, <1>3, <2>1, QueueSet
  <2>2. ASSUME UNCHANGED queue PROVE <1>4!1 /\ <1>4!2
    BY <1>0, <2>2 DEF Tables
  <2> QED BY <2>1, <2>2 DEF Rebase, Land, LandFails, Merged, reviewVars
<1>5. CASE GiveUp(c)
  BY <1>0, <1>2, <1>4, <1>5, QuietReturn DEF GiveUp
<1>6. ASSUME NEW q \in {<<"land">>, <<"landed">>}, Continue(c, q) PROVE Rest
  <2>1. /\ Staged(call[c].op, q) /\ q \notin {<<"store">>, <<"iterate">>, <<"mark">>} \cup FailedStages
    BY <1>2, <1>6 DEF Staged, MergeStages, FailedStages
  <2>2. q \in {<<"rebase">>, <<"land">>, <<"landed">>}
    BY <1>6
  <2> QED BY <1>0, <1>1, <1>2, <1>4, <1>6, <2>1, <2>2, QuietGoes
<1> QED BY <1>5, <1>6 DEF Rebase, Land, LandFails, Merged

(* Storing a row.                                                          *)
LEMMA Stored ==
    ASSUME Tables, NEW t \in Task, NEW r, IsRow(r), r.st # "none", Store(t, r)
    PROVE  /\ row' = [u \in Task |-> row'[u]] /\ \A u \in Task : IsRow(row'[u])
           /\ \A u \in Task : row[u] = NoRow <=> row'[u] = NoRow
           /\ \A u \in Task \ {t} : row'[u] = row[u]
           /\ row[t] = NoRow => row'[t] = NoRow
           /\ row[t] # NoRow => row'[t] = r
<1>1. NoRow.st = "none"
  BY DEF NoRow
<1>2. CASE Exists(t)
  <2>1. row' = [row EXCEPT ![t] = r] /\ row[t] # NoRow /\ r # NoRow
    BY <1>1, <1>2 DEF Store, Exists
  <2> QED BY <2>1 DEF Tables
<1>3. CASE ~Exists(t)
  BY <1>3 DEF Store, Exists, Tables
<1> QED BY <1>2, <1>3

LEMMA TablesStored ==
    ASSUME Tables, NEW t \in Task, NEW r, IsRow(r), r.st # "none", Store(t, r),
           UNCHANGED <<join, review, queue, made>>
    PROVE  Tables'
<1>1. /\ row' = [u \in Task |-> row'[u]] /\ \A u \in Task : IsRow(row'[u])
      /\ \A u \in Task : row[u] = NoRow <=> row'[u] = NoRow
  BY Stored
<1> QED BY <1>1 DEF Tables

LEMMA ReadyStored ==
    ASSUME Tables, ReadyAfterDeps, NEW t \in Task, NEW r, IsRow(r), r.st # "none", Store(t, r),
           join' = join, row[t].st = "Done" => r.st = "Done",
           r.st = "Ready" => join[t] \subseteq Done(row)
    PROVE  ReadyAfterDeps'
<1>1. /\ \A u \in Task \ {t} : row'[u] = row[u]
      /\ row[t] = NoRow => row'[t] = NoRow
      /\ row[t] # NoRow => row'[t] = r
  BY Stored
<1>2. Done(row) \subseteq Done(row')
  <2>1. row[t].st = "Done" => row[t] # NoRow
    BY DEF NoRow
  <2> QED BY <1>1, <2>1 DEF Done
<1>3. ASSUME NEW u \in Task, row'[u].st = "Ready" PROVE join'[u] \subseteq Done(row')
  <2>1. CASE u # t
    BY <1>1, <1>2, <1>3, <2>1 DEF ReadyAfterDeps
  <2>2. CASE u = t
    <3>1. row[t] # NoRow /\ r.st = "Ready"
      BY <1>1, <1>3, <2>2 DEF NoRow
    <3> QED BY <1>2, <2>2, <3>1
  <2> QED BY <2>1, <2>2
<1> QED BY <1>3 DEF ReadyAfterDeps, Done

LEMMA AlikeStored ==
    ASSUME Tables, NEW t \in Task, NEW r, IsRow(r), r.st # "none", Store(t, r),
           join' = join, row[t] # NoRow => (row[t].st = "Done" <=> r.st = "Done")
    PROVE  Alike(row, join, row', join')
<1>1. /\ \A u \in Task : row[u] = NoRow <=> row'[u] = NoRow
      /\ \A u \in Task \ {t} : row'[u] = row[u]
      /\ row[t] = NoRow => row'[t] = NoRow
      /\ row[t] # NoRow => row'[t] = r
  BY Stored
<1>2. \A u \in Task : row[u].st = "Done" <=> row'[u].st = "Done"
  BY <1>1
<1> QED BY <1>1, <1>2 DEF Alike, Done

(* An agent that ends with a failure, or has not been judged, has its task *)
(* to itself.                                                              *)
LEMMA OwnTask ==
    ASSUME Facts, Finishing, Judged, NEW c \in Caller, call[c].op = "finish",
           call[c].todo \notin JudgedStages
    PROVE  Of(c) \in Task /\ Judging(Of(c)) /\ Unreviewed(Of(c)) /\ Of(c) \in branches
<1>1. Of(c) \in Task
  BY DEF Facts, Fact, Of
<1>2. Judging(Of(c))
  BY DEF Finishing, Judging, Of
<1> QED BY <1>1, <1>2 DEF Judged

LEMMA MarkOrder == ASSUME OrderInv, NEW c \in Caller, MarkLooped(c) PROVE Rest
<1> DEFINE t == Of(c)
           r == WithStatus(call[c].seen, "Looped")
<1>0. /\ Fact(call[c], row, join) /\ Stage(c, "mark") /\ Tables /\ Store(t, r)
      /\ UNCHANGED <<join, made, review, queue, running, branches>>
      /\ Continue(c, AfterLoop(c) \o Tail(call[c].todo))
  BY DEF OrderInv, Facts, MarkLooped, rowVars, reviewVars, gitVars, WithStatus
<1>1. \/ call[c].op = "update" /\ call[c].todo = <<"mark">>
      \/ call[c].op = "finish" /\ call[c].todo = <<"mark", "cleanup", "end">>
  BY <1>0, Remaining DEF Stage, Fact
<1>2. t \in Task /\ row[t].st # "Done"
  <2>1. CASE call[c].op = "update"
    <3>1. ASSUME NEW p, p = <<"mark">> PROVE p # <<"store">>
      BY <3>1
    <3>2. call[c].todo = <<"mark">> /\ call[c].todo # <<"store">>
      BY <1>1, <2>1, <3>1
    <3>3. call[c].seen.st = "Failed"
      BY <1>0, <3>2 DEF Fact, Gate
    <3> QED BY <1>0, <2>1, <3>2, <3>3 DEF Fact, Gate, Of
  <2>2. CASE call[c].op = "finish"
    <3>1. call[c].todo \notin JudgedStages
      BY <1>1, <2>2 DEF JudgedStages
    <3> QED BY <2>2, <3>1, OwnTask DEF OrderInv, Unreviewed
  <2> QED BY <1>1, <2>1, <2>2
<1>3. IsRow(r) /\ r.st = "Looped"
  <2>1. IsRow(call[c].seen)
    BY <1>0 DEF Fact
  <2> QED BY <2>1, RowStatus
<1> HIDE DEF r, t
<1>4. Alike(row, join, row', join')
  BY <1>0, <1>2, <1>3, AlikeStored
<1>5. Tables' /\ ReadyAfterDeps'
  BY <1>0, <1>2, <1>3, TablesStored, ReadyStored DEF OrderInv
<1>6. Fact(call[c], row', join')
  BY <1>0, <1>4, FactStays
<1>7. ASSUME NEW p, p = AfterLoop(c) \o Tail(call[c].todo)
      PROVE  /\ Staged(call[c].op, p) /\ p \notin {<<"store">>, <<"iterate">>, <<"mark">>} \cup FailedStages
             /\ call[c].op = "finish" => p \in JudgedStages
  <2>1. \/ call[c].op = "update" /\ p = <<"refresh">>
        \/ call[c].op = "finish" /\ p = <<"cleanup", "end">>
    BY <1>1, <1>7, Pieces DEF AfterLoop
  <2> QED BY <2>1 DEF Staged, UpdateStages, FinishStagesAll, JudgedStages, FailedStages
<1>8. PICK p : p = AfterLoop(c) \o Tail(call[c].todo)
  OBVIOUS
<1>9. /\ Onwards(c) /\ Fact(call'[c], row', join')
      /\ \A u : Untold(call[c], u) => Untold(call'[c], u)
      /\ call[c].op = "finish" => call'[c].op = "finish" /\ call'[c].todo = p
  <2>1. call[c].op # "merge" /\ Continue(c, p)
    BY <1>0, <1>1, <1>8
  <2> QED BY <1>0, <1>6, <1>7, <1>8, <2>1, CallGoes
<1>10. \A u \in Task : Unreviewed(u) =>
          row'[u].st # "Review" /\ review'[u] = "none" /\ queue'[u] = "none"
  <2>1. /\ \A u \in Task \ {t} : row'[u] = row[u]
        /\ row[t] = NoRow => row'[t] = NoRow
        /\ row[t] # NoRow => row'[t] = r
    BY <1>0, <1>2, <1>3, Stored
  <2> QED BY <1>0, <1>2, <1>3, <2>1 DEF Unreviewed, NoRow
<1> QED BY <1>0, <1>4, <1>5, <1>7, <1>8, <1>9, <1>10, AlikeStep DEF Rest

LEMMA ApplyOrder == ASSUME OrderInv, NEW c \in Caller, Apply(c) PROVE Rest
<1>0. /\ Shaped /\ Fact(call[c], row, join) /\ Stage(c, "apply") /\ Tables
      /\ UNCHANGED <<join, made, review, queue, running, branches>>
  BY DEF OrderInv, LoopInv, CallsInv, Facts, Apply, reviewVars, gitVars
<1>1. \/ call[c].op = "merge" /\ call[c].todo = <<"apply", "complete", "merged">>
      \/ call[c].op = "update" /\ call[c].todo = <<"apply", "cleanup", "loop">>
      \/ call[c].op \in {"update", "create", "delete"} /\ call[c].todo = <<"apply">>
  BY <1>0, Remaining DEF Stage, Fact
<1>2. PICK t \in DOMAIN call[c].writes : /\ Store(t, call[c].writes[t])
                                         /\ call' = [call EXCEPT ![c] = Goes(Applied(call[c], t))]
  BY <1>0 DEF Apply, Shaped
<1> DEFINE r == call[c].writes[t]
           n == Applied(call[c], t)
           rest == DOMAIN call[c].writes \ {t}
<1>3. /\ t \in Task /\ IsRow(r) /\ r.st # "none" /\ (r.st = "Done" <=> row[t].st = "Done")
      /\ r.st = "Ready" => join[t] \subseteq Done(row)
  BY <1>0, <1>1, <1>2 DEF Fact, Held
<1>4. /\ n.op = call[c].op /\ n.task = call[c].task /\ n.seen = call[c].seen
      /\ n.writes = [u \in rest |-> call[c].writes[u]]
      /\ n.todo = IF rest = {} THEN Tail(call[c].todo) ELSE call[c].todo
      /\ n.next \in {t, None}
  <2>1. DOMAIN call[c] = Fields
    BY <1>0, IsFields DEF Shaped
  <2> QED BY <2>1 DEF Fields, Applied
<1>5. OthersStay(c) /\ call'[c] = Goes(n)
  BY <1>0, <1>2, Becoming
<1> HIDE DEF r, n, rest
<1>6. Alike(row, join, row', join') /\ Tables' /\ ReadyAfterDeps' /\ Store(t, r)
  <2>1. Store(t, r)
    BY <1>2 DEF r
  <2> QED BY <1>0, <1>3, <2>1, AlikeStored, TablesStored, ReadyStored DEF OrderInv
<1>7. Fact(call[c], row', join')
  BY <1>0, <1>6, FactStays
<1>8. Staged(n.op, n.todo) /\ n.todo \notin {<<"store">>, <<"iterate">>, <<"mark">>} \cup FailedStages
      /\ (n.op = "merge" => n.todo \notin {<<"rebase">>, <<"land">>, <<"landed">>})
  <2>1. \/ n.op = "merge" /\ n.todo \in {<<"apply", "complete", "merged">>, <<"complete", "merged">>}
        \/ n.op = "update" /\ n.todo \in {<<"apply", "cleanup", "loop">>, <<"cleanup", "loop">>}
        \/ n.op \in {"update", "create", "delete"} /\ n.todo \in {<<"apply">>, <<>>}
    BY <1>1, <1>4, Pieces
  <2> QED BY <2>1 DEF Staged, MergeStages, UpdateStages, DeleteStages, CreateStages, FailedStages
<1>9. DOMAIN n.writes = rest /\ \A u \in rest : n.writes[u] = call[c].writes[u] /\ u \in DOMAIN call[c].writes
  BY <1>4 DEF rest
<1>10. Fact(n, row', join')
  <2>1. Held(n, row', join')
    BY <1>1, <1>7, <1>8, <1>9 DEF Fact, Held
  <2>2. Updating(n, row') /\ Gate(n, row')
    BY <1>1, <1>4, <1>7, <1>8 DEF Updating, Gate, Fact
  <2>3. Landed(n, row')
    BY <1>1, <1>4, <1>7, <1>8 DEF Landed, Fact
  <2>4. n.todo = <<>> \/ Head(n.todo) # "apply" => DOMAIN n.writes = {}
    <3>1. rest # {} => n.todo # <<>> /\ Head(n.todo) = "apply"
      BY <1>0, <1>4 DEF Stage
    <3> QED BY <1>9, <3>1
  <2>5. n.op \notin {"none", "finish"}
    BY <1>1, <1>4
  <2> QED BY <1>3, <1>4, <1>7, <1>8, <2>1, <2>2, <2>3, <2>4, <2>5 DEF Fact, Solo
<1>11. Fact(call'[c], row', join')
  BY <1>5, <1>10, IdleFact DEF Goes
<1>12. Onwards(c)
  BY <1>4, <1>5 DEF Onwards, Goes
<1>13. \A u \in Task : Untold(call[c], u) => Untold(call'[c], u)
  <2>1. \A u \in Task : Untold(call[c], u) => Untold(n, u)
    BY <1>4, <1>8, <1>9 DEF Untold
  <2>2. \A u : Untold(Idle, u)
    BY DEF Untold, Idle
  <2> QED BY <1>5, <2>1, <2>2 DEF Goes
<1>14. \A u \in Task : Unreviewed(u) =>
          row'[u].st # "Review" /\ review'[u] = "none" /\ queue'[u] = "none"
  <2>1. /\ \A u \in Task \ {t} : row'[u] = row[u]
        /\ row[t] = NoRow => row'[t] = NoRow
        /\ row[t] # NoRow => row'[t] = r
    BY <1>0, <1>3, <1>6, Stored
  <2>2. Unreviewed(t) => r.st # "Review"
    BY <1>2 DEF Unreviewed, Untold, r
  <2> QED BY <1>0, <2>1, <2>2 DEF Unreviewed, NoRow
<1>15. call[c].op # "finish"
  BY <1>1
<1> QED BY <1>0, <1>6, <1>11, <1>12, <1>13, <1>14, <1>15, AlikeStep DEF Rest

(* What the step of a merge's call becomes of it, as one of its stages.    *)
LEMMA DoneOrder == ASSUME OrderInv, NEW c \in Caller, StoreDone(c) PROVE Rest
<1> DEFINE t == Of(c)
           r == WithStatus(call[c].seen, "Done")
           q == <<"prune", "refresh", "complete", "merged">>
<1>0. /\ Shaped /\ Fact(call[c], row, join) /\ Stage(c, "landed") /\ Tables /\ Store(t, r)
      /\ UNCHANGED <<join, made, review, queue, running, branches>>
      /\ Continue(c, q)
  BY DEF OrderInv, LoopInv, CallsInv, Facts, StoreDone, reviewVars, gitVars, WithStatus
<1>1. /\ call[c].op = "merge" /\ call[c].todo = <<"landed">> /\ t \in Task /\ row[t] # NoRow
      /\ call[c].todo # <<>> /\ Head(call[c].todo) = "landed"
  BY <1>0, Remaining DEF Stage, Fact, Landed, Of
<1>2. IsRow(r) /\ r.st = "Done"
  <2>1. IsRow(call[c].seen)
    BY <1>0 DEF Fact
  <2> QED BY <2>1, RowStatus
<1> HIDE DEF r
<1>3. /\ \A u \in Task : row[u] = NoRow <=> row'[u] = NoRow
      /\ \A u \in Task \ {t} : row'[u] = row[u]
      /\ row'[t].st = "Done" /\ row'[t] # NoRow
  <2>1. /\ \A u \in Task : row[u] = NoRow <=> row'[u] = NoRow
        /\ \A u \in Task \ {t} : row'[u] = row[u]
        /\ row[t] # NoRow => row'[t] = r
    BY <1>0, <1>1, <1>2, Stored
  <2> QED BY <1>1, <1>2, <2>1 DEF NoRow
<1>4. Tables' /\ ReadyAfterDeps'
  BY <1>0, <1>1, <1>2, TablesStored, ReadyStored DEF OrderInv
<1>5. Fact(call[c], row', join')
  <2>1. ASSUME NEW p, p = <<"landed">>
        PROVE  p # <<"store">> /\ p # <<>> /\ Head(p) # "apply" /\ p \notin {<<"iterate">>, <<"mark">>} \cup FailedStages
    BY <2>1 DEF FailedStages
  <2>2. DOMAIN call[c].writes = {}
    BY <1>0, <1>1, <2>1 DEF Fact
  <2>3. Held(call[c], row', join') /\ Updating(call[c], row') /\ Landed(call[c], row')
    BY <1>1, <1>3, <2>1, <2>2 DEF Held, Updating, Landed, Of
  <2>4. Gate(call[c], row')
    BY <1>1, <2>1 DEF Gate
  <2> QED BY <1>0, <2>3, <2>4 DEF Fact
<1>6. ASSUME NEW p, p = q
      PROVE  Staged(call[c].op, p) /\ p \notin {<<"store">>, <<"iterate">>, <<"mark">>} \cup FailedStages
  BY <1>1, <1>6 DEF Staged, MergeStages, FailedStages
<1>7. PICK p : p = q
  OBVIOUS
<1>8. /\ Onwards(c) /\ Fact(call'[c], row', join')
      /\ \A u : Untold(call[c], u) => Untold(call'[c], u)
  <2>1. Continue(c, p) /\ row'[Of(c)].st = "Done"
    BY <1>0, <1>3, <1>7
  <2> QED BY <1>0, <1>5, <1>6, <1>7, <2>1, CallGoes
<1>9. Facts' /\ Alone' /\ Finishing'
  <2>1. Solo(call[c].op)
    BY <1>1 DEF Solo
  <2>2. Facts'
    BY <1>8, <2>1, OthersHold DEF OrderInv, Onwards
  <2> QED BY <1>0, <1>8, <2>2, AloneStays, FinishingStays DEF OrderInv
<1>10. Judged'
  <2>1. ASSUME NEW u \in Task, Judging(u)' PROVE u \in branches' /\ Judging(u)
    <3>1. Judging(u)
      BY <1>0, <1>1, <1>8, <2>1, JudgingStays DEF Onwards
    <3> QED BY <1>0, <3>1 DEF OrderInv, Judged
  <2>2. ASSUME NEW u \in Task, row'[u].st # "Done" PROVE row[u].st # "Done"
    BY <1>3, <2>2
  <2>3. ASSUME NEW u \in Task, Unreviewed(u) PROVE Unreviewed(u)'
    <3>1. u # t
      BY <1>1, <2>3 DEF Unreviewed, Untold, Of
    <3>2. /\ row'[u].st \notin {"Review", "Done"} /\ review'[u] = "none" /\ queue'[u] = "none"
          /\ Untold(call'[c], u)
      BY <1>0, <1>3, <1>8, <2>3, <3>1 DEF Unreviewed
    <3> QED BY <1>8, <2>3, <3>2, UnreviewedStays DEF Onwards
  <2> QED BY <1>0, <2>1, <2>2, <2>3, JudgedStays DEF OrderInv
<1> QED BY <1>4, <1>9, <1>10 DEF Rest

LEMMA PruneOrder == ASSUME OrderInv, NEW c \in Caller, Prune(c) PROVE Rest
<1> DEFINE t == Of(c)
<1>0. /\ Fact(call[c], row, join) /\ Stage(c, "prune") /\ Tables
      /\ UNCHANGED <<row, join, made, review, queue, running>>
  BY DEF OrderInv, Facts, Prune, rowVars, reviewVars
<1>1. /\ call[c].op = "merge" /\ call[c].todo = <<"prune", "refresh", "complete", "merged">>
      /\ call[c].todo # <<>> /\ Head(call[c].todo) = "prune" /\ t \in Task
  BY <1>0, Remaining DEF Stage, Fact, Of
<1>2. row[t].st = "Done"
  <2>1. ASSUME NEW p, p = <<"prune", "refresh", "complete", "merged">>
        PROVE  p \notin {<<"rebase">>, <<"land">>, <<"landed">>}
    BY <2>1
  <2> QED BY <1>0, <1>1, <2>1 DEF Fact, Landed, Of
<1>3. CASE GiveUp(c) /\ UNCHANGED branches
  <2>1. queue' = [u \in Task |-> queue'[u]] /\ \A u \in Task : queue'[u] # "none" => queue[u] # "none"
    BY <1>0 DEF Tables
  <2> QED BY <1>0, <1>1, <1>3, <2>1, QuietReturn DEF GiveUp
<1>4. CASE branches' = branches \ {t} /\ Advance(c)
  <2>1. PICK p : p = <<"refresh", "complete", "merged">>
    OBVIOUS
  <2>2. Staged(call[c].op, p) /\ p \notin {<<"store">>, <<"iterate">>, <<"mark">>} \cup FailedStages
    BY <1>1, <2>1 DEF Staged, MergeStages, FailedStages
  <2>3. Continue(c, p)
    BY <1>1, <1>4, <2>1, MergeTails DEF Advance
  <2>4. /\ Onwards(c) /\ Fact(call'[c], row, join)
        /\ \A u : Untold(call[c], u) => Untold(call'[c], u)
    BY <1>0, <1>2, <2>2, <2>3, CallGoes
  <2>5. Facts' /\ Alone' /\ Finishing'
    BY <1>0, <2>4, OthersHold, AlikeSame, AloneStays, FinishingStays DEF OrderInv, Onwards
  <2>6. Judged'
    <3>1. ASSUME NEW u \in Task, Judging(u)' PROVE u \in branches' /\ Judging(u)
      <4>1. Judging(u)
        BY <1>0, <1>1, <2>4, <3>1, JudgingStays DEF Onwards
      <4>2. u \in branches /\ Unreviewed(u)
        BY <1>0, <4>1 DEF OrderInv, Judged
      <4>3. u # t
        BY <1>2, <4>2 DEF Unreviewed
      <4> QED BY <1>4, <4>1, <4>2, <4>3
    <3>2. ASSUME NEW u \in Task, u \notin branches', row'[u].st # "Done"
          PROVE  u \notin branches /\ row[u].st # "Done"
      BY <1>0, <1>2, <1>4, <3>2
    <3>3. ASSUME NEW u \in Task, Unreviewed(u) PROVE Unreviewed(u)'
      BY <1>0, <2>4, <3>3, UnreviewedStays DEF Onwards, Unreviewed
    <3> QED BY <3>1, <3>2, <3>3, JudgedStays DEF OrderInv
  <2>7. Tables' /\ ReadyAfterDeps'
    BY <1>0 DEF OrderInv, Tables, ReadyAfterDeps, Done
  <2> QED BY <2>5, <2>6, <2>7 DEF Rest
<1> QED BY <1>3, <1>4 DEF Prune

LEMMA EndOrder == ASSUME OrderInv, NEW c \in Caller, EndFinish(c) PROVE Rest
<1>0. /\ Shaped /\ Fact(call[c], row, join) /\ Stage(c, "end") /\ Tables
      /\ running' = running \ {Of(c)}
      /\ UNCHANGED <<row, join, made, review, queue, branches>>
  BY DEF OrderInv, LoopInv, CallsInv, Facts, EndFinish, rowVars, reviewVars
<1>1. call[c].op = "finish" /\ call[c].todo = <<"end">>
  BY <1>0, Remaining DEF Stage, Fact
<1>2. OthersStay(c) /\ call'[c] = Idle
  <2>1. Continue(c, <<>>)
    BY <1>1, Pieces DEF EndFinish, Advance
  <2>2. call[c].next = None
    BY <1>0 DEF Stage
  <2> QED BY <1>0, <2>1, <2>2, Going
<1>3. Onwards(c) /\ Fact(call'[c], row', join') /\ \A u : Untold(call'[c], u)
  <2>1. \A u : Untold(Idle, u)
    BY DEF Untold, Idle
  <2> QED BY <1>2, <2>1, IdleFact DEF Onwards
<1>4. Facts' /\ Alone' /\ Finishing'
  <2>1. Alike(row, join, row', join')
    BY <1>0, AlikeSame
  <2> QED BY <1>0, <1>1, <1>2, <1>3, <2>1, OthersHold, AloneStays, FinishingStays DEF OrderInv
<1>5. Judged'
  <2>1. ASSUME NEW u \in Task, Judging(u)' PROVE u \in branches' /\ Judging(u)
    <3>1. Judging(u)
      BY <1>0, <1>2, <2>1, JudgingStays
    <3> QED BY <1>0, <3>1 DEF OrderInv, Judged
  <2>2. ASSUME NEW u \in Task, Unreviewed(u) PROVE Unreviewed(u)'
    BY <1>0, <1>2, <1>3, <2>2, UnreviewedStays DEF Unreviewed
  <2> QED BY <1>0, <2>1, <2>2, JudgedStays DEF OrderInv
<1>6. Tables' /\ ReadyAfterDeps'
  BY <1>0 DEF OrderInv, Tables, ReadyAfterDeps, Done
<1> QED BY <1>4, <1>5, <1>6 DEF Rest

(* Besides the one call that agents do not make, none holds anything.      *)
LEMMA NothingHeld ==
    ASSUME NEW k, NEW r, NEW j, Fact(k, r, j), ~Solo(k.op)
    PROVE  DOMAIN k.writes = {} /\ k.op \in {"none", "finish"} /\ \A u : Untold(k, u)
<1>1. k.op \in {"none", "finish"} /\ k.todo # <<"store">> /\ DOMAIN k.writes = {}
  <2>1. CASE k.op = "none"
    <3>1. k = Idle
      BY <2>1 DEF Fact
    <3> QED BY <3>1 DEF Idle
  <2>2. CASE k.op = "finish"
    BY <2>2 DEF Fact, Staged, FinishStagesAll, FailedStages, JudgedStages
  <2> QED BY <2>1, <2>2 DEF Solo
<1>2. \A u : Untold(k, u)
  BY <1>1 DEF Untold
<1> QED BY <1>1, <1>2

LEMMA EraseOrder == ASSUME OrderInv, NEW c \in Caller, Erase(c) PROVE Rest
<1>t. PICK t : t = Of(c)
  OBVIOUS
<1>0. /\ Fact(call[c], row, join) /\ Stage(c, "erase") /\ Tables /\ Advance(c)
      /\ UNCHANGED <<made, running, branches>>
      /\ row' = [row EXCEPT ![t] = NoRow]
      /\ join' = [u \in Task |-> IF u = t THEN {} ELSE join[u] \ {t}]
      /\ review' = [review EXCEPT ![t] = "none"] /\ queue' = [queue EXCEPT ![t] = "none"]
  BY <1>t DEF OrderInv, Facts, Erase, gitVars
<1>1. /\ call[c].op = "delete" /\ call[c].todo = <<"erase", "refresh">>
      /\ call[c].todo # <<>> /\ Head(call[c].todo) = "erase" /\ t \in Task
  BY <1>t, <1>0, Remaining DEF Stage, Fact, Of
<1>2. /\ row' = [u \in Task |-> row'[u]] /\ row'[t] = NoRow
      /\ \A u \in Task \ {t} : row'[u] = row[u]
  BY <1>0, <1>1 DEF Tables
<1>3. /\ review' = [u \in Task |-> review'[u]] /\ review'[t] = "none"
      /\ \A u \in Task \ {t} : review'[u] = review[u]
      /\ queue' = [u \in Task |-> queue'[u]] /\ queue'[t] = "none"
      /\ \A u \in Task \ {t} : queue'[u] = queue[u]
  BY <1>0, <1>1 DEF Tables
<1>4. NoRow.st = "none" /\ IsRow(NoRow)
  BY DEF NoRow, IsRow
<1>5. Tables'
  <2>1. \A u \in Task : /\ IsRow(row'[u])
                        /\ review'[u] # "none" \/ queue'[u] # "none" => row'[u] # NoRow
                        /\ u > made => row'[u] = NoRow
    BY <1>0, <1>2, <1>3, <1>4 DEF Tables
  <2> QED BY <1>0, <1>2, <1>3, <2>1 DEF Tables
<1>6. ReadyAfterDeps'
  <2>1. ASSUME NEW u \in Task, row'[u].st = "Ready" PROVE join'[u] \subseteq Done(row')
    <3>1. u # t /\ join'[u] = join[u] \ {t} /\ join[u] \subseteq Done(row)
      BY <1>0, <1>2, <1>4, <2>1 DEF OrderInv, ReadyAfterDeps
    <3> QED BY <1>2, <3>1 DEF Done
  <2> QED BY <2>1 DEF ReadyAfterDeps, Done
<1>7. Fact(call[c], row', join')
  <2>1. ASSUME NEW p, p = <<"erase", "refresh">>
        PROVE  p # <<"store">> /\ p # <<>> /\ Head(p) # "apply" /\ p \notin {<<"iterate">>, <<"mark">>} \cup FailedStages
    BY <2>1 DEF FailedStages
  <2>2. DOMAIN call[c].writes = {}
    BY <1>0, <1>1, <2>1 DEF Fact
  <2>3. Held(call[c], row', join') /\ Updating(call[c], row') /\ Landed(call[c], row')
    BY <1>1, <2>1, <2>2 DEF Held, Updating, Landed
  <2>4. Gate(call[c], row')
    BY <1>1, <2>1 DEF Gate
  <2> QED BY <1>0, <2>3, <2>4 DEF Fact
<1>8. /\ Onwards(c) /\ Fact(call'[c], row', join')
      /\ \A u : Untold(call[c], u) => Untold(call'[c], u)
  <2>1. PICK p : p = <<"refresh">>
    OBVIOUS
  <2>2. Staged(call[c].op, p) /\ p \notin {<<"store">>, <<"iterate">>, <<"mark">>} \cup FailedStages
    BY <1>1, <2>1 DEF Staged, DeleteStages, FailedStages
  <2>3. Continue(c, p) /\ call[c].op # "merge"
    BY <1>0, <1>1, <2>1, Pieces DEF Advance
  <2> QED BY <1>0, <1>7, <2>2, <2>3, CallGoes
<1>9. Facts' /\ Alone' /\ Finishing'
  <2>1. Solo(call[c].op)
    BY <1>1 DEF Solo
  <2>2. Facts'
    BY <1>8, <2>1, OthersHold DEF OrderInv, Onwards
  <2> QED BY <1>0, <1>8, <2>2, AloneStays, FinishingStays DEF OrderInv
<1>10. ASSUME NEW d \in Caller, NEW u PROVE Untold(call'[d], u)
  <2>1. ASSUME NEW p, p = <<"erase", "refresh">>
        PROVE  p # <<"store">> /\ p # <<>> /\ Head(p) # "apply"
    BY <2>1
  <2>2. CASE d = c
    <3>1. DOMAIN call[c].writes = {}
      BY <1>0, <1>1, <2>1 DEF Fact
    <3>2. Untold(call[c], u)
      BY <1>1, <3>1 DEF Untold
    <3> QED BY <1>8, <2>2, <3>2
  <2>3. CASE d # c
    <3>1. call'[d] = call[d] /\ Fact(call[d], row, join) /\ ~Solo(call[d].op)
      BY <1>1, <1>8, <2>3 DEF Onwards, OthersStay, OrderInv, Facts, Alone, Solo
    <3> QED BY <3>1, NothingHeld
  <2> QED BY <2>2, <2>3
<1>11. Judged'
  <2>1. ASSUME NEW u \in Task, Judging(u)' PROVE u \in branches' /\ Judging(u)
    <3>1. Judging(u)
      BY <1>0, <1>1, <1>8, <2>1, JudgingStays DEF Onwards
    <3> QED BY <1>0, <3>1 DEF OrderInv, Judged
  <2>2. Unreviewed(t)'
    <3>1. \A d \in Caller : Untold(call'[d], t)
      BY <1>10
    <3>2. (\A d \in Caller : Untold(call[d], t))'
      BY <3>1 DEF Untold
    <3> QED BY <1>0, <1>2, <1>3, <1>4, <3>2 DEF Unreviewed
  <2>3. ASSUME NEW u \in Task, Unreviewed(u) PROVE Unreviewed(u)'
    <3>1. CASE u = t
      BY <2>2, <3>1
    <3>2. CASE u # t
      <4>1. /\ row'[u].st \notin {"Review", "Done"} /\ review'[u] = "none" /\ queue'[u] = "none"
            /\ Untold(call'[c], u)
        BY <1>2, <1>3, <1>10, <2>3, <3>2 DEF Unreviewed
      <4> QED BY <1>8, <2>3, <4>1, UnreviewedStays DEF Onwards
    <3> QED BY <3>1, <3>2
  <2>4. ASSUME NEW u \in Task, u \notin branches', row'[u].st # "Done"
        PROVE  (u \notin branches /\ row[u].st # "Done") \/ Unreviewed(u)'
    BY <1>0, <1>2, <2>2, <2>4
  <2> QED BY <2>1, <2>3, <2>4, JudgedStays DEF OrderInv
<1> QED BY <1>5, <1>6, <1>9, <1>11 DEF Rest

(* The verdict on a task nobody else has judged, which is never that it is *)
(* Done.                                                                   *)
LEMMA VerdictOrder == ASSUME OrderInv, NEW c \in Caller, WriteVerdict(c) PROVE Rest
<1>0. /\ Shaped /\ Fact(call[c], row, join) /\ Stage(c, "verdict") /\ Tables
      /\ UNCHANGED <<join, made, queue, running, branches>>
  BY DEF OrderInv, LoopInv, CallsInv, Facts, WriteVerdict, gitVars
<1>t. PICK t : t = Of(c)
  OBVIOUS
<1>1. call[c].op = "finish" /\ call[c].todo = <<"verdict">> /\ call[c].task = t
  BY <1>0, <1>t, Remaining DEF Stage, Fact, Of
<1>2. call[c].todo \notin JudgedStages /\ call[c].todo # <<"store">> /\ DOMAIN call[c].writes = {}
  <2>1. ASSUME NEW p, p = <<"verdict">>
        PROVE  p \notin JudgedStages /\ p # <<"store">> /\ p # <<>> /\ Head(p) # "apply"
    BY <2>1 DEF JudgedStages
  <2> QED BY <1>0, <1>1, <2>1 DEF Fact
<1>3. t \in Task /\ Judging(t) /\ Unreviewed(t) /\ t \in branches
  BY <1>1, <1>2, <1>t, OwnTask DEF OrderInv
<1>4. PICK v \in Outcomes(t), b \in BOOLEAN :
          LET new == [call[c].seen EXCEPT !.st = v, !.complete = b]
          IN  /\ Store(t, new)
              /\ call' = [call EXCEPT ![c].seen = new, ![c].todo = FinishStages(v)]
              /\ IF v # "Review" \/ ~Exists(t) THEN UNCHANGED review
                 ELSE \/ review' = [review EXCEPT ![t] = "Ready"]
                      \/ PackFails /\ UNCHANGED review
  BY <1>t DEF WriteVerdict
<1> DEFINE r == WithVerdict(call[c].seen, v, b)
           k == [call[c] EXCEPT !.seen = r, !.todo = FinishStages(v)]
<1>5. v \in {"Failed", "Review", "InProgress"}
  BY <1>3 DEF Outcomes, OrderInv, Unpromised
<1>6. IsRow(r) /\ r.st = v
  <2>1. IsRow(call[c].seen) /\ v # "none"
    BY <1>0, <1>5 DEF Fact
  <2> QED BY <2>1, RowVerdict
<1>7. /\ Store(t, r) /\ call' = [call EXCEPT ![c] = k]
      /\ review' = review \/ (v = "Review" /\ row[t] # NoRow /\ review' = [review EXCEPT ![t] = "Ready"])
  BY <1>0, <1>4 DEF WithVerdict, Shaped, Exists
<1>8. /\ k.seen = r /\ k.todo = FinishStages(v) /\ k.op = "finish" /\ k.task = t
      /\ k.writes = call[c].writes /\ k.next = call[c].next
  <2>1. DOMAIN call[c] = Fields
    BY <1>0, IsFields DEF Shaped
  <2> QED BY <1>1, <2>1 DEF Fields
<1> HIDE DEF r, k
<1>9. call'[c] = k /\ OthersStay(c)
  BY <1>0, <1>7, Becoming
<1>10. /\ \A u \in Task : row[u] = NoRow <=> row'[u] = NoRow
       /\ \A u \in Task \ {t} : row'[u] = row[u]
       /\ row[t] = NoRow => row'[t] = NoRow
       /\ row[t] # NoRow => row'[t] = r
       /\ row' = [u \in Task |-> row'[u]] /\ \A u \in Task : IsRow(row'[u])
  BY <1>0, <1>3, <1>5, <1>6, <1>7, Stored
<1>11. Alike(row, join, row', join') /\ ReadyAfterDeps'
  <2>1. row[t].st # "Done" /\ r.st \notin {"none", "Done", "Ready"}
    BY <1>3, <1>5, <1>6 DEF Unreviewed
  <2> QED BY <1>0, <1>3, <1>6, <1>7, <2>1, AlikeStored, ReadyStored DEF OrderInv
<1>12. Tables'
  <2>1. /\ review' = [u \in Task |-> review'[u]]
        /\ \A u \in Task : review'[u] # "none" => review[u] # "none" \/ row[u] # NoRow
    BY <1>0, <1>3, <1>7 DEF Tables
  <2> QED BY <1>0, <1>10, <2>1 DEF Tables
<1>13. FinishStages(v) = IF v = "Failed" THEN <<"loop", "cleanup", "end">> ELSE <<"end">>
  BY <1>5 DEF FinishStages
<1>14. Fact(k, row', join')
  <2>1. ASSUME NEW p, p = FinishStages(v)
        PROVE  /\ p # <<"store">> /\ p # <<>> /\ Head(p) # "apply" /\ p \in FinishStagesAll
               /\ p \in {<<"iterate">>, <<"mark">>} \cup FailedStages => v = "Failed"
    BY <1>13, <2>1 DEF FinishStagesAll, FailedStages, JudgedStages
  <2>2. k.todo # <<"store">> /\ k.todo # <<>> /\ Head(k.todo) # "apply" /\ k.todo \in FinishStagesAll
        /\ (k.todo \in {<<"iterate">>, <<"mark">>} \cup FailedStages => v = "Failed")
    BY <1>8, <2>1
  <2>3. Held(k, row', join') /\ Updating(k, row') /\ Landed(k, row') /\ Gate(k, row')
    BY <1>2, <1>6, <1>8, <2>2 DEF Held, Updating, Landed, Gate
  <2>4. Staged(k.op, k.todo)
    BY <1>8, <2>2 DEF Staged
  <2>5. call[c].next = None
    BY <1>0 DEF Stage
  <2> QED BY <1>2, <1>3, <1>6, <1>8, <2>2, <2>3, <2>4, <2>5 DEF Fact
<1>15. Onwards(c)
  BY <1>1, <1>8, <1>9 DEF Onwards
<1>16. Facts' /\ Alone' /\ Finishing'
  BY <1>0, <1>9, <1>11, <1>14, <1>15, OthersHold, AloneStays, FinishingStays DEF OrderInv
<1>17. \A u : Untold(k, u)
  BY <1>2, <1>8 DEF Untold
<1>18. Judged'
  <2>1. ASSUME NEW u \in Task, Judging(u)' PROVE u \in branches' /\ Judging(u)
    <3>1. Judging(u)
      BY <1>0, <1>2, <1>9, <2>1, JudgingStays
    <3> QED BY <1>0, <3>1 DEF OrderInv, Judged
  <2>2. \A u \in Task : row'[u].st # "Done" => row[u].st # "Done"
    BY <1>11 DEF Alike
  <2>3. ASSUME NEW u \in Task, Unreviewed(u), Judging(u)' \/ u \notin branches' PROVE Unreviewed(u)'
    <3>1. CASE u # t
      <4>1. /\ row'[u].st \notin {"Review", "Done"} /\ review'[u] = "none" /\ queue'[u] = "none"
        BY <1>0, <1>7, <1>10, <2>3, <3>1 DEF Unreviewed, Tables
      <4> QED BY <1>9, <1>17, <2>3, <4>1, UnreviewedStays
    <3>2. CASE u = t
      <4>1. v = "Failed"
        <5>1. k.todo \notin JudgedStages
          <6>1. Judging(t)'
            BY <1>0, <1>3, <2>3, <3>2
          <6>2. \A d \in Caller : call'[d].op = "finish" /\ call'[d].task = t => call'[d].todo \notin JudgedStages
            BY <6>1 DEF Judging, Of
          <6> QED BY <1>8, <1>9, <6>2
        <5> QED BY <1>8, <1>13, <5>1 DEF JudgedStages
      <4>2. row'[t].st \in {"Failed", "none"} /\ review'[t] = "none" /\ queue'[t] = "none"
        BY <1>0, <1>3, <1>6, <1>7, <1>10, <4>1 DEF Unreviewed, NoRow
      <4> QED BY <1>9, <1>17, <2>3, <3>2, <4>2, UnreviewedStays
    <3> QED BY <3>1, <3>2
  <2> QED BY <2>1, <2>2, <2>3, <1>0, JudgedStays DEF OrderInv
<1> QED BY <1>11, <1>12, <1>16, <1>18 DEF Rest

(* A dispatch: the task was Ready and nothing had been done about it.      *)
LEMMA StartOrder ==
    ASSUME OrderInv, NEW t \in Task, Dispatchable(t), Start(t), UNCHANGED <<review, queue>>
    PROVE  /\ Alike(row, join, row', join') /\ Tables' /\ ReadyAfterDeps'
           /\ running' = running \cup {t} /\ branches' = branches \cup {t}
           /\ row[t].st = "Ready" /\ t \notin running \cup branches
           /\ \A u \in Task : row'[u].st = "Review" <=> row[u].st = "Review"
<1> DEFINE r == WithStatus(row[t], "InProgress")
<1>0. Tables /\ row[t].st = "Ready" /\ t \notin running \cup branches /\ row[t] # NoRow
  BY DEF OrderInv, Dispatchable, Is, NoRow
<1>1. /\ row' = [row EXCEPT ![t] = r] /\ UNCHANGED <<join, made>>
      /\ running' = running \cup {t} /\ branches' = branches \cup {t}
  BY DEF Start, WithStatus
<1>2. IsRow(r) /\ r.st = "InProgress"
  BY <1>0, RowStatus DEF Tables
<1> HIDE DEF r
<1>3. Store(t, r)
  BY <1>0, <1>1 DEF Store, Exists
<1>4. Alike(row, join, row', join') /\ Tables' /\ ReadyAfterDeps'
  BY <1>0, <1>1, <1>2, <1>3, AlikeStored, TablesStored, ReadyStored DEF OrderInv
<1>5. \A u \in Task : row'[u].st = "Review" <=> row[u].st = "Review"
  BY <1>0, <1>1, <1>2 DEF Tables
<1> QED BY <1>0, <1>1, <1>4, <1>5

(* Whoever has it done.                                                    *)
LEMMA StartedJudged ==
    ASSUME OrderInv, NEW t \in Task, Dispatchable(t), Start(t), UNCHANGED <<review, queue>>,
           \A c \in Caller : /\ call[c].op = "finish" => call'[c] = call[c]
                             /\ call'[c].op = "finish" => call'[c] = call[c]
                             /\ \A u \in Task : Untold(call[c], u) => Untold(call'[c], u)
    PROVE  Judged' /\ Finishing'
<1>1. /\ Alike(row, join, row', join')
      /\ running' = running \cup {t} /\ branches' = branches \cup {t}
      /\ row[t].st = "Ready" /\ t \notin running \cup branches
      /\ \A u \in Task : row'[u].st = "Review" <=> row[u].st = "Review"
  BY StartOrder
<1>2. ASSUME NEW u \in Task, Judging(u)'
      PROVE  u \in branches' /\ (Judging(u) \/ (u \notin branches /\ row[u].st # "Done"))
  <2>1. CASE u = t
    BY <1>1, <2>1
  <2>2. CASE u # t
    <3>1. Judging(u)
      <4>1. u \in running' /\ \A d \in Caller : call'[d].op = "finish" /\ call'[d].task = u => call'[d].todo \notin JudgedStages
        BY <1>2 DEF Judging, Of
      <4> QED BY <1>1, <2>2, <4>1 DEF Judging, Of
    <3> QED BY <1>1, <3>1 DEF OrderInv, Judged
  <2> QED BY <2>1, <2>2
<1>3. ASSUME NEW u \in Task, Unreviewed(u) PROVE Unreviewed(u)'
  <2>1. \A d \in Caller : Untold(call'[d], u)
    BY <1>3 DEF Unreviewed
  <2>2. (\A d \in Caller : Untold(call[d], u))'
    BY <2>1 DEF Untold
  <2> QED BY <1>1, <1>3, <2>2 DEF Unreviewed, Alike
<1>4. Judged'
  <2>1. \A u \in Task : row'[u].st # "Done" => row[u].st # "Done"
    BY <1>1 DEF Alike
  <2> QED BY <1>1, <1>2, <1>3, <2>1, JudgedStays DEF OrderInv
<1>5. Finishing'
  BY <1>1 DEF OrderInv, Finishing, Of
<1> QED BY <1>4, <1>5

LEMMA DispatchOrder == ASSUME OrderInv, NEW t \in Task, DispatchTask(t) PROVE Rest
<1>1. Dispatchable(t) /\ Start(t) /\ UNCHANGED <<review, queue, call>>
  BY DEF DispatchTask, reviewVars
<1>2. Alike(row, join, row', join') /\ Tables' /\ ReadyAfterDeps'
  BY <1>1, StartOrder
<1>3. Judged' /\ Finishing'
  BY <1>1, StartedJudged
<1>4. Facts' /\ Alone'
  <2>1. ASSUME NEW d \in Caller PROVE Fact(call'[d], row', join')
    BY <1>1, <1>2, FactStays DEF OrderInv, Facts
  <2> QED BY <1>1, <2>1 DEF OrderInv, Facts, Alone
<1> QED BY <1>2, <1>3, <1>4 DEF Rest

LEMMA DispatchNextOrder == ASSUME OrderInv, NEW c \in Caller, DispatchNext(c) PROVE Rest
<1> DEFINE t == call[c].next
           k == [call[c] EXCEPT !.next = None]
<1>0. /\ Shaped /\ Fact(call[c], row, join) /\ Tables
      /\ call[c].next # None /\ call' = [call EXCEPT ![c] = Goes(k)]
      /\ UNCHANGED <<review, queue>>
      /\ IF Dispatchable(t) THEN Start(t) ELSE UNCHANGED <<rowVars, gitVars>>
  BY DEF OrderInv, LoopInv, CallsInv, Facts, DispatchNext, reviewVars, Shaped
<1>1. Solo(call[c].op) /\ t \in Task
  BY <1>0 DEF Fact
<1>2. /\ k.next = None /\ k.seen = call[c].seen /\ k.todo = call[c].todo /\ k.op = call[c].op
      /\ k.task = call[c].task /\ k.writes = call[c].writes
  <2>1. DOMAIN call[c] = Fields
    BY <1>0, IsFields DEF Shaped
  <2> QED BY <2>1 DEF Fields
<1> HIDE DEF k
<1>3. OthersStay(c) /\ call'[c] = Goes(k)
  BY <1>0, Becoming
<1>4. ASSUME NEW r, NEW j, Fact(call[c], r, j) PROVE Fact(call'[c], r, j)
  <2>1. Held(k, r, j) /\ Updating(k, r) /\ Landed(k, r) /\ Gate(k, r)
    BY <1>2, <1>4 DEF Fact, Held, Updating, Landed, Gate
  <2>2. k.op # "none"
    BY <1>1, <1>2 DEF Solo
  <2>3. Fact(k, r, j)
    BY <1>2, <1>4, <2>1, <2>2 DEF Fact
  <2> QED BY <1>3, <2>3, IdleFact DEF Goes
<1>5. Onwards(c)
  BY <1>2, <1>3 DEF Onwards, Goes
<1>6. \A u \in Task : Untold(call[c], u) => Untold(call'[c], u)
  <2>1. \A u : Untold(Idle, u)
    BY DEF Untold, Idle
  <2> QED BY <1>2, <1>3, <2>1 DEF Goes, Untold
<1>7. CASE ~Dispatchable(t)
  <2>1. UNCHANGED <<row, join, made, running, branches>>
    BY <1>0, <1>7 DEF rowVars, gitVars
  <2> QED BY <1>0, <1>1, <1>4, <1>5, <1>6, <2>1, QuietStep DEF Rest, Tables, Solo
<1>8. CASE Dispatchable(t)
  <2>u. PICK u \in Task : u = t
    BY <1>1
  <2>1. Dispatchable(u) /\ Start(u)
    BY <1>0, <1>8, <2>u
  <2>2. Alike(row, join, row', join') /\ Tables' /\ ReadyAfterDeps'
    BY <1>0, <2>1, StartOrder
  <2>3. \A d \in Caller : /\ call[d].op = "finish" => call'[d] = call[d]
                          /\ call'[d].op = "finish" => call'[d] = call[d]
                          /\ \A w \in Task : Untold(call[d], w) => Untold(call'[d], w)
    BY <1>1, <1>5, <1>6, IdleFact DEF Onwards, OthersStay, Solo
  <2>4. Judged' /\ Finishing'
    BY <1>0, <2>1, <2>3, StartedJudged
  <2>5. Fact(call'[c], row', join')
    BY <1>0, <1>4, <2>2, FactStays
  <2>6. Facts' /\ Alone'
    BY <1>3, <1>5, <2>2, <2>5, OthersHold, AloneStays DEF OrderInv
  <2> QED BY <2>2, <2>4, <2>6 DEF Rest
<1> QED BY <1>7, <1>8

(* update_task stores what it made of the row it read.                     *)
LEMMA UpdateOrder == ASSUME OrderInv, NEW c \in Caller, StoreUpdate(c) PROVE Rest
<1>0. /\ Shaped /\ Fact(call[c], row, join) /\ Stage(c, "store") /\ Tables
      /\ UNCHANGED <<made, review, queue, running, branches>>
  BY DEF OrderInv, LoopInv, CallsInv, Facts, StoreUpdate, reviewVars, gitVars
<1>t. PICK t : t = Of(c)
  OBVIOUS
<1>1. /\ call[c].op = "update" /\ call[c].todo = <<"store">> /\ call[c].task = t /\ t \in Task
      /\ call[c].next = None
  BY <1>0, <1>t, Remaining DEF Stage, Fact, Of
<1> DEFINE w == call[c].writes[t]
<1>2. /\ DOMAIN call[c].writes = {t} /\ IsRow(w) /\ w.st # "none" /\ row[t] # NoRow
      /\ row[t].st = "Done" <=> call[c].seen.st = "Done"
      /\ call[c].seen.st = "Done" => w.st = "Done"
      /\ w.st = "Review" => call[c].seen.st = "Review"
      /\ w.st = "Done" => call[c].seen.st \in {"Review", "Done"}
      /\ w.st = "Ready" => w.deps \subseteq Done(row)
  BY <1>0, <1>1 DEF Fact, Held, Updating
<1>3. \/ Return(c) /\ UNCHANGED <<row, join>>
      \/ /\ Store(t, w) /\ join' = [join EXCEPT ![t] = w.deps]
         /\ \E q \in {<<"refresh", "cleanup", "loop">>, <<"refresh">>} :
               call' = [call EXCEPT ![c].seen = w, ![c].writes = <<>>, ![c].todo = q]
  BY <1>2, <1>t DEF StoreUpdate, Exists
<1>4. CASE Return(c) /\ UNCHANGED <<row, join>>
  BY <1>0, <1>1, <1>4, QuietReturn DEF Tables
<1>5. ASSUME Store(t, w), join' = [join EXCEPT ![t] = w.deps],
             NEW q \in {<<"refresh", "cleanup", "loop">>, <<"refresh">>},
             call' = [call EXCEPT ![c].seen = w, ![c].writes = <<>>, ![c].todo = q]
      PROVE  Rest
  <2> DEFINE k == [call[c] EXCEPT !.seen = w, !.writes = <<>>, !.todo = q]
  <2>1. /\ k.seen = w /\ k.writes = <<>> /\ k.todo = q /\ k.op = "update" /\ k.task = t
        /\ k.next = call[c].next
    <3>1. DOMAIN call[c] = Fields
      BY <1>0, IsFields DEF Shaped
    <3> QED BY <1>1, <3>1 DEF Fields
  <2>2. call' = [call EXCEPT ![c] = k]
    BY <1>0, <1>5 DEF Shaped
  <2> HIDE DEF k, w
  <2>3. call'[c] = k /\ OthersStay(c)
    BY <1>0, <2>2, Becoming
  <2>4. /\ \A u \in Task : row[u] = NoRow <=> row'[u] = NoRow
        /\ \A u \in Task \ {t} : row'[u] = row[u]
        /\ row'[t] = w
        /\ row' = [u \in Task |-> row'[u]] /\ \A u \in Task : IsRow(row'[u])
    BY <1>0, <1>1, <1>2, <1>5, Stored
  <2>5. \A u \in Task : row[u].st = "Done" => row'[u].st = "Done"
    BY <1>2, <2>4
  <2>6. Done(row) \subseteq Done(row')
    BY <2>5 DEF Done
  <2>7. /\ join' = [u \in Task |-> join'[u]] /\ join'[t] = w.deps
        /\ \A u \in Task \ {t} : join'[u] = join[u]
    BY <1>0, <1>1, <1>5 DEF Tables
  <2>8. Tables'
    BY <1>0, <2>4, <2>7 DEF Tables
  <2>9. ReadyAfterDeps'
    <3>1. ASSUME NEW u \in Task, row'[u].st = "Ready" PROVE join'[u] \subseteq Done(row')
      <4>1. CASE u = t
        BY <1>2, <2>4, <2>6, <2>7, <3>1, <4>1
      <4>2. CASE u # t
        <5>1. join[u] \subseteq Done(row)
          BY <2>4, <3>1, <4>2 DEF OrderInv, ReadyAfterDeps
        <5> QED BY <2>6, <2>7, <4>2, <5>1
      <4> QED BY <4>1, <4>2
    <3> QED BY <3>1 DEF ReadyAfterDeps, Done
  <2>10. Fact(k, row', join')
    <3>1. /\ q # <<"store">> /\ q # <<>> /\ Head(q) # "apply"
          /\ q \notin {<<"iterate">>, <<"mark">>} \cup FailedStages /\ q \in UpdateStages
      BY <1>5 DEF FailedStages, UpdateStages
    <3>2. DOMAIN k.writes = {}
      BY <2>1
    <3>3. Held(k, row', join') /\ Updating(k, row') /\ Landed(k, row') /\ Gate(k, row')
      BY <2>1, <2>4, <3>1, <3>2 DEF Held, Updating, Landed, Gate
    <3>4. Staged(k.op, k.todo)
      BY <2>1, <3>1 DEF Staged
    <3> QED BY <1>1, <1>2, <2>1, <3>1, <3>2, <3>3, <3>4 DEF Fact
  <2>11. Onwards(c) /\ Solo(call[c].op) /\ call[c].op # "finish"
    BY <1>1, <2>1, <2>3 DEF Onwards, Solo
  <2>12. Facts' /\ Alone' /\ Finishing'
    BY <1>0, <2>3, <2>10, <2>11, OthersHold, AloneStays, FinishingStays DEF OrderInv
  <2>13. Judged'
    <3>1. ASSUME NEW u \in Task, Judging(u)' PROVE u \in branches' /\ Judging(u)
      <4>1. Judging(u)
        BY <1>0, <2>3, <2>11, <3>1, JudgingStays
      <4> QED BY <1>0, <4>1 DEF OrderInv, Judged
    <3>2. ASSUME NEW u \in Task, Unreviewed(u) PROVE Unreviewed(u)'
      <4>1. Untold(k, u)
        <5>1. q # <<"store">>
          BY <1>5
        <5> QED BY <2>1, <5>1 DEF Untold
      <4>2. row'[u].st \notin {"Review", "Done"}
        <5>1. CASE u # t
          BY <2>4, <3>2, <5>1 DEF Unreviewed
        <5>2. CASE u = t
          <6>1. call[c].seen.st # "Review" /\ row[t].st # "Done"
            BY <1>1, <3>2, <5>2 DEF Unreviewed, Untold
          <6> QED BY <1>2, <2>4, <5>2, <6>1
        <5> QED BY <5>1, <5>2
      <4>3. review'[u] = "none" /\ queue'[u] = "none"
        BY <1>0, <3>2 DEF Unreviewed
      <4> QED BY <2>3, <3>2, <4>1, <4>2, <4>3, UnreviewedStays
    <3> QED BY <1>0, <2>5, <3>1, <3>2, JudgedStays DEF OrderInv
  <2> QED BY <2>8, <2>9, <2>12, <2>13 DEF Rest
<1> QED BY <1>3, <1>4, <1>5

(* A step that is no call's.                                               *)
LEMMA StillStep ==
    ASSUME OrderInv, UNCHANGED <<call, running, branches>>, Alike(row, join, row', join'),
           Tables', ReadyAfterDeps',
           \A t \in Task : Unreviewed(t) =>
               row'[t].st # "Review" /\ review'[t] = "none" /\ queue'[t] = "none"
    PROVE  Rest
<1>1. Facts' /\ Alone' /\ Finishing'
  <2>1. ASSUME NEW d \in Caller PROVE Fact(call'[d], row', join')
    BY FactStays DEF OrderInv, Facts
  <2> QED BY <2>1 DEF OrderInv, Facts, Alone, Finishing, Of
<1>2. ASSUME NEW u \in Task, Judging(u)' PROVE u \in branches' /\ Judging(u)
  <2>1. u \in running' /\ \A d \in Caller : call'[d].op = "finish" /\ call'[d].task = u => call'[d].todo \notin JudgedStages
    BY <1>2 DEF Judging, Of
  <2>2. Judging(u)
    BY <2>1 DEF Judging, Of
  <2> QED BY <2>2 DEF OrderInv, Judged
<1>3. ASSUME NEW u \in Task, Unreviewed(u) PROVE Unreviewed(u)'
  <2>1. \A d \in Caller : Untold(call'[d], u)
    BY <1>3 DEF Unreviewed
  <2>2. (\A d \in Caller : Untold(call[d], u))'
    BY <2>1 DEF Untold
  <2> QED BY <1>3, <2>2 DEF Unreviewed, Alike
<1>4. Judged'
  <2>1. \A u \in Task : row'[u].st # "Done" => row[u].st # "Done"
    BY DEF Alike
  <2> QED BY <1>2, <1>3, <2>1, JudgedStays DEF OrderInv
<1> QED BY <1>1, <1>4 DEF Rest

(* A call begins, alone among those that are not an agent's end, or as an  *)
(* agent's end.                                                            *)
LEMMA BeginStep ==
    ASSUME OrderInv, NEW c \in Caller, OthersStay(c), call[c] = Idle, Fact(call'[c], row', join'),
           UNCHANGED <<running, branches>>, Alike(row, join, row', join'), Tables', ReadyAfterDeps',
           \A t \in Task : Unreviewed(t) =>
               /\ row'[t].st # "Review" /\ review'[t] = "none" /\ queue'[t] = "none"
               /\ Untold(call'[c], t),
           call'[c].op # "finish" => \A d \in Caller \ {c} : ~Solo(call[d].op),
           call'[c].op = "finish" =>
               /\ call'[c].task \in running
               /\ \A d \in Caller \ {c} : call[d].op = "finish" => call[d].task # call'[c].task
    PROVE  Rest
<1>0. call[c].op = "none" /\ ~Solo(call[c].op)
  BY IdleFact
<1>1. Facts'
  BY OthersHold DEF OrderInv
<1>2. Alone'
  <2>1. ASSUME NEW d \in Caller, NEW e \in Caller, Solo(call'[d].op), Solo(call'[e].op) PROVE d = e
    <3>1. CASE d # c /\ e # c
      BY <2>1, <3>1 DEF OrderInv, Alone, OthersStay
    <3>2. CASE call'[c].op = "finish"
      BY <2>1, <3>1, <3>2 DEF Solo
    <3>3. CASE call'[c].op # "finish" /\ (d = c \/ e = c)
      BY <2>1, <3>3 DEF OthersStay
    <3> QED BY <3>1, <3>2, <3>3
  <2> QED BY <2>1 DEF Alone
<1>3. Finishing'
  <2>1. \A d \in Caller : call'[d].op = "finish" =>
          /\ call'[d].task \in running
          /\ \A e \in Caller : call'[e].op = "finish" /\ call'[e].task = call'[d].task => d = e
    BY DEF OrderInv, Finishing, OthersStay, Of
  <2> QED BY <2>1 DEF Finishing, Of
<1>4. Judged'
  <2>1. ASSUME NEW u \in Task, Judging(u)' PROVE u \in branches' /\ Judging(u)
    <3>1. Judging(u)
      BY <1>0, <2>1, JudgingStays
    <3> QED BY <3>1 DEF OrderInv, Judged
  <2>2. ASSUME NEW u \in Task, Unreviewed(u) PROVE Unreviewed(u)'
    <3>1. row'[u].st # "Done"
      BY <2>2 DEF Unreviewed, Alike
    <3> QED BY <2>2, <3>1, UnreviewedStays
  <2>3. \A u \in Task : row'[u].st # "Done" => row[u].st # "Done"
    BY DEF Alike
  <2> QED BY <2>1, <2>2, <2>3, JudgedStays DEF OrderInv
<1> QED BY <1>1, <1>2, <1>3, <1>4 DEF Rest

(* What a call is when it begins, and who else is about.                   *)
LEMMA BeginsAs ==
    ASSUME OrderInv, Orderly, NEW c \in Caller, NEW o, Free(c, o), NEW k,
           call' = [call EXCEPT ![c] = k]
    PROVE  /\ OthersStay(c) /\ call'[c] = k /\ call[c] = Idle
           /\ o # "finish" /\ o # "merge" => \A d \in Caller \ {c} : ~Solo(call[d].op)
           /\ o = "merge" /\ lock = None => \A d \in Caller \ {c} : ~Solo(call[d].op)
<1>1. OthersStay(c) /\ call'[c] = k
  BY Becoming DEF OrderInv, LoopInv, CallsInv
<1>2. call[c] = Idle /\ (o # "finish" => \A d \in Caller : call[d].op \in {"none", "finish"} \cup ({"merge"} \cap {o}))
  BY DEF Free, Busy, Orderly
<1>3. lock = None => \A d \in Caller : call[d].op # "merge"
  <2>1. None \notin Caller
    BY WorkflowAssumption
  <2> QED BY <2>1 DEF OrderInv, LoopInv, CallsInv, CallsOK
<1> QED BY <1>1, <1>2, <1>3 DEF Solo

LEMMA CallIs ==
    ASSUME NEW o, NEW t, NEW q
    PROVE  /\ Call(o, t, q).op = o /\ Call(o, t, q).task = t /\ Call(o, t, q).todo = q
           /\ Call(o, t, q).seen = IF t = None THEN NoRow ELSE row[t]
           /\ DOMAIN Call(o, t, q).writes = {} /\ Call(o, t, q).next = None
<1>1. DOMAIN <<>> = {}
  OBVIOUS
<1> QED BY <1>1 DEF Call

LEMMA UserBegins ==
    ASSUME OrderInv, Orderly, NEW c \in Caller, NEW o \in {"delete", "update", "create"}, Free(c, o),
           NEW k, call' = [call EXCEPT ![c] = k]
    PROVE  /\ OthersStay(c) /\ call'[c] = k /\ call[c] = Idle
           /\ \A d \in Caller \ {c} : ~Solo(call[d].op)
<1>1. o # "finish" /\ o # "merge"
  OBVIOUS
<1> QED BY <1>1, BeginsAs

(* The calls of users, by the stages they begin with.                      *)
LEMMA DeleteBegins == ASSUME OrderInv, Orderly, NEW c \in Caller, NEW t \in Task, BeginDelete(c, t) PROVE Rest
<1>1. /\ Free(c, "delete") /\ call' = [call EXCEPT ![c] = Call("delete", t, <<"cleanup", "erase", "refresh">>)]
      /\ UNCHANGED <<row, join, made, review, queue, running, branches>>
  BY DEF BeginDelete, Begin, rowVars, reviewVars, gitVars
<1> DEFINE k == Call("delete", t, <<"cleanup", "erase", "refresh">>)
<1>2. /\ k.op = "delete" /\ k.task = t /\ k.todo = <<"cleanup", "erase", "refresh">>
      /\ k.seen = row[t] /\ DOMAIN k.writes = {} /\ k.next = None
  <2>1. t # None
    BY WorkflowAssumption
  <2> QED BY <2>1, CallIs
<1> HIDE DEF k
<1>3. /\ OthersStay(c) /\ call'[c] = k /\ call[c] = Idle /\ \A d \in Caller \ {c} : ~Solo(call[d].op)
  BY <1>1, UserBegins DEF k
<1>4. Fact(k, row, join) /\ \A u : Untold(k, u)
  <2>1. ASSUME NEW p, p = <<"cleanup", "erase", "refresh">>
        PROVE  /\ p # <<"store">> /\ p # <<>> /\ Head(p) # "apply" /\ p \in DeleteStages
               /\ p \notin {<<"iterate">>, <<"mark">>} \cup FailedStages
    BY <2>1 DEF DeleteStages, FailedStages
  <2>2. IsRow(row[t])
    BY DEF OrderInv, Tables
  <2>3. Staged(k.op, k.todo) /\ k.todo # <<"store">>
    BY <1>2, <2>1 DEF Staged
  <2>4. Held(k, row, join) /\ Updating(k, row) /\ Landed(k, row) /\ Gate(k, row)
    BY <1>2, <2>1 DEF Held, Updating, Landed, Gate
  <2> QED BY <1>2, <2>2, <2>3, <2>4 DEF Fact, Untold
<1>5. Tables' /\ ReadyAfterDeps' /\ Alike(row, join, row', join')
  BY <1>1, AlikeSame DEF OrderInv, Tables, ReadyAfterDeps, Done
<1> QED BY <1>1, <1>2, <1>3, <1>4, <1>5, BeginStep DEF Unreviewed

LEMMA FinishBegins == ASSUME OrderInv, Orderly, NEW c \in Caller, NEW t \in Task, BeginFinish(c, t) PROVE Rest
<1>1. PICK q \in {<<"verdict">>, <<"end">>} :
          /\ Free(c, "finish") /\ call' = [call EXCEPT ![c] = Call("finish", t, q)]
          /\ UNCHANGED <<row, join, made, review, queue, running, branches>>
          /\ t \in running /\ \A d \in Caller : call[d].op = "finish" => call[d].task # t
  BY DEF BeginFinish, Begin, rowVars, reviewVars, gitVars, Of
<1> DEFINE k == Call("finish", t, q)
<1>2. /\ k.op = "finish" /\ k.task = t /\ k.todo = q
      /\ k.seen = row[t] /\ DOMAIN k.writes = {} /\ k.next = None
  <2>1. t # None
    BY WorkflowAssumption
  <2> QED BY <2>1, CallIs
<1> HIDE DEF k
<1>3. OthersStay(c) /\ call'[c] = k /\ call[c] = Idle
  BY <1>1, BeginsAs DEF k
<1>4. Fact(k, row, join) /\ \A u : Untold(k, u)
  <2>1. /\ q # <<"store">> /\ q # <<>> /\ Head(q) # "apply" /\ q \in FinishStagesAll
        /\ q \notin {<<"iterate">>, <<"mark">>} \cup FailedStages
    BY <1>1 DEF FinishStagesAll, FailedStages, JudgedStages
  <2>2. IsRow(row[t])
    BY DEF OrderInv, Tables
  <2>3. Staged(k.op, k.todo) /\ k.todo # <<"store">>
    BY <1>2, <2>1 DEF Staged
  <2>4. Held(k, row, join) /\ Updating(k, row) /\ Landed(k, row) /\ Gate(k, row)
    BY <1>2, <2>1 DEF Held, Updating, Landed, Gate
  <2> QED BY <1>2, <2>2, <2>3, <2>4 DEF Fact, Untold
<1>5. Tables' /\ ReadyAfterDeps' /\ Alike(row, join, row', join')
  BY <1>1, AlikeSame DEF OrderInv, Tables, ReadyAfterDeps, Done
<1> QED BY <1>1, <1>2, <1>3, <1>4, <1>5, BeginStep DEF Unreviewed

LEMMA MergeBegins == ASSUME OrderInv, Orderly, NEW c \in Caller, NEW t \in Task, BeginMerge(c, t) PROVE Rest
<1>1. /\ queue[t] # "none" /\ lock = None /\ SetQueue(t, "Running")
      /\ UNCHANGED <<row, join, made, review, running, branches>> /\ Tables
  BY DEF BeginMerge, LockFree, rowVars, reviewVars, gitVars, OrderInv
<1>2. queue' = [u \in Task |-> queue'[u]] /\ \A u \in Task : queue'[u] # "none" => queue[u] # "none"
  BY <1>1, QueueSet
<1>3. Tables' /\ ReadyAfterDeps' /\ Alike(row, join, row', join')
  BY <1>1, <1>2, AlikeSame DEF OrderInv, Tables, ReadyAfterDeps, Done
<1>4. CASE UNCHANGED call
  BY <1>1, <1>2, <1>3, <1>4, StillStep DEF Unreviewed
<1>5. CASE Begin(c, "merge", t, <<"rebase">>)
  <2> DEFINE k == Call("merge", t, <<"rebase">>)
  <2>1. Free(c, "merge") /\ call' = [call EXCEPT ![c] = k]
    BY <1>5 DEF Begin
  <2>2. /\ k.op = "merge" /\ k.task = t /\ k.todo = <<"rebase">>
        /\ k.seen = row[t] /\ DOMAIN k.writes = {} /\ k.next = None
    <3>1. t # None
      BY WorkflowAssumption
    <3> QED BY <3>1, CallIs
  <2> HIDE DEF k
  <2>3. OthersStay(c) /\ call'[c] = k /\ call[c] = Idle /\ \A d \in Caller \ {c} : ~Solo(call[d].op)
    BY <1>1, <2>1, BeginsAs
  <2>4. Fact(k, row, join) /\ \A u \in Task \ {t} : Untold(k, u)
    <3>1. ASSUME NEW p, p = <<"rebase">>
          PROVE  /\ p # <<"store">> /\ p # <<>> /\ Head(p) # "apply" /\ p \in MergeStages
                 /\ p \notin {<<"iterate">>, <<"mark">>} \cup FailedStages
      BY <3>1 DEF MergeStages, FailedStages
    <3>2. IsRow(row[t]) /\ row[t] # NoRow
      BY <1>1 DEF Tables
    <3>3. Staged(k.op, k.todo) /\ k.todo # <<"store">>
      BY <2>2, <3>1 DEF Staged
    <3>4. Held(k, row, join) /\ Updating(k, row) /\ Landed(k, row) /\ Gate(k, row)
      BY <2>2, <3>1, <3>2 DEF Held, Updating, Landed, Gate
    <3> QED BY <2>2, <3>2, <3>3, <3>4 DEF Fact, Untold
  <2>5. ASSUME NEW u \in Task, Unreviewed(u)
        PROVE  /\ row'[u].st # "Review" /\ review'[u] = "none" /\ queue'[u] = "none"
               /\ Untold(call'[c], u)
    BY <1>1, <1>2, <2>3, <2>4, <2>5 DEF Unreviewed
  <2> QED BY <1>1, <1>3, <2>2, <2>3, <2>4, <2>5, BeginStep
<1> QED BY <1>4, <1>5 DEF BeginMerge

(* What refresh_blocked_status makes of the status that is asked for.      *)
LEMMA AskedIs ==
    ASSUME NEW st \in Status, NEW deps, NEW done
    PROVE  /\ RefreshBlocked(st, deps, done) # "none"
           /\ RefreshBlocked(st, deps, done) = "Ready" => st = "Ready" /\ deps \subseteq done
           /\ RefreshBlocked(st, deps, done) = "Done" <=> st = "Done"
           /\ RefreshBlocked(st, deps, done) = "Review" <=> st = "Review"
<1>1. CASE <<st, "Blocked">> \in Transition
  <2>1. st \in {"Planned", "Ready"}
    BY <1>1 DEF Transition
  <2> QED BY <1>1, <2>1 DEF RefreshBlocked, Status
<1>2. CASE <<st, "Blocked">> \notin Transition
  <2>1. st # "Ready"
    BY <1>2 DEF Transition
  <2> QED BY <1>2, <2>1 DEF RefreshBlocked, Status
<1> QED BY <1>1, <1>2

LEMMA UpdateBegins ==
    ASSUME OrderInv, Orderly, NEW c \in Caller, NEW t \in Task, NEW st \in Status, NEW deps,
           BeginUpdate(c, t, st, deps)
    PROVE  Rest
<1> DEFINE s == RefreshBlocked(st, deps, Done(row))
           w == WithAsked(row[t], s, deps)
           b == Call("update", t, <<"store">>)
           k == [b EXCEPT !.writes = [u \in {t} |-> w]]
<1>1. /\ Free(c, "update") /\ call' = [call EXCEPT ![c] = k]
      /\ UNCHANGED <<row, join, made, review, queue, running, branches>>
      /\ row[t] # NoRow /\ (st # row[t].st => <<row[t].st, st>> \in Moves)
  BY DEF BeginUpdate, rowVars, reviewVars, gitVars, WithAsked, Exists
<1>2. /\ k.op = "update" /\ k.task = t /\ k.todo = <<"store">> /\ k.seen = row[t]
      /\ k.writes = [u \in {t} |-> w] /\ k.next = None
  <2>1. t # None
    BY WorkflowAssumption
  <2> QED BY <2>1 DEF Call
<1> HIDE DEF k, b
<1>3. OthersStay(c) /\ call'[c] = k /\ call[c] = Idle /\ \A d \in Caller \ {c} : ~Solo(call[d].op)
  BY <1>1, UserBegins
<1>4. /\ s # "none" /\ (s = "Ready" => deps \subseteq Done(row))
      /\ (s = "Done" <=> st = "Done") /\ (s = "Review" <=> st = "Review")
  BY AskedIs
<1>5. /\ row[t].st = "Done" => st = "Done"
      /\ st = "Review" => row[t].st = "Review"
      /\ st = "Done" => row[t].st \in {"Review", "Done"}
  <2>1. CASE st = row[t].st
    BY <2>1
  <2>2. CASE st # row[t].st
    <3>1. <<row[t].st, st>> \in Moves
      BY <1>1, <2>2
    <3>2. <<row[t].st, st>>[1] # "Done" /\ <<row[t].st, st>>[2] # "Review"
      BY <3>1 DEF Orderly
    <3>3. <<row[t].st, st>> \in Transition
      BY <3>1, WorkflowAssumption DEF WorkflowAssumption
    <3>4. st = "Done" => row[t].st = "Review"
      BY <3>3 DEF Transition
    <3> QED BY <3>2, <3>4
  <2> QED BY <2>1, <2>2
<1> HIDE DEF s
<1>6. IsRow(row[t]) /\ IsRow(w) /\ w.st = s /\ w.deps = deps
  <2>1. IsRow(row[t])
    BY DEF OrderInv, Tables
  <2> QED BY <1>4, <2>1, RowAsked
<1> HIDE DEF w
<1>7. DOMAIN k.writes = {t} /\ k.writes[t] = w
  BY <1>2
<1>8. Fact(k, row, join)
  <2>1. ASSUME NEW p, p = <<"store">>
        PROVE  p # <<>> /\ p \in UpdateStages /\ p \notin {<<"iterate">>, <<"mark">>} \cup FailedStages
    BY <2>1 DEF UpdateStages, FailedStages
  <2>2. Staged(k.op, k.todo)
    BY <1>2, <2>1 DEF Staged
  <2>3. Held(k, row, join)
    BY <1>1, <1>2, <1>4, <1>6, <1>7 DEF Held
  <2>4. Updating(k, row)
    BY <1>2, <1>4, <1>5, <1>6, <1>7 DEF Updating
  <2>5. Landed(k, row) /\ Gate(k, row)
    BY <1>2, <2>1 DEF Landed, Gate
  <2> QED BY <1>2, <1>6, <2>2, <2>3, <2>4, <2>5 DEF Fact
<1>9. ASSUME NEW u \in Task, Unreviewed(u)
      PROVE  /\ row'[u].st # "Review" /\ review'[u] = "none" /\ queue'[u] = "none"
             /\ Untold(k, u)
  <2>1. row[u].st \notin {"Review", "Done"}
    BY <1>9 DEF Unreviewed
  <2>2. Untold(k, u)
    BY <1>2, <1>4, <1>5, <1>6, <1>7, <2>1 DEF Untold
  <2> QED BY <1>1, <1>9, <2>2 DEF Unreviewed
<1>10. Tables' /\ ReadyAfterDeps' /\ Alike(row, join, row', join')
  BY <1>1, AlikeSame DEF OrderInv, Tables, ReadyAfterDeps, Done
<1> QED BY <1>1, <1>2, <1>3, <1>8, <1>9, <1>10, BeginStep

LEMMA CreateBegins == ASSUME OrderInv, Orderly, NEW c \in Caller, NEW deps, CreateTask(c, deps) PROVE Rest
<1> DEFINE k == Call("create", None, <<"refresh">>)
           s == RefreshBlocked("Planned", deps, Done(row))
<1>n. PICK n : n = made + 1
  OBVIOUS
<1>1. /\ Free(c, "create") /\ call' = [call EXCEPT ![c] = k] /\ made < MaxTasks /\ made' = n
      /\ UNCHANGED <<review, queue, running, branches>>
      /\ row' = [row EXCEPT ![n] = [st |-> s, deps |-> deps, complete |-> FALSE]]
      /\ join' = [join EXCEPT ![n] = deps]
      /\ Tables /\ Kinds
  BY <1>n DEF CreateTask, Begin, Insert, reviewVars, gitVars, OrderInv, LoopInv
<1>2. /\ k.op = "create" /\ k.todo = <<"refresh">>
      /\ k.seen = NoRow /\ DOMAIN k.writes = {} /\ k.next = None
  BY CallIs
<1> HIDE DEF k
<1>3. OthersStay(c) /\ call'[c] = k /\ call[c] = Idle /\ \A d \in Caller \ {c} : ~Solo(call[d].op)
  BY <1>1, UserBegins
<1>4. s \in {"Planned", "Blocked"}
  BY DEF RefreshBlocked
<1> HIDE DEF s
<1>5. n \in Task /\ n > made /\ made \in Nat /\ row[n] = NoRow
  <2>1. MaxTasks \in Nat /\ made \in Nat
    BY <1>1, MadeAreTasks, WorkflowAssumption DEF WorkflowAssumption
  <2>2. n \in Task /\ n > made
    BY <1>1, <1>n, <2>1 DEF Task
  <2> QED BY <1>1, <2>1, <2>2 DEF Tables
<1>6. /\ row' = [u \in Task |-> row'[u]] /\ row'[n].st = s /\ IsRow(row'[n]) /\ row'[n] # NoRow
      /\ \A u \in Task \ {n} : row'[u] = row[u]
  <2>1. row' = [u \in Task |-> row'[u]] /\ row'[n] = [st |-> s, deps |-> deps, complete |-> FALSE]
        /\ \A u \in Task \ {n} : row'[u] = row[u]
    BY <1>1, <1>5 DEF Tables
  <2> QED BY <1>4, <2>1 DEF IsRow, NoRow
<1>7. /\ join' = [u \in Task |-> join'[u]] /\ \A u \in Task \ {n} : join'[u] = join[u]
  BY <1>1, <1>5 DEF Tables
<1>8. \A u \in Task : row[u].st = "Done" <=> row'[u].st = "Done"
  BY <1>4, <1>5, <1>6 DEF NoRow
<1>9. Done(row) = Done(row')
  BY <1>8 DEF Done
<1>10. Alike(row, join, row', join')
  BY <1>5, <1>6, <1>7, <1>8, <1>9 DEF Alike
<1>11. Tables'
  <2>1. \A u \in Task : u > made' => u > made /\ u # n
    BY <1>1, <1>5, <1>n DEF Task
  <2>2. \A u \in Task : /\ IsRow(row'[u])
                        /\ review'[u] # "none" \/ queue'[u] # "none" => row'[u] # NoRow
                        /\ u > made' => row'[u] = NoRow
    BY <1>1, <1>6, <2>1 DEF Tables
  <2> QED BY <1>1, <1>6, <1>7, <2>2 DEF Tables
<1>12. ReadyAfterDeps'
  <2>1. ASSUME NEW u \in Task, row'[u].st = "Ready" PROVE join'[u] \subseteq Done(row')
    <3>1. u # n
      BY <1>4, <1>6, <2>1
    <3> QED BY <1>6, <1>7, <1>9, <2>1, <3>1 DEF OrderInv, ReadyAfterDeps
  <2> QED BY <2>1 DEF ReadyAfterDeps, Done
<1>13. Fact(k, row', join') /\ \A u : Untold(k, u)
  <2>1. ASSUME NEW p, p = <<"refresh">>
        PROVE  /\ p # <<"store">> /\ p # <<>> /\ Head(p) # "apply" /\ p \in CreateStages
               /\ p \notin {<<"iterate">>, <<"mark">>} \cup FailedStages
    BY <2>1 DEF CreateStages, FailedStages
  <2>2. Staged(k.op, k.todo) /\ k.todo # <<"store">> /\ IsRow(NoRow)
    BY <1>2, <2>1 DEF Staged, IsRow, NoRow
  <2>3. Held(k, row', join') /\ Updating(k, row') /\ Landed(k, row') /\ Gate(k, row')
    BY <1>2, <2>1 DEF Held, Updating, Landed, Gate
  <2> QED BY <1>2, <2>2, <2>3 DEF Fact, Untold
<1>14. ASSUME NEW u \in Task, Unreviewed(u)
       PROVE  /\ row'[u].st # "Review" /\ review'[u] = "none" /\ queue'[u] = "none"
              /\ Untold(call'[c], u)
  BY <1>1, <1>3, <1>4, <1>6, <1>13, <1>14 DEF Unreviewed
<1> QED BY <1>1, <1>2, <1>3, <1>10, <1>11, <1>12, <1>13, <1>14, BeginStep

(* What is nobody's call.                                                  *)
LEMMA ApproveOrder == ASSUME OrderInv, NEW t \in Task, ApproveReview(t) PROVE Rest
<1>1. /\ review[t] # "none" /\ review' = [review EXCEPT ![t] = "Approved"]
      /\ queue' = [queue EXCEPT ![t] = "Queued"]
      /\ UNCHANGED <<call, row, join, made, running, branches>> /\ Tables
  BY DEF ApproveReview, rowVars, gitVars, OrderInv
<1>2. /\ review' = [u \in Task |-> review'[u]] /\ queue' = [u \in Task |-> queue'[u]]
      /\ \A u \in Task \ {t} : review'[u] = review[u] /\ queue'[u] = queue[u]
  BY <1>1 DEF Tables
<1>3. row[t] # NoRow
  BY <1>1 DEF Tables
<1>4. Tables'
  BY <1>1, <1>2, <1>3 DEF Tables
<1>5. ReadyAfterDeps' /\ Alike(row, join, row', join')
  BY <1>1, AlikeSame DEF OrderInv, ReadyAfterDeps, Done
<1> QED BY <1>1, <1>2, <1>4, <1>5, StillStep DEF Unreviewed

LEMMA RejectOrder == ASSUME OrderInv, NEW t \in Task, RejectReview(t) PROVE Rest
<1> DEFINE r == WithStatus(row[t], "InProgress")
<1>1. /\ row[t].st = "Review" /\ row' = [row EXCEPT ![t] = r]
      /\ review' = IF review[t] = "none" THEN review ELSE [review EXCEPT ![t] = "Rejected"]
      /\ UNCHANGED <<call, join, made, queue, running, branches>> /\ Tables
  BY DEF RejectReview, Is, gitVars, OrderInv, WithStatus
<1>2. row[t] # NoRow /\ IsRow(r) /\ r.st = "InProgress"
  BY <1>1, RowStatus DEF Tables, NoRow
<1> HIDE DEF r
<1>3. Store(t, r)
  BY <1>1, <1>2 DEF Store, Exists
<1>4. /\ \A u \in Task : row[u] = NoRow <=> row'[u] = NoRow
      /\ \A u \in Task \ {t} : row'[u] = row[u]
      /\ row'[t] = r
      /\ row' = [u \in Task |-> row'[u]] /\ \A u \in Task : IsRow(row'[u])
  BY <1>1, <1>2, <1>3, Stored
<1>5. Alike(row, join, row', join') /\ ReadyAfterDeps'
  BY <1>1, <1>2, <1>3, AlikeStored, ReadyStored DEF OrderInv
<1>6. /\ review' = [u \in Task |-> review'[u]]
      /\ \A u \in Task : review'[u] # "none" => review[u] # "none"
  BY <1>1 DEF Tables
<1>7. Tables'
  BY <1>1, <1>4, <1>6 DEF Tables
<1>8. ASSUME NEW u \in Task, Unreviewed(u)
      PROVE  row'[u].st # "Review" /\ review'[u] = "none" /\ queue'[u] = "none"
  BY <1>1, <1>2, <1>4, <1>6, <1>8 DEF Unreviewed
<1> QED BY <1>1, <1>5, <1>7, <1>8, StillStep

LEMMA CrashOrder == ASSUME OrderInv, Crash PROVE Rest
<1>1. /\ call' = [c \in Caller |-> Idle] /\ running' = {}
      /\ row' = [t \in Task |-> IF row[t].st = "InProgress" THEN WithStatus(row[t], "Failed") ELSE row[t]]
      /\ UNCHANGED <<join, made, review, queue, branches>> /\ Tables
  BY DEF Crash, Is, reviewVars, OrderInv, WithStatus
<1>2. ASSUME NEW u \in Task
      PROVE  /\ IsRow(row'[u]) /\ (row'[u] = NoRow <=> row[u] = NoRow)
             /\ row'[u].st = "Done" <=> row[u].st = "Done"
             /\ row'[u].st = "Review" <=> row[u].st = "Review"
             /\ row'[u].st = "Ready" <=> row[u].st = "Ready"
  <2> DEFINE r == WithStatus(row[u], "Failed")
  <2>1. IsRow(row[u])
    BY <1>1 DEF Tables
  <2>2. IsRow(r) /\ r.st = "Failed"
    BY <2>1, RowStatus
  <2>3. row'[u] = IF row[u].st = "InProgress" THEN r ELSE row[u]
    BY <1>1
  <2> HIDE DEF r
  <2> QED BY <2>1, <2>2, <2>3 DEF NoRow
<1>3. row' = [u \in Task |-> row'[u]]
  BY <1>1
<1>4. Tables'
  BY <1>1, <1>2, <1>3 DEF Tables
<1>5. Done(row) = Done(row')
  BY <1>2 DEF Done
<1>6. ReadyAfterDeps'
  <2>1. \A u \in Task : row'[u].st = "Ready" => join'[u] \subseteq Done(row')
    BY <1>1, <1>2, <1>5 DEF OrderInv, ReadyAfterDeps
  <2> QED BY <2>1 DEF ReadyAfterDeps, Done
<1>7. \A d \in Caller : call'[d] = Idle
  BY <1>1
<1>8. Facts' /\ Alone' /\ Finishing'
  <2>1. ASSUME NEW d \in Caller PROVE Fact(call'[d], row', join')
    BY <1>7, IdleFact
  <2>2. \A d \in Caller : call'[d].op = "none" /\ ~Solo(call'[d].op)
    BY <1>7, IdleFact
  <2> QED BY <2>1, <2>2 DEF Facts, Alone, Finishing
<1>9. Judged'
  <2>1. ASSUME NEW u \in Task PROVE ~Judging(u)'
    BY <1>1 DEF Judging
  <2>2. ASSUME NEW u \in Task, Unreviewed(u) PROVE Unreviewed(u)'
    <3>1. \A d \in Caller : Untold(call'[d], u)
      <4>1. Untold(Idle, u)
        BY DEF Untold, Idle
      <4> QED BY <1>7, <4>1
    <3>2. (\A d \in Caller : Untold(call[d], u))'
      BY <3>1 DEF Untold
    <3> QED BY <1>1, <1>2, <2>2, <3>2 DEF Unreviewed
  <2> QED BY <1>1, <1>2, <2>1, <2>2, JudgedStays DEF OrderInv
<1> QED BY <1>4, <1>6, <1>8, <1>9 DEF Rest

(* The steps of a workflow: those that depend on nothing are Ready.        *)
LEMMA InstantiateOrder == ASSUME OrderInv, Instantiate PROVE Rest
<1> DEFINE id == [i \in DOMAIN steps |-> made + i]
           new == made + 1 .. made + Len(steps)
           deps(i) == {id[d] : d \in steps[i].deps \cap 1 .. (i - 1)}
<1>1. /\ row' = [t \in Task |-> IF t \in new
                 THEN [st |-> IF steps[t - made].deps = {} THEN "Ready" ELSE "Blocked",
                       deps |-> deps(t - made), complete |-> FALSE]
                 ELSE row[t]]
      /\ join' = [t \in Task |-> IF t \in new THEN deps(t - made) ELSE join[t]]
      /\ made' = made + Len(steps)
      /\ UNCHANGED <<call, review, queue, running, branches>> /\ Tables /\ Kinds
  BY DEF Instantiate, reviewVars, gitVars, OrderInv, LoopInv
<1>2. made \in Nat /\ Len(steps) \in Nat
  BY <1>1, MadeAreTasks, StepsAre
<1>3. /\ \A u \in new : u > made
      /\ \A u \in Task : u > made' => u > made /\ u \notin new
  BY <1>1, <1>2 DEF Task
<1>4. ASSUME NEW u \in new
      PROVE  steps[u - made].deps = {} => deps(u - made) = {}
  OBVIOUS
<1> HIDE DEF new, deps
<1>5. ASSUME NEW u \in Task \cap new
      PROVE  /\ row[u] = NoRow /\ IsRow(row'[u]) /\ row'[u] # NoRow
             /\ row'[u].st \in {"Ready", "Blocked"}
             /\ row'[u].st = "Ready" => join'[u] = {}
  <2>1. row[u] = NoRow
    BY <1>1, <1>3 DEF Tables
  <2> QED BY <1>1, <1>4, <2>1 DEF IsRow, NoRow
<1>6. \A u \in Task \ new : row'[u] = row[u] /\ join'[u] = join[u]
  BY <1>1
<1>7. \A u \in Task : /\ row[u].st = "Done" <=> row'[u].st = "Done"
                      /\ row'[u].st = "Review" => row[u].st = "Review"
                      /\ row[u] # NoRow => row'[u] = row[u] /\ join'[u] = join[u]
  BY <1>5, <1>6 DEF NoRow
<1>8. Done(row) = Done(row')
  BY <1>7 DEF Done
<1>9. Alike(row, join, row', join')
  BY <1>7, <1>8 DEF Alike
<1>10. Tables'
  <2>1. /\ row' = [u \in Task |-> row'[u]] /\ join' = [u \in Task |-> join'[u]]
    BY <1>1
  <2>2. \A u \in Task : /\ IsRow(row'[u])
                        /\ review'[u] # "none" \/ queue'[u] # "none" => row'[u] # NoRow
                        /\ u > made' => row'[u] = NoRow
    BY <1>1, <1>3, <1>5, <1>6 DEF Tables
  <2> QED BY <1>1, <2>1, <2>2 DEF Tables
<1>11. ReadyAfterDeps'
  <2>1. \A u \in Task : row'[u].st = "Ready" => join'[u] \subseteq Done(row')
    BY <1>5, <1>6, <1>8 DEF OrderInv, ReadyAfterDeps
  <2> QED BY <2>1 DEF ReadyAfterDeps, Done
<1> QED BY <1>1, <1>7, <1>9, <1>10, <1>11, StillStep DEF Unreviewed

(* The steps of one iteration that were made have their earlier            *)
(* dependencies Done.                                                      *)
LEMMA FirstFails ==
    ASSUME NEW target \in Nat, NEW gate \in Nat, target <= gate, NEW iter,
           NEW i \in target .. gate, i < FirstFailing(target, gate, iter)
    PROVE  ~Undone(i, target)
<1> DEFINE S == {j \in target .. gate : Undone(j, target) \/ Taken(j, iter)}
<1>1. SUFFICES ASSUME i \in S PROVE FALSE
  OBVIOUS
<1>2. S # {} /\ S \in SUBSET Nat
  BY <1>1
<1>3. FirstFailing(target, gate, iter) = CHOOSE j \in S : \A m \in S : j <= m
  BY <1>2 DEF FirstFailing
<1> HIDE DEF S
<1>4. \E j \in S : \A m \in S : j <= m
  BY <1>2, Smallest
<1>5. FirstFailing(target, gate, iter) \in S /\ FirstFailing(target, gate, iter) <= i
  BY <1>1, <1>3, <1>4
<1> DEFINE f == FirstFailing(target, gate, iter)
<1>6. f \in Nat /\ f <= i /\ i < f /\ i \in Nat
  <2>1. f \in Nat
    BY <1>2, <1>5
  <2>2. f <= i
    BY <1>5
  <2>3. i \in Nat
    OBVIOUS
  <2> QED BY <2>1, <2>2, <2>3
<1> HIDE DEF f
<1> QED BY <1>6

LEMMA LatestDoneIs ==
    ASSUME Kinds, NEW d, \E t \in AtStep(d) : row[t].st = "Done"
    PROVE  LatestDone(d) \in Done(row)
<1> DEFINE D == {t \in AtStep(d) : Is(t, "Done")}
           S == {kind[t].iter : t \in D}
<1>1. D # {} /\ D \subseteq Task
  BY MadeAreTasks DEF AtStep, Kinds, Is
<1>2. S \in SUBSET (0 .. 20) /\ S # {}
  BY <1>1 DEF Kinds
<1>3. \E n \in S : \A m \in S : m <= n
  <2> HIDE DEF S
  <2> QED BY <1>2, Largest
<1>4. \E t \in D : \A u \in D : kind[u].iter <= kind[t].iter
  BY <1>3
<1>5. LatestDone(d) = CHOOSE t \in D : \A u \in D : kind[u].iter <= kind[t].iter
  BY DEF LatestDone
<1>6. LatestDone(d) \in D
  <2> HIDE DEF D
  <2> QED BY <1>4, <1>5
<1> QED BY <1>1, <1>6 DEF Done, Is

(* create_loop_iteration, as far as its tables go: new tasks at steps up   *)
(* to the gate's, whose dependencies are new or Done, and, when the gate   *)
(* was reached, m is the new gate and what waited for the old one waits    *)
(* for m.                                                                  *)
Swap(S, t, m) == IF t \in S THEN (S \ {t}) \cup {m} ELSE S

Iteration(c, new, m) ==
    /\ \A u \in new : /\ u \in Task /\ u > made /\ u <= made' /\ row[u] = NoRow /\ IsRow(row'[u])
                      /\ row'[u].st \in {"Ready", "Blocked"} /\ row'[u].deps = join'[u]
                      /\ join'[u] \subseteq new \cup Done(row)
                      /\ row'[u].st = "Blocked" <=> join'[u] \cap new # {}
                      /\ kind'[u].step <= kind[Of(c)].step
    /\ \A u \in Task \ new : kind'[u] = kind[u]
    /\ link \subseteq link' /\ link' \subseteq link \cup new
    /\ row' = [u \in Task |-> row'[u]] /\ join' = [u \in Task |-> join'[u]]
    /\ \/ /\ Continue(c, <<"mark">> \o Tail(call[c].todo)) /\ m \in new \cap link'
          /\ \A u \in Task \ new :
                /\ row'[u] = IF u \in Downstream(Of(c)) THEN WithDeps(row[u], Swap(row[u].deps, Of(c), m))
                             ELSE row[u]
                /\ join'[u] = IF u \in Downstream(Of(c)) THEN Swap(join[u], Of(c), m) ELSE join[u]
       \/ /\ Continue(c, <<"complete">> \o Tail(call[c].todo))
          /\ \A u \in Task \ new : row'[u] = row[u] /\ join'[u] = join[u]

LEMMA Iterated ==
    ASSUME Orderly, OrderInv, NEW c \in Caller, CreateIteration(c)
    PROVE  \E new \in SUBSET Task, m \in Task : Iteration(c, new, m)
<1> DEFINE t == Of(c)
           gate == kind[t].step
           target == LoopOf(t).target
           iter == call[c].iter
           bad == FirstFailing(target, gate, iter)
           last == IF bad > gate \/ Undone(bad, target) THEN bad - 1 ELSE bad
           id == [i \in target .. last |-> made + 1 + i - target]
           new == {id[i] : i \in target .. last}
           at(n) == CHOOSE i \in target .. last : id[i] = n
           deps(n) == IterationDeps(at(n), target, id)
           swapped(S) == IF t \in S THEN (S \ {t}) \cup {id[gate]} ELSE S
           downstream == IF bad <= gate THEN {} ELSE Downstream(t)
           q == (IF bad > gate THEN <<"mark">> ELSE AfterNoLoop(c)) \o Tail(call[c].todo)
<1>1. /\ Stage(c, "iterate") /\ t \in link /\ made' = made + Cardinality(new)
      /\ row' = [u \in Task |->
             IF u \in new
             THEN [st |-> IF deps(u) \cap new = {} THEN "Ready" ELSE "Blocked",
                   deps |-> deps(u), complete |-> FALSE]
             ELSE IF u \in downstream THEN WithDeps(row[u], swapped(row[u].deps)) ELSE row[u]]
      /\ join' = [u \in Task |->
             IF u \in new THEN deps(u)
             ELSE IF u \in downstream THEN swapped(join[u]) ELSE join[u]]
      /\ kind' = [u \in Task |->
             IF u \in new THEN [step |-> at(u), iter |-> iter, ctx |-> LoopOf(t).mode = "until_complete"]
             ELSE kind[u]]
      /\ link' = link \cup {n \in new : at(n) < bad}
      /\ Continue(c, q)
  BY DEF CreateIteration, WithDeps
<1>2. /\ Tables /\ Kinds /\ Kinds' /\ KindsGrow /\ LoopCalls /\ Fact(call[c], row, join) /\ t \in Task
  <2>1. Kinds /\ LoopCalls /\ IterationsBounded
    BY DEF OrderInv, LoopInv
  <2> QED BY <1>1, <2>1, Iterating, MadeAreTasks DEF OrderInv, Facts, Kinds
<1>3. /\ target \in Nat /\ gate \in Nat /\ target \in 1 .. gate
  <2>1. LoopCall(call[c], steps, made, kind) /\ call[c].todo # <<>> /\ Head(call[c].todo) = "iterate"
    BY <1>1, <1>2 DEF LoopCalls, Stage
  <2>2. gate # 0 /\ LoopOf(t) = steps[gate].loop /\ steps[gate].loop.mode # "none"
    BY <1>1, <1>2, <2>1 DEF LoopOf, StepOf, Kinds, LoopCall, Of
  <2>3. gate \in 0 .. Len(steps)
    BY <1>2 DEF Kinds
  <2>4. gate \in DOMAIN steps /\ gate \in Nat
    <3> HIDE DEF gate
    <3> QED BY <1>2, <2>2, <2>3, StepsAre
  <2>5. steps[gate].loop.target \in 1 .. gate
    <3> HIDE DEF gate
    <3> QED BY <1>2, <2>2, <2>4, LoopIs
  <2> HIDE DEF gate, t
  <2> QED BY <2>2, <2>4, <2>5
<1>4. /\ bad \in target .. gate + 1
      /\ \A i \in target .. gate : i < bad => ~Undone(i, target)
  <2> HIDE DEF target, gate, iter
  <2> QED BY <1>3, FailingIs, FirstFails
<1>5. call[c].seen.st = "Failed"
  <2>1. \/ call[c].op = "update" /\ call[c].todo = <<"iterate">>
        \/ call[c].op = "finish" /\ call[c].todo = <<"iterate", "cleanup", "end">>
    BY <1>1, <1>2, Remaining DEF Stage, Fact
  <2>2. ASSUME NEW p, p = <<"iterate">> \/ p = <<"iterate", "cleanup", "end">>
        PROVE  p \in {<<"iterate">>, <<"mark">>} \cup FailedStages
    BY <2>2 DEF FailedStages
  <2> QED BY <1>2, <2>1, <2>2 DEF Fact, Gate
<1>6. last \in target - 1 .. gate /\ \A i \in target .. last : ~Undone(i, target)
  <2> HIDE DEF target, gate, bad
  <2> QED BY <1>3, <1>4
<1>7. ASSUME NEW u \in new
      PROVE  at(u) \in target .. last /\ deps(u) \subseteq new \cup Done(row)
  <2>1. at(u) \in target .. last
    <3>1. \E i \in target .. last : id[i] = u
      OBVIOUS
    <3> QED BY <3>1
  <2>a. PICK i : i = at(u)
    OBVIOUS
  <2>2. ~Undone(i, target) /\ i \in target .. last
    BY <1>6, <2>1, <2>a
  <2>3. \A d \in steps[i].deps : d < target => LatestDone(d) \in Done(row)
    <3>1. ASSUME NEW d \in steps[i].deps, d < target PROVE LatestDone(d) \in Done(row)
      <4>1. \E v \in AtStep(d) : row[v].st = "Done"
        BY <2>2, <3>1 DEF Undone, Is
      <4> QED BY <1>2, <4>1, LatestDoneIs
    <3> QED BY <3>1
  <2>4. \A d \in steps[i].deps \cap target .. (i - 1) : id[d] \in new
    <3>1. target .. (i - 1) \subseteq target .. last
      BY <1>3, <1>6, <2>2
    <3> QED BY <3>1
  <2>5. deps(u) = {id[d] : d \in steps[i].deps \cap target .. (i - 1)}
                  \cup {LatestDone(d) : d \in {e \in steps[i].deps : e < target}}
    BY <2>a DEF IterationDeps
  <2> HIDE DEF id, new, deps, at, target, last
  <2>6. ASSUME NEW x \in deps(u) PROVE x \in new \cup Done(row)
    BY <2>3, <2>4, <2>5, <2>6
  <2> QED BY <2>1, <2>6
<1>8. ASSUME NEW u \in new PROVE u > made /\ u <= made' /\ u \in Task
  <2> USE <1>2
  <2>1. made \in Nat /\ made' \in Nat /\ 1 .. made' \subseteq Task
    <3>1. MaxTasks \in Nat /\ made' \in 0 .. MaxTasks /\ made \in Nat
      BY <1>2, MadeAreTasks, WorkflowAssumption DEF WorkflowAssumption, Kinds
    <3> QED BY <3>1 DEF Task
  <2>2. new = made + 1 .. made + 1 + last - target
    <3>1. \A n \in made + 1 .. made + 1 + last - target :
             n - made - 1 + target \in target .. last /\ id[n - made - 1 + target] = n
      <4> HIDE DEF last, target
      <4> QED BY <1>3, <1>6, <2>1
    <3>2. \A i \in target .. last : id[i] \in made + 1 .. made + 1 + last - target
      <4> HIDE DEF last, target
      <4> QED BY <1>3, <1>6, <2>1
    <3> HIDE DEF id, last, target
    <3> QED BY <2>1, <3>1, <3>2
  <2>3. Cardinality(new) = last + 1 - target
    <3> HIDE DEF new, last, target, gate
    <3>1. CASE last = target - 1
      BY <1>3, <1>6, <2>1, <2>2, <3>1, FS_Interval
    <3>2. CASE last # target - 1
      BY <1>3, <1>6, <2>1, <2>2, <3>2, FS_Interval
    <3> QED BY <3>1, <3>2
  <2>4. made' = made + (last + 1 - target)
    BY <1>1, <2>3
  <2>5. u > made /\ u <= made' /\ u \in 1 .. made'
    <3> HIDE DEF new, last, target, gate
    <3> QED BY <1>3, <1>6, <2>1, <2>2, <2>4
  <2> QED BY <2>1, <2>5
<1>9. bad > gate => last = gate /\ id[gate] \in new
  <2>1. bad > gate => last = gate
    <3> HIDE DEF gate, target, iter
    <3> QED BY <1>3, <1>4
  <2>2. gate \in target .. gate
    BY <1>3
  <2> HIDE DEF gate, target, bad, last
  <2> QED BY <2>1, <2>2
<1>10. ASSUME bad > gate PROVE id[gate] \in link'
  <2>1. at(id[gate]) \in target .. last /\ id[gate] \in new /\ last = gate
    BY <1>7, <1>9, <1>10
  <2> HIDE DEF id, new, at, gate, target, last, bad
  <2> QED BY <1>1, <1>3, <1>4, <1>10, <2>1
<1>11. q = (IF bad > gate THEN <<"mark">> ELSE <<"complete">>) \o Tail(call[c].todo)
  BY <1>5 DEF AfterNoLoop
<1>12. \A u \in Task \ new : kind'[u] = kind[u]
  BY <1>1
<1>13. link \subseteq link' /\ link' \subseteq link \cup new
  BY <1>1
<1>f. row' = [u \in Task |-> row'[u]] /\ join' = [u \in Task |-> join'[u]]
  <2> HIDE DEF new, deps, swapped, downstream
  <2> QED BY <1>1
<1>m. PICK m \in Task : bad > gate => m = id[gate]
  BY <1>2, <1>8, <1>9
<1>14. ASSUME NEW u \in new
       PROVE  /\ u \in Task /\ u > made /\ u <= made' /\ row[u] = NoRow /\ IsRow(row'[u])
              /\ row'[u].st \in {"Ready", "Blocked"} /\ row'[u].deps = join'[u]
              /\ join'[u] \subseteq new \cup Done(row)
              /\ row'[u].st = "Blocked" <=> join'[u] \cap new # {}
              /\ kind'[u].step <= gate
  <2>1. row[u] = NoRow /\ u \in Task /\ u > made /\ u <= made'
    BY <1>2, <1>8 DEF Tables
  <2>2. /\ at(u) \in target .. last /\ deps(u) \subseteq new \cup Done(row)
    BY <1>7
  <2> HIDE DEF new, deps, at, gate, target, last, iter, t
  <2>3. row'[u] = [st |-> IF deps(u) \cap new = {} THEN "Ready" ELSE "Blocked",
                   deps |-> deps(u), complete |-> FALSE] /\ join'[u] = deps(u)
        /\ kind'[u].step = at(u)
    BY <1>1, <2>1
  <2>4. at(u) <= gate
    BY <1>3, <1>6, <2>2
  <2>5. row'[u].st \in {"Ready", "Blocked"} /\ row'[u].deps = join'[u] /\ IsRow(row'[u])
    BY <2>3 DEF IsRow
  <2> QED BY <2>1, <2>2, <2>3, <2>4, <2>5
<1>15. CASE bad > gate
  <2>1. Continue(c, <<"mark">> \o Tail(call[c].todo))
    BY <1>1, <1>11, <1>15
  <2>2. m \in new \cap link' /\ m = id[gate]
    BY <1>m, <1>9, <1>10, <1>15
  <2>3. downstream = Downstream(t)
    <3>1. ~(bad <= gate)
      <4> HIDE DEF gate, target, iter
      <4> QED BY <1>3, <1>4, <1>15
    <3> QED BY <3>1
  <2>4. \A S : swapped(S) = Swap(S, t, m)
    BY <2>2 DEF Swap
  <2> HIDE DEF new, deps, gate, swapped, downstream, id, bad, at, iter
  <2>5. \A u \in Task \ new :
            /\ row'[u] = IF u \in Downstream(t) THEN WithDeps(row[u], Swap(row[u].deps, t, m)) ELSE row[u]
            /\ join'[u] = IF u \in Downstream(t) THEN Swap(join[u], t, m) ELSE join[u]
    BY <1>1, <2>3, <2>4
  <2>6. new \subseteq Task
    BY <1>8
  <2>7. Iteration(c, new, m)
    BY <1>12, <1>13, <1>14, <1>f, <2>1, <2>2, <2>5 DEF Iteration, gate
  <2> QED BY <2>6, <2>7
<1>16. CASE ~(bad > gate)
  <2>1. Continue(c, <<"complete">> \o Tail(call[c].todo))
    BY <1>1, <1>11, <1>16
  <2>2. downstream = {}
    <3>1. bad <= gate
      <4> HIDE DEF gate, target, iter
      <4> QED BY <1>3, <1>4, <1>16
    <3> QED BY <3>1
  <2> HIDE DEF new, deps, gate, swapped, downstream, id, bad, at, iter
  <2>3. \A u \in Task \ new : row'[u] = row[u] /\ join'[u] = join[u]
    BY <1>1, <2>2
  <2>4. new \subseteq Task
    BY <1>8
  <2>5. Iteration(c, new, m)
    BY <1>12, <1>13, <1>14, <1>f, <2>1, <2>3 DEF Iteration, gate
  <2> QED BY <2>4, <2>5
<1> QED BY <1>15, <1>16

LEMMA IterateOrder == ASSUME Orderly, OrderInv, NEW c \in Caller, CreateIteration(c) PROVE Rest
<1>t. PICK t : t = Of(c)
  OBVIOUS
<1>1. Stage(c, "iterate") /\ t \in link /\ UNCHANGED <<review, queue, running, branches>>
  BY <1>t DEF CreateIteration, reviewVars, gitVars
<1>2. /\ Tables /\ KindsGrow /\ Fact(call[c], row, join) /\ t \in Task /\ made \in Nat
  <2>1. Kinds /\ LoopCalls /\ IterationsBounded
    BY DEF OrderInv, LoopInv
  <2> QED BY <1>1, <2>1, Iterating, MadeAreTasks DEF OrderInv, Facts, Kinds
<1>3. PICK new \in SUBSET Task, m \in Task : Iteration(c, new, m)
  BY Iterated
<1>4. \A u \in new : /\ u > made /\ u <= made' /\ row[u] = NoRow /\ IsRow(row'[u]) /\ row'[u] # NoRow
                     /\ row'[u].st \in {"Ready", "Blocked"}
                     /\ row'[u].st = "Ready" => join'[u] \subseteq Done(row)
  BY <1>3 DEF Iteration, NoRow
<1>5. /\ call[c].seen.st = "Failed" /\ row[t].st # "Done" /\ call[c].op \in {"update", "finish"}
      /\ call[c].op = "update" => call[c].todo = <<"iterate">>
      /\ call[c].op = "finish" => call[c].todo = <<"iterate", "cleanup", "end">>
  <2>1. \/ call[c].op = "update" /\ call[c].todo = <<"iterate">>
        \/ call[c].op = "finish" /\ call[c].todo = <<"iterate", "cleanup", "end">>
    BY <1>1, <1>2, Remaining DEF Stage, Fact
  <2>2. ASSUME NEW p, p = <<"iterate">> \/ p = <<"iterate", "cleanup", "end">>
        PROVE  p # <<"store">> /\ p \in {<<"iterate">>, <<"mark">>} \cup FailedStages
    BY <2>2 DEF FailedStages
  <2>3. call[c].seen.st = "Failed"
    BY <1>2, <2>1, <2>2 DEF Fact, Gate
  <2>4. CASE call[c].op = "update"
    BY <1>2, <1>t, <2>1, <2>2, <2>3, <2>4 DEF Fact, Gate, Of
  <2>5. CASE call[c].op = "finish"
    <3>1. call[c].todo \notin JudgedStages
      BY <2>1, <2>5 DEF JudgedStages
    <3> QED BY <1>t, <2>1, <2>3, <2>5, <3>1, OwnTask DEF OrderInv, Unreviewed
  <2> QED BY <2>1, <2>3, <2>4, <2>5
<1>6. ASSUME NEW u \in Task \ new
      PROVE  \/ row'[u] = row[u] /\ join'[u] = join[u]
             \/ /\ row[u] # NoRow /\ \E d : row'[u] = WithDeps(row[u], d)
                /\ join'[u] = Swap(join[u], t, m)
  <2>1. u \in Downstream(t) => row[u] # NoRow
    BY DEF Downstream, NoRow
  <2> QED BY <1>3, <1>t, <2>1 DEF Iteration
<1>7. ASSUME NEW u \in Task \ new
      PROVE  /\ IsRow(row'[u]) /\ row'[u].st = row[u].st /\ (row[u] = NoRow <=> row'[u] = NoRow)
             /\ join[u] \subseteq Done(row) => join'[u] = join[u]
  <2>1. IsRow(row[u])
    BY <1>2 DEF Tables
  <2>2. CASE row'[u] = row[u] /\ join'[u] = join[u]
    BY <2>1, <2>2
  <2>3. ASSUME row[u] # NoRow, NEW d, row'[u] = WithDeps(row[u], d), join'[u] = Swap(join[u], t, m)
        PROVE  /\ IsRow(row'[u]) /\ row'[u].st = row[u].st /\ row'[u] # NoRow
               /\ join[u] \subseteq Done(row) => join'[u] = join[u]
    <3>1. row[u].st # "none"
      BY <2>1, <2>3 DEF IsRow
    <3>2. IsRow(row'[u]) /\ row'[u].st = row[u].st
      BY <2>1, <2>3, <3>1, RowDeps
    <3>3. t \notin Done(row)
      BY <1>5 DEF Done
    <3> QED BY <2>3, <3>1, <3>2, <3>3 DEF NoRow, Swap
  <2> QED BY <1>6, <2>2, <2>3
<1>8. \A u \in Task : row[u].st = "Done" <=> row'[u].st = "Done"
  BY <1>4, <1>7 DEF NoRow
<1>9. Done(row) = Done(row')
  BY <1>8 DEF Done
<1>10. Alike(row, join, row', join')
  BY <1>4, <1>7, <1>8, <1>9 DEF Alike
<1>11. Tables'
  <2>1. ASSUME NEW u \in Task
        PROVE  /\ IsRow(row'[u])
               /\ review'[u] # "none" \/ queue'[u] # "none" => row'[u] # NoRow
               /\ u > made' => row'[u] = NoRow
    <3>1. IsRow(row'[u]) /\ (row[u] # NoRow => row'[u] # NoRow)
      BY <1>4, <1>7
    <3>2. u > made' => u \notin new /\ u > made
      <4>1. made' \in Nat /\ made <= made' /\ u \in Nat
        BY <1>2 DEF KindsGrow, Task
      <4> QED BY <1>2, <1>4, <4>1
    <3> QED BY <1>1, <1>2, <1>7, <3>1, <3>2 DEF Tables
  <2> QED BY <1>1, <1>2, <1>3, <2>1 DEF Iteration, Tables
<1>12. ReadyAfterDeps'
  <2>1. ASSUME NEW u \in Task, row'[u].st = "Ready" PROVE join'[u] \subseteq Done(row')
    <3>1. CASE u \in new
      BY <1>4, <1>9, <2>1, <3>1
    <3>2. CASE u \notin new
      <4>1. join[u] \subseteq Done(row)
        BY <1>7, <2>1, <3>2 DEF OrderInv, ReadyAfterDeps
      <4> QED BY <1>7, <1>9, <3>2, <4>1
    <3> QED BY <3>1, <3>2
  <2> QED BY <2>1 DEF ReadyAfterDeps, Done
<1>13. PICK p : /\ Continue(c, p)
                /\ p = <<"mark">> \o Tail(call[c].todo) \/ p = <<"complete">> \o Tail(call[c].todo)
  BY <1>3 DEF Iteration
<1>14. /\ Staged(call[c].op, p) /\ p # <<"store">>
       /\ call[c].op = "finish" => p \in FinishStagesAll
  <2>1. \/ call[c].op = "update" /\ p \in {<<"mark">>, <<"complete">>}
        \/ call[c].op = "finish" /\ p \in {<<"mark", "cleanup", "end">>, <<"complete", "cleanup", "end">>}
    BY <1>5, <1>13, Pieces
  <2> QED BY <2>1 DEF Staged, UpdateStages, FinishStagesAll, FailedStages, JudgedStages
<1>15. /\ Onwards(c) /\ Fact(call'[c], row', join')
       /\ \A u : Untold(call[c], u) => Untold(call'[c], u)
  <2>1. Fact(call[c], row', join') /\ call[c].op # "merge"
    BY <1>2, <1>5, <1>10, FactStays
  <2> QED BY <1>1, <1>5, <1>13, <1>14, <2>1, CallGoes
<1>16. ~(call[c].op = "finish" /\ call[c].todo \in JudgedStages)
  BY <1>5 DEF JudgedStages
<1>17. \A u \in Task : Unreviewed(u) =>
          row'[u].st # "Review" /\ review'[u] = "none" /\ queue'[u] = "none"
  BY <1>1, <1>4, <1>7 DEF Unreviewed
<1> QED BY <1>1, <1>10, <1>11, <1>12, <1>15, <1>16, <1>17, AlikeStep DEF Rest

LEMMA PromisesStay ==
    ASSUME Orderly, Unpromised, LoopInv, [Next]_vars PROVE Unpromised'
<1>1. CASE UNCHANGED kind
  BY <1>1 DEF Unpromised
<1>2. ASSUME NEW c, NEW deps, CreateTask(c, deps) PROVE Unpromised'
  <2>1. kind' = [kind EXCEPT ![made + 1] = NoKind] /\ Kinds
    BY <1>2 DEF CreateTask, Insert, LoopInv
  <2>2. \A t \in Task : kind'[t] = kind[t] \/ kind'[t] = NoKind
    BY <2>1 DEF Kinds
  <2> QED BY <2>2 DEF Unpromised, NoKind
<1>3. CASE Instantiate
  <2> DEFINE new == made + 1 .. made + Len(steps)
  <2>1. kind' = [t \in Task |-> IF t \in new THEN [step |-> t - made, iter |-> 0, ctx |-> FALSE] ELSE kind[t]]
    BY <1>3 DEF Instantiate
  <2> HIDE DEF new
  <2> QED BY <2>1 DEF Unpromised
<1>4. ASSUME NEW c \in Caller, CreateIteration(c) PROVE Unpromised'
  <2>1. LoopOf(Of(c)).mode # "until_complete"
    <3>1. Of(c) \in link /\ Kinds
      BY <1>4 DEF CreateIteration, LoopInv
    <3>2. kind[Of(c)].step \in DOMAIN steps
      <4>1. Of(c) \in Task /\ kind[Of(c)].step # 0 /\ kind[Of(c)].step \in 0 .. Len(steps)
        BY <3>1, MadeAreTasks DEF Kinds
      <4> QED BY <3>1, <4>1, StepsAre
    <3> QED BY <3>1, <3>2 DEF Orderly, Kinds, LoopOf, StepOf
  <2>2. \E new, at, iter : kind' = [u \in Task |->
          IF u \in new THEN [step |-> at[u], iter |-> iter, ctx |-> LoopOf(Of(c)).mode = "until_complete"]
          ELSE kind[u]]
    <3> DEFINE t == Of(c)
               gate == kind[t].step
               target == LoopOf(t).target
               bad == FirstFailing(target, gate, call[c].iter)
               last == IF bad > gate \/ Undone(bad, target) THEN bad - 1 ELSE bad
               id == [i \in target .. last |-> made + 1 + i - target]
               new == {id[i] : i \in target .. last}
               at(n) == CHOOSE i \in target .. last : id[i] = n
               f == [u \in Task |-> at(u)]
    <3>1. kind' = [u \in Task |->
            IF u \in new THEN [step |-> at(u), iter |-> call[c].iter,
                               ctx |-> LoopOf(t).mode = "until_complete"]
            ELSE kind[u]]
      BY <1>4 DEF CreateIteration
    <3>2. \A u \in Task : f[u] = at(u)
      OBVIOUS
    <3> HIDE DEF new, at, f
    <3>3. kind' = [u \in Task |->
            IF u \in new THEN [step |-> f[u], iter |-> call[c].iter,
                               ctx |-> LoopOf(t).mode = "until_complete"]
            ELSE kind[u]]
      BY <3>1, <3>2
    <3> QED BY <3>3
  <2>3. PICK new, at, iter : kind' = [u \in Task |->
          IF u \in new THEN [step |-> at[u], iter |-> iter, ctx |-> LoopOf(Of(c)).mode = "until_complete"]
          ELSE kind[u]]
    BY <2>2
  <2> QED BY <2>1, <2>3 DEF Unpromised
<1>5. CASE UNCHANGED vars
  BY <1>1, <1>5 DEF vars, rowVars
<1>6. ASSUME NEW c \in Caller, CallStep(c), ~CreateIteration(c) PROVE Unpromised'
  <2>1. UNCHANGED kind
    BY <1>6 DEF CallStep, Refresh, Apply, DispatchNext, Start, CheckLoop, MarkLooped, CheckCompletion,
                Cleanup, StoreUpdate, Erase, WriteVerdict, EndFinish, Rebase, Land, LandFails,
                StoreDone, Prune, Merged, rowVars
  <2> QED BY <1>1, <2>1
<1>7. ASSUME NEW c \in Caller, BeginCall(c) PROVE Unpromised'
  BY <1>1, <1>2, <1>7 DEF BeginCall, BeginDelete, BeginFinish, BeginMerge, BeginUpdate, rowVars
<1>8. ASSUME NEW t \in Task, DispatchTask(t) \/ ApproveReview(t) \/ RejectReview(t) PROVE Unpromised'
  BY <1>1, <1>8 DEF DispatchTask, Start, ApproveReview, RejectReview, rowVars
<1>9. CASE Crash
  BY <1>1, <1>9 DEF Crash
<1> QED BY <1>3, <1>4, <1>5, <1>6, <1>7, <1>8, <1>9 DEF Next

LEMMA OrderInitially == Init => OrderInv
<1> SUFFICES ASSUME Init PROVE OrderInv
  OBVIOUS
<1>1. LoopInv
  BY LoopsInitially
<1>2. Unpromised
  BY DEF Init, Unpromised, NoKind
<1>3. \A c \in Caller : call[c] = Idle
  BY DEF Init
<1>4. Facts /\ Alone /\ Finishing
  BY <1>3, IdleFact DEF Facts, Alone, Finishing
<1>5. Tables
  BY DEF Init, Tables, IsRow, NoRow
<1>6. \A t \in Task : row[t] = NoRow
  BY DEF Init
<1>7. ReadyAfterDeps
  BY <1>6 DEF ReadyAfterDeps, NoRow
<1>8. Judged
  <2>1. \A t : Untold(Idle, t)
    BY DEF Untold, Idle
  <2>2. \A t \in Task : Unreviewed(t)
    BY <1>3, <1>6, <2>1 DEF Init, Unreviewed, NoRow
  <2> QED BY <2>2 DEF Init, Judged, Judging
<1> QED BY <1>1, <1>2, <1>4, <1>5, <1>7, <1>8 DEF OrderInv

LEMMA CallOrder == ASSUME Orderly, OrderInv, NEW c \in Caller, CallStep(c) PROVE Rest
BY RefreshOrder, ApplyOrder, DispatchNextOrder, CheckLoopOrder, IterateOrder, MarkOrder,
   CompletionOrder, CleanupOrder, UpdateOrder, EraseOrder, VerdictOrder, EndOrder, LockedOrder,
   DoneOrder, PruneOrder DEF CallStep

LEMMA BeginOrder == ASSUME Orderly, OrderInv, NEW c \in Caller, BeginCall(c) PROVE Rest
BY CreateBegins, DeleteBegins, FinishBegins, MergeBegins, UpdateBegins DEF BeginCall

LEMMA OrderStays == Orderly /\ OrderInv /\ [Next]_vars => OrderInv'
<1> SUFFICES ASSUME Orderly, OrderInv, [Next]_vars PROVE OrderInv'
  OBVIOUS
<1>1. WorkflowAssumption
  BY WorkflowAssumption
<1>2. LoopInv' /\ Unpromised'
  BY <1>1, LoopsStay, PromisesStay DEF OrderInv
<1>3. Rest
  <2>1. ASSUME NEW c \in Caller, CallStep(c) PROVE Rest
    BY <2>1, CallOrder
  <2>2. ASSUME NEW c \in Caller, BeginCall(c) PROVE Rest
    BY <2>2, BeginOrder
  <2>3. ASSUME NEW t \in Task, DispatchTask(t) \/ ApproveReview(t) \/ RejectReview(t) PROVE Rest
    BY <2>3, DispatchOrder, ApproveOrder, RejectOrder
  <2>4. CASE Instantiate
    BY <2>4, InstantiateOrder
  <2>5. CASE Crash
    BY <2>5, CrashOrder
  <2>6. CASE UNCHANGED vars
    <3>1. UNCHANGED <<call, running, branches, row, join, review, queue, made>>
      BY <2>6 DEF vars, rowVars, reviewVars, gitVars
    <3>2. Tables' /\ ReadyAfterDeps' /\ Alike(row, join, row', join')
      BY <3>1, AlikeSame DEF OrderInv, Tables, ReadyAfterDeps, Done
    <3> QED BY <3>1, <3>2, StillStep DEF Unreviewed
  <2> QED BY <2>1, <2>2, <2>3, <2>4, <2>5, <2>6 DEF Next
<1> QED BY <1>2, <1>3 DEF OrderInv, Rest

(* Only a dispatch starts an agent.                                        *)
LEMMA StartsInOrder ==
    ASSUME OrderInv, [Next]_vars
    PROVE  \A t \in Task : t \in running' \ running =>
              \A d \in join[t] : row[d].st \in {"Done", "Looped"}
<1>1. ASSUME NEW t \in Task, Dispatchable(t)
      PROVE  \A d \in join[t] : row[d].st = "Done"
  BY <1>1 DEF Dispatchable, Is, OrderInv, ReadyAfterDeps, Done
<1>2. ASSUME running' \subseteq running
      PROVE  \A t \in Task : t \in running' \ running => \A d \in join[t] : row[d].st \in {"Done", "Looped"}
  BY <1>2
<1>3. ASSUME NEW c \in Caller, CallStep(c)
      PROVE  \A t \in Task : t \in running' \ running => \A d \in join[t] : row[d].st \in {"Done", "Looped"}
  <2>1. CASE DispatchNext(c)
    BY <1>1, <2>1 DEF DispatchNext, Start, gitVars
  <2>2. CASE ~DispatchNext(c)
    <3>1. running' \subseteq running
      BY <1>3, <2>2
         DEF CallStep, Refresh, Apply, CheckLoop, CreateIteration, MarkLooped, CheckCompletion,
             Cleanup, StoreUpdate, Erase, WriteVerdict, EndFinish, Rebase, Land, LandFails,
             StoreDone, Prune, Merged, gitVars
    <3> QED BY <1>2, <3>1
  <2> QED BY <2>1, <2>2
<1>4. ASSUME NEW c \in Caller, BeginCall(c)
      PROVE  running' \subseteq running
  BY <1>4 DEF BeginCall, CreateTask, BeginDelete, BeginFinish, BeginMerge, BeginUpdate, gitVars
<1>5. ASSUME NEW u \in Task, DispatchTask(u)
      PROVE  \A t \in Task : t \in running' \ running => \A d \in join[t] : row[d].st \in {"Done", "Looped"}
  BY <1>1, <1>5 DEF DispatchTask, Start
<1>6. ASSUME Instantiate \/ Crash \/ UNCHANGED vars
             \/ \E t \in Task : ApproveReview(t) \/ RejectReview(t)
      PROVE  running' \subseteq running
  BY <1>6 DEF Instantiate, Crash, vars, ApproveReview, RejectReview, gitVars
<1> QED BY <1>2, <1>3, <1>4, <1>5, <1>6 DEF Next

(* auto_dispatch_ready_step, the coordinator's tick and dispatch_task: an  *)
(* agent starts on a task only when its dependencies were Done, although   *)
(* refresh_dependency_states stores rows it computed from an older reading *)
(* of the table, one by one, while agents end and others are dispatched.   *)
THEOREM DepsBeforeStart == ASSUME Orderly PROVE Spec => StartedAfterDeps
<1>1. OrderInv /\ [Next]_vars => OrderInv'
  BY OrderStays
<1>2. OrderInv /\ [Next]_vars => [\A t \in Task : t \in running' \ running =>
              \A d \in join[t] : row[d].st \in {"Done", "Looped"}]_vars
  BY StartsInOrder
<1> QED BY <1>1, <1>2, OrderInitially, PTL DEF Spec, StartedAfterDeps
-----------------------------------------------------------------------------
(* Whether the instance is settled, and what waits can still come.         *)
-----------------------------------------------------------------------------
(* What being settled needs besides: of the rows, users only take reviews  *)
(* through update_task, and change no dependencies by hand.                *)
Reviewing == Orderly /\ Edits = {} /\ \A m \in Moves : m[1] = "Review"

(* No row was deleted.                                                     *)
Whole == \A t \in 1 .. made : row[t] # NoRow

(* Statuses of a task that was not started.                                *)
Waiting == {"none", "Planned", "Ready", "Blocked"}

(* An update that has stored what a review came to.                        *)
DecidedStages == {<<"refresh", "cleanup", "loop">>, <<"apply", "cleanup", "loop">>,
                  <<"cleanup", "loop">>, <<"loop">>, <<"iterate">>, <<"mark">>}

(* The columns of a row agree with one another and with the task's branch. *)
Agrees == \A t \in Task :
    /\ row[t].deps = join[t] /\ join[t] \subseteq Task
    /\ row[t].st \notin {"none", "Blocked"} => join[t] \subseteq Done(row)
    /\ t \in branches \cup running => row[t].st \notin Waiting

(* The status of the task of such a call is the one it goes by.            *)
Pinned(k) ==
    \/ k.op = "finish" /\ k.todo \in {<<"verdict">>} \cup FailedStages
    \/ k.op = "update" /\ k.todo \in DecidedStages

(* What a call has read, and what it will store, agrees with the tables.   *)
Knows(k, r, j) ==
    /\ k.op \in {"finish", "merge", "update"} => r[k.task].st \notin Waiting /\ k.seen.deps = j[k.task]
    /\ k.op = "delete" => r[k.task] # NoRow
    /\ k.op = "finish" /\ k.todo = <<"verdict">> => r[k.task].st = "InProgress"
    /\ k.op = "finish" /\ k.todo \in FailedStages => r[k.task].st = "Failed"
    /\ k.op = "update" /\ k.todo \in DecidedStages =>
          r[k.task].st = k.seen.st /\ k.seen.st \in {"Done", "Failed"}
    /\ k.todo = <<"store">> => /\ k.seen.st = "Review" /\ k.writes[k.task].st \in {"Done", "Failed"}
                               /\ k.writes[k.task].deps = j[k.task]
    /\ k.todo # <<"store">> => \A u \in DOMAIN k.writes :
          /\ r[u].st = "Blocked" /\ k.writes[u].st = "Ready"
          /\ k.writes[u].deps = j[u] /\ j[u] \subseteq Done(r)

Known == \A c \in Caller : Knows(call[c], row, join)

(* No agent is at work on what is being updated, and an agent at work that *)
(* has not ended is on a task that is InProgress.                          *)
Ruled == \A c \in Caller, t \in Task : call[c].op = "update" /\ Of(c) = t => ~Judging(t)
Working == \A t \in Task :
    t \in running /\ (\A c \in Caller : ~(call[c].op = "finish" /\ Of(c) = t)) => row[t].st = "InProgress"

(* No later step waits for a gate that is Looped or about to be.           *)
Parted == \A c \in Caller : call[c].todo # <<>> /\ Head(call[c].todo) = "mark" =>
    \A u \in link : kind[u].step > kind[Of(c)].step => Of(c) \notin join[u]
NoneLooped == \A t \in link : \A d \in join[t] : kind[d].step < kind[t].step => row[d].st # "Looped"

Tidy == Agrees /\ Known /\ Ruled /\ Working /\ Parted /\ NoneLooped

(* A call that will look at whether the instance is settled, and one that  *)
(* will look at what is Blocked, or is storing what it found.              *)
OwingStages == {<<"refresh", "cleanup", "loop">>, <<"apply", "cleanup", "loop">>,
                <<"cleanup", "loop">>, <<"loop">>, <<"iterate">>, <<"complete">>,
                <<"prune", "refresh", "complete", "merged">>, <<"refresh", "complete", "merged">>,
                <<"apply", "complete", "merged">>, <<"complete", "merged">>,
                <<"loop", "cleanup", "end">>, <<"iterate", "cleanup", "end">>,
                <<"complete", "cleanup", "end">>}
RefreshStages == {<<"refresh", "cleanup", "loop">>, <<"refresh">>,
                  <<"prune", "refresh", "complete", "merged">>, <<"refresh", "complete", "merged">>,
                  <<"cleanup", "erase", "refresh">>, <<"erase", "refresh">>}
ApplyStages == {<<"apply">>, <<"apply", "cleanup", "loop">>, <<"apply", "complete", "merged">>}

Owes(k) == k.task \in link /\ k.todo \in OwingStages
Owed == instance = "Running" /\ AllTerminal => \E c \in Caller : Owes(call[c])

Frees(k, t) == k.todo \in RefreshStages \/ (k.todo \in ApplyStages /\ t \in DOMAIN k.writes)
Unblocking == \A t \in Task : row[t].st = "Blocked" /\ join[t] \subseteq Done(row) =>
    \E c \in Caller : Frees(call[c], t)


(* Steps declared after one they depend on: create_task for a step whose   *)
(* dependencies are all declared later stores it Blocked on nothing.       *)
Declared == \A w \in Workflows : \A i \in DOMAIN w :
    w[i].deps # {} => w[i].deps \cap 1 .. (i - 1) # {}

Stays == Tidy' /\ (breaks' > 0 \/ ((Owed => Owed') /\ (Declared /\ Unblocking => Unblocking')))

(* What no step does to the tables: undo what is Done, give a task that    *)
(* has all it depends on other dependencies, or wait again for one that    *)
(* was started.                                                            *)
Smooth(r, j, r2, j2) ==
    /\ Done(r) \subseteq Done(r2)
    /\ \A u \in Task : r[u] # NoRow =>
          /\ r2[u] # NoRow
          /\ j[u] \subseteq Done(r) => j2[u] = j[u]
          /\ r[u].st \notin Waiting => r2[u].st \notin Waiting

LEMMA SmoothSame ==
    ASSUME NEW r, NEW j PROVE Smooth(r, j, r, j)
BY DEF Smooth

LEMMA StartedIs ==
    ASSUME Agrees, NEW t \in Task, row[t].st \notin Waiting
    PROVE  row[t] # NoRow /\ join[t] \subseteq Done(row) /\ row[t].deps = join[t]
BY DEF Agrees, Waiting, NoRow

(* A call's knowledge outlasts what other calls do.                        *)
LEMMA KnowsStays ==
    ASSUME OrderInv, Agrees, NEW k, NEW r2, NEW j2, Fact(k, row, join), Knows(k, row, join),
           Smooth(row, join, r2, j2),
           Solo(k.op) => \A u \in Task : row[u].st = "Blocked" => r2[u].st = "Blocked",
           Pinned(k) => r2[k.task].st = row[k.task].st
    PROVE  Knows(k, r2, j2)
<1>1. k.op \in {"finish", "merge", "update"} =>
         k.task \in Task /\ row[k.task].st \notin Waiting /\ j2[k.task] = join[k.task]
         /\ r2[k.task].st \notin Waiting
  BY StartedIs DEF Fact, Knows, Smooth
<1>2. k.op = "delete" => r2[k.task] # NoRow
  BY DEF Fact, Knows, Smooth
<1>3. k.todo = <<"store">> => k.op = "update"
  BY DEF Fact, Staged, MergeStages, FinishStagesAll, FailedStages, JudgedStages, DeleteStages,
         CreateStages
<1>4. ASSUME k.todo # <<"store">>, NEW u \in DOMAIN k.writes
      PROVE  r2[u].st = "Blocked" /\ k.writes[u].deps = j2[u] /\ j2[u] \subseteq Done(r2)
  <2>1. u \in Task /\ row[u].st = "Blocked" /\ k.writes[u].deps = join[u] /\ join[u] \subseteq Done(row)
        /\ row[u] # NoRow
    BY <1>4 DEF Fact, Held, Knows
  <2>2. Solo(k.op)
    BY <1>4 DEF Fact, Staged, FinishStagesAll, FailedStages, JudgedStages, Solo, Idle
  <2> QED BY <2>1, <2>2 DEF Smooth
<1> QED BY <1>1, <1>2, <1>3, <1>4 DEF Knows, Pinned

LEMMA OthersKnow ==
    ASSUME OrderInv, Agrees, Known, NEW c \in Caller, OthersStay(c), Knows(call'[c], row', join'),
           Smooth(row, join, row', join'),
           \/ Solo(call[c].op)
           \/ \A u \in Task : row[u].st = "Blocked" => row'[u].st = "Blocked",
           \A d \in Caller \ {c} : Pinned(call[d]) => row'[Of(d)].st = row[Of(d)].st
    PROVE  Known'
<1>1. ASSUME NEW d \in Caller PROVE Knows(call'[d], row', join')
  <2>1. CASE d = c
    BY <2>1
  <2>2. CASE d # c
    <3>1. call'[d] = call[d] /\ Fact(call[d], row, join) /\ Knows(call[d], row, join)
      BY <2>2 DEF OthersStay, OrderInv, Facts, Known
    <3>2. Solo(call[d].op) => \A u \in Task : row[u].st = "Blocked" => row'[u].st = "Blocked"
      BY <2>2 DEF OrderInv, Alone
    <3>3. Pinned(call[d]) => row'[call[d].task].st = row[call[d].task].st
      BY <2>2 DEF Of
    <3> QED BY <3>1, <3>2, <3>3, KnowsStays
  <2> QED BY <2>1, <2>2
<1> QED BY <1>1 DEF Known

LEMMA AllKnow ==
    ASSUME OrderInv, Agrees, Known, call' = call, Smooth(row, join, row', join'),
           \A u \in Task : row[u].st = "Blocked" => row'[u].st = "Blocked",
           \A d \in Caller : Pinned(call[d]) => row'[Of(d)].st = row[Of(d)].st
    PROVE  Known'
<1>1. ASSUME NEW d \in Caller PROVE Knows(call'[d], row', join')
  <2>1. Fact(call[d], row, join) /\ Knows(call[d], row, join)
    BY DEF OrderInv, Facts, Known
  <2> QED BY <2>1, KnowsStays DEF Of
<1> QED BY <1>1 DEF Known

LEMMA IdleKnows ==
    ASSUME NEW r, NEW j PROVE Knows(Idle, r, j) /\ Idle.op = "none" /\ ~Pinned(Idle) /\ Idle.todo = <<>>
BY DEF Knows, Idle, Pinned, DecidedStages, FailedStages

(* A step that leaves the rows as they are.                                *)
LEMMA QuietTidy ==
    ASSUME OrderInv, Tidy, NEW c \in Caller, OthersStay(c), UNCHANGED <<row, join, kind, link>>,
           branches' \subseteq branches, running' \subseteq running, Knows(call'[c], row, join),
           \A t : Judging(t)' => Judging(t),
           call'[c].op = "update" => ~Judging(call'[c].task),
           \A t \in running' : call[c].op = "finish" /\ Of(c) = t =>
                call'[c].op = "finish" /\ call'[c].task = t,
           call'[c].todo # <<>> => Head(call'[c].todo) # "mark"
    PROVE  Tidy'
<1> USE DEF Tidy
<1>1. Agrees'
  BY DEF Agrees, Done
<1>2. Known'
  BY SmoothSame, OthersKnow
<1>3. Ruled'
  <2>1. ASSUME NEW d \in Caller, NEW t \in Task, call'[d].op = "update", call'[d].task = t
        PROVE  ~Judging(t)'
    BY <2>1 DEF Ruled, OthersStay, Of
  <2> QED BY <2>1 DEF Ruled, Of
<1>4. Working'
  <2>1. ASSUME NEW t \in Task, t \in running', \A d \in Caller : ~(call'[d].op = "finish" /\ call'[d].task = t)
        PROVE  row[t].st = "InProgress"
    <3>1. ASSUME NEW d \in Caller, call[d].op = "finish", call[d].task = t PROVE FALSE
      <4>1. d # c
        BY <2>1, <3>1 DEF Of
      <4> QED BY <2>1, <3>1, <4>1 DEF OthersStay
    <3> QED BY <2>1, <3>1 DEF Working, Of
  <2> QED BY <2>1 DEF Working, Of
<1>5. Parted'
  <2>1. ASSUME NEW d \in Caller, call'[d].todo # <<>>, Head(call'[d].todo) = "mark"
        PROVE  call'[d] = call[d]
    BY <2>1 DEF OthersStay
  <2> QED BY <2>1 DEF Parted, Of
<1>6. NoneLooped'
  BY DEF NoneLooped
<1> QED BY <1>1, <1>2, <1>3, <1>4, <1>5, <1>6

LEMMA QuietSettles ==
    ASSUME NEW c \in Caller, OthersStay(c), UNCHANGED <<row, join, link, instance>>,
           Owes(call[c]) => Owes(call'[c]), \A t : Frees(call[c], t) => Frees(call'[c], t)
    PROVE  (Owed => Owed') /\ (Unblocking => Unblocking')
<1>1. ASSUME NEW d \in Caller, Owes(call[d]) PROVE Owes(call'[d])
  BY <1>1 DEF OthersStay
<1>2. ASSUME NEW d \in Caller, NEW t, Frees(call[d], t) PROVE Frees(call'[d], t)
  BY <1>2 DEF OthersStay
<1>3. Owed => Owed'
  BY <1>1 DEF Owed, Owes, AllTerminal
<1>4. Unblocking => Unblocking'
  BY <1>2 DEF Unblocking, Done
<1> QED BY <1>3, <1>4

LEMMA QuietOnwards ==
    ASSUME OrderInv, Tidy, NEW c \in Caller, Onwards(c), UNCHANGED <<row, join, kind, link, running>>,
           branches' \subseteq branches, Knows(call'[c], row, join),
           call[c].op = "finish" =>
               call'[c].op = "finish" /\ (call[c].todo \in JudgedStages => call'[c].todo \in JudgedStages),
           call'[c].todo # <<>> => Head(call'[c].todo) # "mark"
    PROVE  Tidy'
<1>1. OthersStay(c) /\ Fact(call[c], row, join)
  BY DEF Onwards, OrderInv, Facts
<1>2. call[c].op = "finish" => call'[c].op = "finish" /\ call'[c].task = call[c].task
  BY IdleKnows DEF Onwards
<1>3. \A t : Judging(t)' => Judging(t)
  BY <1>1, <1>2, JudgingStays
<1>4. call'[c].op = "update" => ~Judging(call'[c].task)
  BY <1>1, IdleKnows DEF Onwards, Fact, Tidy, Ruled, Of
<1> QED BY <1>1, <1>2, <1>3, <1>4, QuietTidy DEF Of

(* How what a call has left may change without its knowing less.           *)
Follows(o, p, q) ==
    /\ q # <<"store">> /\ (q # <<>> => Head(q) # "mark")
    /\ o = "finish" => /\ q # <<>> /\ q # <<"verdict">>
                       /\ p \in JudgedStages => q \in JudgedStages
                       /\ q \in FailedStages => p \in FailedStages
    /\ o = "update" /\ q \in DecidedStages => p \in DecidedStages

LEMMA KnowsMoves ==
    ASSUME NEW k, NEW n, NEW r, NEW j, Knows(k, r, j), Same(k, n), k.todo # <<"store">>,
           Follows(k.op, k.todo, n.todo)
    PROVE  Knows(n, r, j)
<1>1. k.op = n.op /\ n.task = k.task /\ n.seen = k.seen /\ n.writes = k.writes
  BY DEF Same
<1>2. /\ n.todo # <<"store">> /\ (n.op = "finish" => n.todo # <<"verdict">>)
      /\ n.op = "update" /\ n.todo \in DecidedStages => k.todo \in DecidedStages
      /\ n.op = "finish" /\ n.todo \in FailedStages => k.todo \in FailedStages
  BY <1>1 DEF Follows
<1> QED BY <1>1, <1>2 DEF Knows

LEMMA QuietContinue ==
    ASSUME OrderInv, Tidy, NEW c \in Caller, NEW s, Stage(c, s), s \notin {"apply", "store"},
           NEW q, Continue(c, q), UNCHANGED <<row, join, kind, link, running>>, branches' \subseteq branches,
           Follows(call[c].op, call[c].todo, q)
    PROVE  /\ Tidy'
           /\ OthersStay(c) /\ call'[c].todo = q /\ (q # <<>> => call'[c].task = call[c].task)
           /\ call[c].todo \notin ApplyStages
<1>0. Shaped /\ call[c].todo # <<>> /\ Head(call[c].todo) = s /\ call[c].next = None
      /\ Knows(call[c], row, join)
  BY DEF OrderInv, LoopInv, CallsInv, Stage, Tidy, Known
<1>a. call[c].todo \notin ApplyStages /\ call[c].todo # <<"store">>
  BY <1>0 DEF ApplyStages
<1>1. CASE q = <<>>
  <2>1. OthersStay(c) /\ call'[c] = Idle
    BY <1>0, <1>1, Going
  <2>2. call[c].op # "finish"
    BY <1>1 DEF Follows
  <2>3. Tidy'
    BY <2>1, <2>2, IdleKnows, QuietOnwards DEF Onwards
  <2> QED BY <1>a, <1>1, <2>1, <2>3, IdleKnows
<1>2. CASE q # <<>>
  <2>1. OthersStay(c) /\ call'[c].todo = q /\ Same(call[c], call'[c])
    BY <1>0, <1>2, Going
  <2>2. Knows(call'[c], row, join)
    BY <1>a, <1>0, <2>1, KnowsMoves
  <2>3. Onwards(c)
    BY <2>1 DEF Onwards, Same
  <2>4. call[c].op = "finish" =>
            call'[c].op = "finish" /\ (call[c].todo \in JudgedStages => call'[c].todo \in JudgedStages)
    BY <2>1 DEF Same, Follows
  <2>5. call'[c].todo # <<>> => Head(call'[c].todo) # "mark"
    BY <2>1 DEF Follows
  <2>6. Tidy'
    BY <2>2, <2>3, <2>4, <2>5, QuietOnwards
  <2> QED BY <1>a, <2>1, <2>6 DEF Same
<1> QED BY <1>1, <1>2

(* The same, when the call still owes what it owed.                        *)
LEMMA QuietAdvance ==
    ASSUME OrderInv, Tidy, NEW c \in Caller, NEW s, Stage(c, s), s \notin {"apply", "store"},
           NEW q, Continue(c, q), UNCHANGED <<row, join, kind, link, running, instance>>,
           branches' \subseteq branches, Follows(call[c].op, call[c].todo, q),
           call[c].todo \in OwingStages => q \in OwingStages,
           call[c].todo \in RefreshStages => q \in RefreshStages
    PROVE  Stays
<1>1. /\ Tidy'
      /\ OthersStay(c) /\ call'[c].todo = q /\ (q # <<>> => call'[c].task = call[c].task)
      /\ call[c].todo \notin ApplyStages
  BY QuietContinue
<1>2. <<>> \notin OwingStages
  BY DEF OwingStages
<1>3. Owes(call[c]) => Owes(call'[c])
  BY <1>1, <1>2 DEF Owes
<1>4. \A t : Frees(call[c], t) => Frees(call'[c], t)
  BY <1>1 DEF Frees
<1> QED BY <1>1, <1>3, <1>4, QuietSettles DEF Stays

(* A call that is given up.                                                *)
LEMMA QuietEnd ==
    ASSUME OrderInv, Tidy, NEW c \in Caller, Return(c), call[c].op # "finish",
           UNCHANGED <<row, join, kind, link, running>>, branches' \subseteq branches
    PROVE  Tidy' /\ OthersStay(c) /\ call'[c] = Idle
<1>1. OthersStay(c) /\ call'[c] = Idle
  BY Becoming DEF Return, OrderInv, LoopInv, CallsInv
<1>2. Tidy'
  BY <1>1, IdleKnows, QuietOnwards DEF Onwards
<1> QED BY <1>1, <1>2

LEMMA QuietReturns ==
    ASSUME OrderInv, Tidy, NEW c \in Caller, Return(c), call[c].op # "finish",
           UNCHANGED <<row, join, kind, link, running, instance>>, branches' \subseteq branches,
           call[c].todo \notin OwingStages \cup RefreshStages \cup ApplyStages
    PROVE  Stays
<1>1. Tidy' /\ OthersStay(c)
  BY QuietEnd
<1>2. ~Owes(call[c]) /\ \A t : ~Frees(call[c], t)
  BY DEF Owes, Frees
<1> QED BY <1>1, <1>2, QuietSettles DEF Stays

(* The stages of the calls that change no row.                             *)
LEMMA CleanupStays == ASSUME OrderInv, Tidy, NEW c \in Caller, Cleanup(c) PROVE Stays
<1>0. /\ Fact(call[c], row, join) /\ Stage(c, "cleanup") /\ Continue(c, Tail(call[c].todo))
      /\ UNCHANGED <<row, join, kind, link, running, instance, branches>>
  BY DEF OrderInv, Facts, Cleanup, Advance, rowVars
<1>1. \/ call[c].op = "update" /\ call[c].todo = <<"cleanup", "loop">>
      \/ call[c].op = "delete" /\ call[c].todo = <<"cleanup", "erase", "refresh">>
      \/ call[c].op = "finish" /\ call[c].todo = <<"cleanup", "end">>
  BY <1>0, Remaining DEF Stage, Fact
<1>2. ASSUME NEW p, p = Tail(call[c].todo) PROVE Stays
  <2>1. \/ call[c].op = "update" /\ call[c].todo = <<"cleanup", "loop">> /\ p = <<"loop">>
        \/ call[c].op = "delete" /\ call[c].todo = <<"cleanup", "erase", "refresh">>
           /\ p = <<"erase", "refresh">>
        \/ call[c].op = "finish" /\ call[c].todo = <<"cleanup", "end">> /\ p = <<"end">>
    BY <1>1, <1>2, Pieces
  <2>2. /\ Follows(call[c].op, call[c].todo, p)
        /\ call[c].todo \in OwingStages => p \in OwingStages
        /\ call[c].todo \in RefreshStages => p \in RefreshStages
    <3>1. CASE call[c].op = "update"
      <4>1. call[c].todo = <<"cleanup", "loop">> /\ p = <<"loop">>
        BY <2>1, <3>1
      <4> QED BY <3>1, <4>1 DEF Follows, DecidedStages, OwingStages, RefreshStages
    <3>2. CASE call[c].op = "delete"
      BY <2>1, <3>2 DEF Follows, OwingStages, RefreshStages
    <3>3. CASE call[c].op = "finish"
      BY <2>1, <3>3 DEF Follows, JudgedStages, FailedStages, OwingStages, RefreshStages
    <3> QED BY <2>1, <3>1, <3>2, <3>3
  <2> QED BY <1>0, <1>2, <2>2, QuietAdvance
<1> QED BY <1>2

LEMMA LockedStays ==
    ASSUME OrderInv, Tidy, NEW c \in Caller, Rebase(c) \/ Land(c) \/ LandFails(c) \/ Merged(c)
    PROVE  Stays
<1>0. /\ Fact(call[c], row, join)
      /\ UNCHANGED <<row, join, kind, link, running, instance, branches>>
  BY DEF OrderInv, Facts, Rebase, Land, LandFails, Merged, rowVars, gitVars
<1>1. PICK s \in {"rebase", "land", "merged"} : Stage(c, s)
  BY DEF Rebase, Land, LandFails, Merged
<1>2. /\ call[c].op = "merge" /\ call[c].todo \in {<<"rebase">>, <<"land">>, <<"merged">>}
  BY <1>0, <1>1, Remaining DEF Stage, Fact
<1>3. call[c].todo \notin OwingStages \cup RefreshStages \cup ApplyStages
  BY <1>2 DEF OwingStages, RefreshStages, ApplyStages
<1>4. CASE GiveUp(c)
  BY <1>0, <1>2, <1>3, <1>4, QuietReturns DEF GiveUp
<1>5. ASSUME NEW q \in {<<"land">>, <<"landed">>}, Continue(c, q) PROVE Stays
  <2>1. Follows(call[c].op, call[c].todo, q)
    BY <1>2, <1>5 DEF Follows
  <2> QED BY <1>0, <1>1, <1>3, <1>5, <2>1, QuietAdvance
<1> QED BY <1>4, <1>5 DEF Rebase, Land, LandFails, Merged

LEMMA PruneStays == ASSUME OrderInv, Tidy, breaks \in Nat, NEW c \in Caller, Prune(c) PROVE Stays
<1>0. /\ Fact(call[c], row, join) /\ Stage(c, "prune")
      /\ UNCHANGED <<row, join, kind, link, running, instance>> /\ branches' \subseteq branches
  BY DEF OrderInv, Facts, Prune, rowVars
<1>1. call[c].op = "merge" /\ call[c].todo = <<"prune", "refresh", "complete", "merged">>
  BY <1>0, Remaining DEF Stage, Fact
<1>2. CASE GiveUp(c) /\ breaks' = breaks + 1
  BY <1>0, <1>1, <1>2, QuietEnd DEF GiveUp, Stays
<1>3. CASE Advance(c)
  <2>1. PICK p : p = <<"refresh", "complete", "merged">>
    OBVIOUS
  <2>2. /\ Follows(call[c].op, call[c].todo, p)
        /\ p \in OwingStages /\ p \in RefreshStages
    BY <1>1, <2>1 DEF Follows, OwingStages, RefreshStages
  <2>3. Continue(c, p)
    BY <1>1, <1>3, <2>1, MergeTails DEF Advance
  <2> QED BY <1>0, <2>2, <2>3, QuietAdvance
<1> QED BY <1>2, <1>3 DEF Prune

(* An instance all of whose tasks are terminal is not Running afterwards.  *)
LEMMA CompletionStays == ASSUME OrderInv, Tidy, NEW c \in Caller, CheckCompletion(c) PROVE Stays
<1>0. /\ Fact(call[c], row, join) /\ Stage(c, "complete") /\ Continue(c, Tail(call[c].todo))
      /\ UNCHANGED <<row, join, kind, link, running, branches>>
  BY DEF OrderInv, Facts, CheckCompletion, Advance, gitVars
<1>1. \/ call[c].op = "merge" /\ call[c].todo = <<"complete", "merged">>
      \/ call[c].op = "update" /\ call[c].todo = <<"complete">>
      \/ call[c].op = "finish" /\ call[c].todo = <<"complete", "cleanup", "end">>
  BY <1>0, Remaining DEF Stage, Fact
<1>2. call[c].todo \notin RefreshStages \cup ApplyStages
  BY <1>1 DEF RefreshStages, ApplyStages
<1>3. PICK p : p = Tail(call[c].todo)
  OBVIOUS
<1>4. Follows(call[c].op, call[c].todo, p)
  <2>1. \/ call[c].op = "merge" /\ p = <<"merged">>
        \/ call[c].op = "update" /\ p = <<>>
        \/ call[c].op = "finish" /\ p = <<"cleanup", "end">>
    BY <1>1, <1>3, Pieces
  <2> QED BY <2>1 DEF Follows, JudgedStages, FailedStages, DecidedStages
<1>5. Tidy' /\ OthersStay(c)
  BY <1>0, <1>3, <1>4, QuietContinue
<1>6. Unblocking => Unblocking'
  <2>1. \A d \in Caller : \A t : Frees(call[d], t) => Frees(call'[d], t)
    BY <1>2, <1>5 DEF OthersStay, Frees
  <2> QED BY <1>0, <2>1 DEF Unblocking, Done
<1>7. Owed => Owed'
  <2>1. CASE call[c].task \in link
    BY <1>0, <2>1 DEF CheckCompletion, Owed, AllTerminal, Of
  <2>2. CASE call[c].task \notin link
    <3>1. \A d \in Caller : Owes(call[d]) => Owes(call'[d])
      BY <1>5, <2>2 DEF OthersStay, Owes
    <3>2. instance' = instance
      BY <2>2 DEF CheckCompletion, Of
    <3> QED BY <1>0, <3>1, <3>2 DEF Owed, Owes, AllTerminal
  <2> QED BY <2>1, <2>2
<1> QED BY <1>5, <1>6, <1>7 DEF Stays

LEMMA EndStays == ASSUME OrderInv, Tidy, NEW c \in Caller, EndFinish(c) PROVE Stays
<1>0. /\ Shaped /\ Fact(call[c], row, join) /\ Stage(c, "end") /\ running' = running \ {Of(c)}
      /\ UNCHANGED <<row, join, kind, link, instance, branches>>
  BY DEF OrderInv, LoopInv, CallsInv, Facts, EndFinish, rowVars
<1>1. call[c].op = "finish" /\ call[c].todo = <<"end">>
  BY <1>0, Remaining DEF Stage, Fact
<1>2. OthersStay(c) /\ call'[c] = Idle
  <2>1. Continue(c, <<>>)
    BY <1>1, Pieces DEF EndFinish, Advance
  <2>2. call[c].next = None
    BY <1>0 DEF Stage
  <2> QED BY <1>0, <2>1, <2>2, Going
<1>3. \A u : Judging(u)' => Judging(u)
  <2>1. ASSUME NEW u, Judging(u)' PROVE Judging(u)
    <3>1. u \in running' => u \in running
      BY <1>0
    <3>2. Of(c) \notin running'
      BY <1>0
    <3> QED BY <1>2, <2>1, <3>1, <3>2, JudgingStays
  <2> QED BY <2>1
<1>4. Tidy'
  BY <1>0, <1>2, <1>3, IdleKnows, QuietTidy
<1>5. ~Owes(call[c]) /\ \A t : ~Frees(call[c], t)
  BY <1>1 DEF Owes, Frees, OwingStages, RefreshStages, ApplyStages
<1> QED BY <1>0, <1>2, <1>4, <1>5, QuietSettles DEF Stays

(* check_loop_trigger.                                                     *)
LEMMA CheckLoopStays == ASSUME Reviewing, OrderInv, Tidy, NEW c \in Caller, CheckLoop(c) PROVE Stays
<1> DEFINE q == call[c].todo
<1>0. /\ Shaped /\ Kinds /\ Fact(call[c], row, join) /\ Stage(c, "loop") /\ Tables
      /\ Knows(call[c], row, join)
      /\ UNCHANGED <<row, join, kind, link, running, instance, branches>>
  BY DEF OrderInv, LoopInv, CallsInv, Facts, CheckLoop, rowVars, gitVars, Tidy, Known
<1>1. \/ call[c].op = "update" /\ q = <<"loop">> /\ Tail(q) = <<>>
      \/ call[c].op = "finish" /\ q = <<"loop", "cleanup", "end">> /\ Tail(q) = <<"cleanup", "end">>
  <2>1. \/ call[c].op = "update" /\ q = <<"loop">>
        \/ call[c].op = "finish" /\ q = <<"loop", "cleanup", "end">>
    BY <1>0, Remaining DEF Stage, Fact
  <2> QED BY <2>1, Pieces
<1>2. CASE Continue(c, AfterNoLoop(c) \o Tail(q))
  <2>1. AfterNoLoop(c) = <<"complete">>
    <3>1. call[c].op = "finish" => call[c].seen.st = "Failed"
      BY <1>0, <1>1 DEF Fact, Gate, FailedStages
    <3> QED BY <3>1 DEF AfterNoLoop
  <2>2. \/ call[c].op = "update" /\ AfterNoLoop(c) \o Tail(q) = <<"complete">>
        \/ call[c].op = "finish" /\ AfterNoLoop(c) \o Tail(q) = <<"complete", "cleanup", "end">>
    BY <1>1, <2>1, Pieces
  <2>3. PICK p : p = AfterNoLoop(c) \o Tail(q)
    OBVIOUS
  <2>4. q \notin RefreshStages /\ (call[c].op = "finish" => q \notin JudgedStages)
    BY <1>1 DEF RefreshStages, JudgedStages
  <2>5. Follows(call[c].op, q, p) /\ p \in OwingStages
    <3> HIDE DEF q
    <3>1. CASE call[c].op = "update"
      <4>1. p = <<"complete">>
        BY <2>2, <2>3, <3>1
      <4> QED BY <3>1, <4>1 DEF Follows, DecidedStages, OwingStages
    <3>2. CASE call[c].op = "finish"
      <4>1. p = <<"complete", "cleanup", "end">>
        BY <2>2, <2>3, <3>2
      <4> QED BY <2>4, <3>2, <4>1 DEF Follows, FailedStages, OwingStages
    <3> QED BY <1>1, <3>1, <3>2
  <2> QED BY <1>0, <1>2, <2>3, <2>4, <2>5, QuietAdvance
<1>3. ASSUME Triggers(Of(c), call[c].seen.st),
             call' = [call EXCEPT ![c].todo = <<"iterate">> \o Tail(@),
                                 ![c].seen = [row[Of(c)] EXCEPT !.st = call[c].seen.st],
                                 ![c].iter = LatestIteration(kind[Of(c)].step) + 1]
      PROVE  Stays
  <2> DEFINE n == LatestIteration(kind[Of(c)].step) + 1
             r == WithStatus(row[Of(c)], call[c].seen.st)
             k == [call[c] EXCEPT !.todo = <<"iterate">> \o Tail(q), !.seen = r, !.iter = n]
  <2>1. call' = [call EXCEPT ![c] = k]
    BY <1>0, <1>3 DEF Shaped, WithStatus
  <2>2. /\ k.todo = <<"iterate">> \o Tail(q) /\ k.seen = r /\ k.op = call[c].op /\ k.task = call[c].task
        /\ k.writes = call[c].writes
    <3>1. DOMAIN call[c] = Fields
      BY <1>0, IsFields DEF Shaped
    <3> QED BY <3>1 DEF Fields
  <2>3. call[c].seen.st = "Failed" /\ Of(c) \in Task
    BY <1>0, <1>3, TriggersFailed, MadeAreTasks DEF Kinds, Reviewing
  <2>4. r.st = "Failed" /\ r.deps = row[Of(c)].deps
    <3>1. IsRow(row[Of(c)])
      BY <1>0, <2>3 DEF Tables
    <3> QED BY <2>3, <3>1, RowStatus
  <2> HIDE DEF k, r, n
  <2>5. call'[c] = k /\ OthersStay(c)
    BY <1>0, <2>1, Becoming
  <2>6. \/ k.op = "update" /\ k.todo = <<"iterate">>
        \/ k.op = "finish" /\ k.todo = <<"iterate", "cleanup", "end">>
    BY <1>1, <2>2, Pieces
  <2>7. /\ k.todo # <<"store">> /\ k.todo # <<"verdict">> /\ k.todo \in OwingStages
        /\ (k.todo # <<>> => Head(k.todo) # "mark")
        /\ k.todo \notin RefreshStages
    <3>1. CASE k.todo = <<"iterate">>
      BY <3>1 DEF OwingStages, RefreshStages
    <3>2. CASE k.todo = <<"iterate", "cleanup", "end">>
      BY <3>2 DEF OwingStages, RefreshStages
    <3> QED BY <2>6, <3>1, <3>2
  <2>8. /\ k.op = "update" => q \in DecidedStages
        /\ k.op = "finish" => q \in FailedStages
        /\ q # <<"store">> /\ q \notin RefreshStages \cup ApplyStages /\ q \notin JudgedStages
    <3> HIDE DEF q
    <3>1. CASE k.op = "update"
      <4>1. q = <<"loop">>
        BY <1>1, <2>2, <3>1
      <4> QED BY <3>1, <4>1 DEF DecidedStages, RefreshStages, ApplyStages, JudgedStages
    <3>2. CASE k.op = "finish"
      <4>1. q = <<"loop", "cleanup", "end">>
        BY <1>1, <2>2, <3>2
      <4> QED BY <3>2, <4>1 DEF FailedStages, RefreshStages, ApplyStages, JudgedStages
    <3> QED BY <1>1, <2>2, <3>1, <3>2
  <2>9. Knows(k, row, join)
    <3>1. row[k.task].deps = join[k.task]
      BY <2>2, <2>3 DEF Tidy, Agrees, Of
    <3>2. row[k.task].st = "Failed"
      BY <1>0, <1>1, <2>2, <2>3, <2>8 DEF Knows
    <3>3. DOMAIN k.writes = {}
      BY <1>0, <1>1, <2>2 DEF Fact
    <3> QED BY <1>0, <1>1, <2>2, <2>3, <2>4, <2>7, <3>1, <3>2, <3>3 DEF Knows, Of, Waiting
  <2>10. Tidy'
    BY <1>0, <2>2, <2>5, <2>7, <2>8, <2>9, QuietOnwards DEF Onwards
  <2>11. Owes(call[c]) => Owes(call'[c])
    BY <2>2, <2>5, <2>7 DEF Owes
  <2>12. \A t : ~Frees(call[c], t)
    BY <2>8 DEF Frees
  <2> QED BY <1>0, <2>5, <2>10, <2>11, <2>12, QuietSettles DEF Stays
<1> QED BY <1>2, <1>3 DEF CheckLoop

(* A refresh finds the tasks that are Blocked on nothing, and no other.    *)
LEMMA RefreshFinds ==
    ASSUME Tables, Agrees, NEW t \in Task, row[t] # NoRow
    PROVE  /\ Refreshed(t, Done(row)) # row[t] => row[t].st = "Blocked" /\ join[t] \subseteq Done(row)
           /\ row[t].st = "Blocked" /\ join[t] \subseteq Done(row) =>
                 Refreshed(t, Done(row)).st = "Ready" /\ Refreshed(t, Done(row)).deps = join[t]
<1> DEFINE done == Done(row)
           s == IF row[t].st \in {"Planned", "Ready", "Blocked"}
                THEN RefreshBlocked(row[t].st, join[t], done) ELSE row[t].st
           f == IF Is(t, "Blocked") /\ s = "Planned" THEN "Ready" ELSE s
<1>1. Refreshed(t, done) = WithBoth(row[t], join[t], f)
  BY DEF Refreshed, WithBoth
<1>2. IsRow(row[t]) /\ row[t].deps = join[t] /\ row[t].st # "none"
      /\ (row[t].st \notin {"none", "Blocked"} => join[t] \subseteq done)
  BY DEF Tables, Agrees, IsRow
<1>3. f # "none" /\ (f # row[t].st => row[t].st = "Blocked" /\ join[t] \subseteq done)
      /\ (row[t].st = "Blocked" /\ join[t] \subseteq done => f = "Ready")
  <2>1. CASE row[t].st = "Blocked"
    <3>1. CASE join[t] \subseteq done
      BY <2>1, <3>1 DEF RefreshBlocked, Is
    <3>2. CASE ~(join[t] \subseteq done)
      BY <2>1, <3>2 DEF RefreshBlocked, Transition, Is
    <3> QED BY <3>1, <3>2
  <2>2. CASE row[t].st \in {"Planned", "Ready"}
    BY <1>2, <2>2 DEF RefreshBlocked, Is
  <2>3. CASE row[t].st \notin {"Planned", "Ready", "Blocked"}
    BY <1>2, <2>3 DEF Is
  <2> QED BY <2>1, <2>2, <2>3
<1> HIDE DEF f, s, done
<1>4. IsRow(WithBoth(row[t], join[t], f)) /\ WithBoth(row[t], join[t], f).st = f
      /\ WithBoth(row[t], join[t], f).deps = join[t]
  BY <1>2, <1>3, RowBoth
<1>5. f = row[t].st => WithBoth(row[t], join[t], f) = row[t]
  <2>1. WithBoth(row[t], join[t], row[t].st) = row[t]
    BY <1>2 DEF WithBoth, IsRow
  <2> QED BY <2>1
<1> QED BY <1>1, <1>3, <1>4, <1>5 DEF done

LEMMA RefreshStays == ASSUME OrderInv, Tidy, NEW c \in Caller, Refresh(c) PROVE Stays
<1> DEFINE q == call[c].todo
           done == Done(row) \cup IF call[c].op \in {"finish", "merge"} THEN {Of(c)} ELSE {}
           w == [t \in Outdated(done) |-> Refreshed(t, done)]
<1>0. /\ Shaped /\ Fact(call[c], row, join) /\ Stage(c, "refresh") /\ Tables
      /\ Knows(call[c], row, join) /\ Agrees
      /\ UNCHANGED <<row, join, kind, link, running, instance, branches>>
  BY DEF OrderInv, LoopInv, CallsInv, Facts, Refresh, rowVars, gitVars, Tidy, Known
<1>1. \/ call[c].op = "merge" /\ q = <<"refresh", "complete", "merged">>
      \/ call[c].op = "update" /\ q = <<"refresh", "cleanup", "loop">>
      \/ call[c].op \in {"update", "create", "delete"} /\ q = <<"refresh">>
  BY <1>0, Remaining DEF Stage, Fact
<1>2. done = Done(row)
  <2>1. CASE call[c].op = "merge"
    <3>1. row[Of(c)].st = "Done" /\ Of(c) \in Task
      BY <1>0, <1>1, <2>1 DEF Fact, Landed, Of
    <3> QED BY <2>1, <3>1 DEF Done
  <2>2. CASE call[c].op # "merge"
    BY <1>1, <2>2
  <2> QED BY <2>1, <2>2
<1> HIDE DEF done
<1>3. ASSUME NEW t \in Task, row[t].st = "Blocked", join[t] \subseteq Done(row)
      PROVE  t \in Outdated(done) /\ Refreshed(t, done).st = "Ready" /\ Refreshed(t, done).deps = join[t]
  <2>1. row[t] # NoRow
    BY <1>3 DEF NoRow
  <2>2. Refreshed(t, Done(row)).st = "Ready" /\ Refreshed(t, Done(row)).deps = join[t]
    BY <1>0, <1>3, <2>1, RefreshFinds
  <2> QED BY <1>2, <1>3, <2>1, <2>2 DEF Outdated, Rows, Exists
<1>4. ASSUME NEW t \in Outdated(done)
      PROVE  t \in Task /\ row[t].st = "Blocked" /\ join[t] \subseteq Done(row)
  <2>1. t \in Task /\ row[t] # NoRow /\ Refreshed(t, Done(row)) # row[t]
    BY <1>2 DEF Outdated, Rows, Exists
  <2> QED BY <1>0, <2>1, RefreshFinds
<1>5. \/ call[c].op = "merge" /\ q = <<"refresh", "complete", "merged">>
         /\ Tail(q) = <<"complete", "merged">> /\ <<"apply">> \o Tail(q) = <<"apply", "complete", "merged">>
      \/ call[c].op = "update" /\ q = <<"refresh", "cleanup", "loop">>
         /\ Tail(q) = <<"cleanup", "loop">> /\ <<"apply">> \o Tail(q) = <<"apply", "cleanup", "loop">>
      \/ call[c].op \in {"update", "create", "delete"} /\ q = <<"refresh">>
         /\ Tail(q) = <<>> /\ <<"apply">> \o Tail(q) = <<"apply">>
  <2>1. CASE call[c].op = "merge" /\ q = <<"refresh", "complete", "merged">>
    BY <2>1, Queued
  <2>2. CASE call[c].op = "update" /\ q = <<"refresh", "cleanup", "loop">>
    BY <2>2, Queued
  <2>3. CASE call[c].op \in {"update", "create", "delete"} /\ q = <<"refresh">>
    BY <2>3, Queued
  <2> HIDE DEF q
  <2> QED BY <1>1, <2>1, <2>2, <2>3
<1> HIDE DEF q
<1>6. CASE Advance(c) /\ Outdated(done) = {}
  <2>1. PICK p : p = Tail(q)
    OBVIOUS
  <2>2. Follows(call[c].op, q, p) /\ (q \in OwingStages => p \in OwingStages)
    <3>1. CASE p = <<"complete", "merged">> /\ call[c].op = "merge"
      BY <3>1 DEF Follows, OwingStages
    <3>2. CASE p = <<"cleanup", "loop">> /\ call[c].op = "update" /\ q = <<"refresh", "cleanup", "loop">>
      BY <3>2 DEF Follows, OwingStages, DecidedStages
    <3>3. CASE p = <<>> /\ call[c].op \in {"update", "create", "delete"} /\ q = <<"refresh">>
      BY <3>3 DEF Follows, OwingStages, DecidedStages
    <3> QED BY <1>5, <2>1, <3>1, <3>2, <3>3
  <2>3. /\ Tidy' /\ OthersStay(c) /\ call'[c].todo = p /\ (p # <<>> => call'[c].task = call[c].task)
    BY <1>0, <1>6, <2>1, <2>2, QuietContinue DEF Advance, q
  <2>4. ~ \E t \in Task : row[t].st = "Blocked" /\ join[t] \subseteq Done(row)
    BY <1>3, <1>6
  <2>5. Unblocking'
    BY <1>0, <2>4 DEF Unblocking, Done
  <2>6. <<>> \notin OwingStages
    BY DEF OwingStages
  <2>7. Owed => Owed'
    <3>1. \A d \in Caller : Owes(call[d]) => Owes(call'[d])
      BY <2>2, <2>3, <2>6 DEF OthersStay, Owes, q
    <3> QED BY <1>0, <3>1 DEF Owed, Owes, AllTerminal
  <2> QED BY <2>3, <2>5, <2>7 DEF Stays
<1>7. CASE call' = [call EXCEPT ![c].writes = w, ![c].todo = <<"apply">> \o Tail(@)]
  <2> DEFINE k == [call[c] EXCEPT !.writes = w, !.todo = <<"apply">> \o Tail(q)]
  <2>1. call' = [call EXCEPT ![c] = k]
    BY <1>0, <1>7 DEF Shaped, q
  <2>2. /\ k.writes = w /\ k.todo = <<"apply">> \o Tail(q) /\ k.op = call[c].op /\ k.task = call[c].task
        /\ k.seen = call[c].seen
    <3>1. DOMAIN call[c] = Fields
      BY <1>0, IsFields DEF Shaped
    <3> QED BY <3>1 DEF Fields
  <2> HIDE DEF k
  <2>3. call'[c] = k /\ OthersStay(c)
    BY <1>0, <2>1, Becoming
  <2>4. /\ k.todo # <<"store">> /\ (k.todo # <<>> => Head(k.todo) # "mark")
        /\ k.todo \in ApplyStages /\ k.op # "finish"
        /\ k.op = "update" /\ k.todo \in DecidedStages => q \in DecidedStages
        /\ q \in OwingStages => k.todo \in OwingStages
    <3>1. CASE k.todo = <<"apply", "complete", "merged">> /\ k.op = "merge"
      BY <3>1 DEF ApplyStages, OwingStages
    <3>2. CASE k.todo = <<"apply", "cleanup", "loop">> /\ k.op = "update" /\ q = <<"refresh", "cleanup", "loop">>
      BY <3>2 DEF ApplyStages, OwingStages, DecidedStages
    <3>3. CASE k.todo = <<"apply">> /\ k.op \in {"update", "create", "delete"} /\ q = <<"refresh">>
      BY <3>3 DEF ApplyStages, OwingStages, DecidedStages
    <3> QED BY <1>5, <2>2, <3>1, <3>2, <3>3
  <2>5. ASSUME NEW u \in DOMAIN k.writes
        PROVE  /\ row[u].st = "Blocked" /\ k.writes[u].st = "Ready"
               /\ k.writes[u].deps = join[u] /\ join[u] \subseteq Done(row)
    <3>1. u \in Outdated(done) /\ k.writes[u] = Refreshed(u, done)
      BY <2>2
    <3> QED BY <1>3, <1>4, <3>1
  <2>6. Knows(k, row, join)
    BY <1>0, <2>2, <2>4, <2>5 DEF Knows, q
  <2>7. Tidy'
    BY <1>0, <2>2, <2>3, <2>4, <2>6, QuietOnwards DEF Onwards
  <2>8. Unblocking'
    <3>1. ASSUME NEW t \in Task, row[t].st = "Blocked", join[t] \subseteq Done(row)
          PROVE  Frees(call'[c], t)
      BY <1>3, <2>2, <2>3, <2>4, <3>1 DEF Frees
    <3> QED BY <1>0, <3>1 DEF Unblocking, Done
  <2>9. Owed => Owed'
    <3>1. \A d \in Caller : Owes(call[d]) => Owes(call'[d])
      BY <2>2, <2>3, <2>4 DEF OthersStay, Owes, q
    <3> QED BY <1>0, <3>1 DEF Owed, Owes, AllTerminal
  <2> QED BY <2>7, <2>8, <2>9 DEF Stays
<1> QED BY <1>6, <1>7 DEF Refresh, done

(* The calls as they begin.                                                *)
LEMMA QuietBegins ==
    ASSUME Reviewing, OrderInv, Tidy, NEW c \in Caller, NEW o, Free(c, o), NEW k,
           call' = [call EXCEPT ![c] = k],
           UNCHANGED <<row, join, kind, link, running, branches, instance>>, Knows(k, row, join),
           k.op = "update" => ~Judging(k.task), k.todo # <<>> => Head(k.todo) # "mark"
    PROVE  Stays
<1>1. OthersStay(c) /\ call'[c] = k /\ call[c] = Idle
  BY BeginsAs DEF Reviewing
<1>2. call[c].op = "none" /\ ~Owes(call[c]) /\ \A t : ~Frees(call[c], t)
  <2>1. Idle.op = "none" /\ Idle.todo = <<>>
    BY IdleKnows
  <2> QED BY <1>1, <2>1 DEF Owes, Frees, OwingStages, RefreshStages, ApplyStages
<1>3. \A t : Judging(t)' => Judging(t)
  BY <1>1, <1>2, JudgingStays
<1>4. Tidy'
  BY <1>1, <1>2, <1>3, QuietTidy
<1> QED BY <1>1, <1>2, <1>4, QuietSettles DEF Stays

LEMMA NothingMoves ==
    ASSUME Tidy, UNCHANGED <<row, join, kind, link, running, instance, call>>, branches' \subseteq branches
    PROVE  Stays
<1>1. \A t : Judging(t)' <=> Judging(t)
  BY DEF Judging, Of
<1>2. Agrees' /\ Known' /\ Parted' /\ NoneLooped' /\ Working'
  BY DEF Tidy, Agrees, Done, Known, Parted, NoneLooped, Working, Of
<1>3. Ruled'
  BY <1>1 DEF Tidy, Ruled, Of
<1>4. (Owed => Owed') /\ (Unblocking => Unblocking')
  BY DEF Owed, Owes, AllTerminal, Unblocking, Frees, Done
<1> QED BY <1>2, <1>3, <1>4 DEF Stays, Tidy

LEMMA DeleteBegun ==
    ASSUME Reviewing, OrderInv, Tidy, NEW c \in Caller, NEW t \in Task, BeginDelete(c, t) PROVE Stays
<1> DEFINE k == Call("delete", t, <<"cleanup", "erase", "refresh">>)
<1>1. /\ Free(c, "delete") /\ call' = [call EXCEPT ![c] = k] /\ row[t] # NoRow
      /\ UNCHANGED <<row, join, kind, link, running, branches, instance>>
  BY DEF BeginDelete, Begin, rowVars, gitVars, Exists
<1>2. /\ k.op = "delete" /\ k.task = t /\ k.todo = <<"cleanup", "erase", "refresh">>
      /\ DOMAIN k.writes = {}
  BY CallIs
<1> HIDE DEF k
<1>3. Knows(k, row, join) /\ (k.todo # <<>> => Head(k.todo) # "mark")
  <2>1. ASSUME NEW p, p = <<"cleanup", "erase", "refresh">> PROVE p # <<"store">> /\ Head(p) # "mark"
    BY <2>1
  <2> QED BY <1>1, <1>2, <2>1 DEF Knows
<1> QED BY <1>1, <1>2, <1>3, QuietBegins

LEMMA FinishBegun ==
    ASSUME Reviewing, OrderInv, Tidy, NEW c \in Caller, NEW t \in Task, BeginFinish(c, t) PROVE Stays
<1>0. t \in running /\ row[t] # NoRow /\ row[t].st = "InProgress" /\ row[t].deps = join[t]
  <2>1. t \in running /\ \A d \in Caller : ~(call[d].op = "finish" /\ Of(d) = t)
    BY DEF BeginFinish
  <2>2. row[t].st = "InProgress"
    BY <2>1 DEF Tidy, Working
  <2> QED BY <2>1, <2>2 DEF Tidy, Agrees, NoRow
<1> DEFINE k == Call("finish", t, <<"verdict">>)
<1>1. /\ Free(c, "finish") /\ call' = [call EXCEPT ![c] = k]
      /\ UNCHANGED <<row, join, kind, link, running, branches, instance>>
  BY <1>0 DEF BeginFinish, Begin, rowVars, gitVars, Exists
<1>2. /\ k.op = "finish" /\ k.task = t /\ k.todo = <<"verdict">> /\ k.seen = row[t]
      /\ DOMAIN k.writes = {}
  <2>1. t # None
    BY WorkflowAssumption
  <2> QED BY <2>1, CallIs
<1> HIDE DEF k
<1>3. Knows(k, row, join) /\ (k.todo # <<>> => Head(k.todo) # "mark")
  <2>1. ASSUME NEW p, p = <<"verdict">> PROVE p # <<"store">> /\ Head(p) # "mark" /\ p \notin FailedStages
    BY <2>1 DEF FailedStages
  <2> QED BY <1>0, <1>2, <2>1 DEF Knows, Waiting
<1> QED BY <1>1, <1>2, <1>3, QuietBegins

LEMMA MergeBegun ==
    ASSUME Reviewing, OrderInv, Tidy, NEW c \in Caller, NEW t \in Task, BeginMerge(c, t) PROVE Stays
<1>1. queue[t] # "none" /\ UNCHANGED <<row, join, kind, link, running, branches, instance>>
  BY DEF BeginMerge, rowVars, gitVars
<1>2. CASE UNCHANGED call
  BY <1>1, <1>2, NothingMoves
<1>3. CASE Begin(c, "merge", t, <<"rebase">>)
  <2> DEFINE k == Call("merge", t, <<"rebase">>)
  <2>1. Free(c, "merge") /\ call' = [call EXCEPT ![c] = k]
    BY <1>3 DEF Begin
  <2>2. /\ k.op = "merge" /\ k.task = t /\ k.todo = <<"rebase">> /\ k.seen = row[t]
        /\ DOMAIN k.writes = {}
    <3>1. t # None
      BY WorkflowAssumption
    <3> QED BY <3>1, CallIs
  <2> HIDE DEF k
  <2>3. row[t].st \notin Waiting /\ row[t].deps = join[t]
    <3>1. ~Unreviewed(t)
      BY <1>1 DEF Unreviewed
    <3>2. t \in branches \/ row[t].st = "Done"
      BY <3>1 DEF OrderInv, Judged
    <3> QED BY <3>2 DEF Tidy, Agrees, Waiting
  <2>4. Knows(k, row, join) /\ (k.todo # <<>> => Head(k.todo) # "mark")
    <3>1. ASSUME NEW p, p = <<"rebase">> PROVE p # <<"store">> /\ Head(p) # "mark"
      BY <3>1
    <3> QED BY <2>2, <2>3, <3>1 DEF Knows
  <2> QED BY <1>1, <2>1, <2>2, <2>4, QuietBegins
<1> QED BY <1>2, <1>3 DEF BeginMerge

LEMMA UpdateBegun ==
    ASSUME Reviewing, OrderInv, Tidy, NEW c \in Caller, NEW t \in Task, NEW st \in Status,
           NEW deps \in {row[t].deps} \cup Edits, <<st, deps>> # <<row[t].st, row[t].deps>>,
           BeginUpdate(c, t, st, deps)
    PROVE  Stays
<1>0. /\ deps = row[t].deps /\ st # row[t].st /\ deps = join[t]
  BY DEF Reviewing, Tidy, Agrees
<1> DEFINE s == RefreshBlocked(st, deps, Done(row))
           w == WithAsked(row[t], s, deps)
           b == Call("update", t, <<"store">>)
           k == [b EXCEPT !.writes = [u \in {t} |-> w]]
<1>1. /\ Free(c, "update") /\ call' = [call EXCEPT ![c] = k]
      /\ UNCHANGED <<row, join, kind, link, running, branches, instance>>
      /\ <<row[t].st, st>> \in Moves
  BY <1>0 DEF BeginUpdate, rowVars, gitVars, WithAsked
<1>2. /\ k.op = "update" /\ k.task = t /\ k.todo = <<"store">> /\ k.seen = row[t]
      /\ k.writes = [u \in {t} |-> w]
  <2>1. t # None
    BY WorkflowAssumption
  <2> QED BY <2>1 DEF Call
<1> HIDE DEF k, b
<1>3. row[t].st = "Review" /\ st \in {"Done", "Failed"}
  <2>1. <<row[t].st, st>>[1] = "Review"
    BY <1>1 DEF Reviewing
  <2>2. <<row[t].st, st>> \in Transition
    BY <1>1, WorkflowAssumption DEF WorkflowAssumption
  <2>3. row[t].st = "Review"
    BY <2>1
  <2> QED BY <2>2, <2>3 DEF Transition
<1>4. s \in {"Done", "Failed"}
  BY <1>3 DEF RefreshBlocked, Transition
<1> HIDE DEF s
<1>5. w.st = s /\ w.deps = deps
  <2>1. IsRow(row[t]) /\ s # "none"
    BY <1>4 DEF OrderInv, Tables
  <2> QED BY <2>1, RowAsked
<1> HIDE DEF w
<1>6. ~Judging(t)
  BY <1>3 DEF OrderInv, Judged, Unreviewed
<1>7. Knows(k, row, join) /\ (k.todo # <<>> => Head(k.todo) # "mark")
  <2>1. ASSUME NEW p, p = <<"store">> PROVE Head(p) # "mark" /\ p \notin DecidedStages
    BY <2>1 DEF DecidedStages
  <2> QED BY <1>0, <1>2, <1>3, <1>4, <1>5, <2>1 DEF Knows, Waiting
<1> QED BY <1>1, <1>2, <1>6, <1>7, QuietBegins

LEMMA ApproveStays == ASSUME Tidy, NEW t \in Task, ApproveReview(t) PROVE Stays
<1>1. UNCHANGED <<row, join, kind, link, running, instance, call, branches>>
  BY DEF ApproveReview, rowVars, gitVars
<1> QED BY <1>1, NothingMoves

(* A step that stores one row: one that is not Blocked, of a task that has *)
(* all it depends on.                                                      *)
LEMMA OneRow ==
    ASSUME OrderInv, Agrees, NEW t \in Task, row[t] # NoRow, NEW r, IsRow(r), r.st \notin {"none", "Blocked"},
           Store(t, r), join' = join, r.deps = join[t], join[t] \subseteq Done(row),
           row[t].st = "Done" => r.st = "Done",
           row[t].st \notin Waiting \/ t \in (branches' \cup running') => r.st \notin Waiting,
           branches' \cup running' \subseteq branches \cup running \cup {t}
    PROVE  /\ Agrees' /\ Smooth(row, join, row', join')
           /\ row'[t] = r /\ \A u \in Task \ {t} : row'[u] = row[u]
<1>1. row'[t] = r /\ \A u \in Task \ {t} : row'[u] = row[u]
  BY Stored DEF OrderInv
<1>2. Done(row) \subseteq Done(row')
  BY <1>1 DEF Done
<1>3. Agrees'
  <2>1. ASSUME NEW u \in Task
        PROVE  /\ row'[u].deps = join'[u]
               /\ row'[u].st \notin {"none", "Blocked"} => join'[u] \subseteq Done(row')
               /\ u \in branches' \cup running' => row'[u].st \notin Waiting
    <3>1. CASE u = t
      BY <1>1, <1>2, <3>1
    <3>2. CASE u # t
      BY <1>1, <1>2, <3>2 DEF Agrees
    <3> QED BY <3>1, <3>2
  <2> QED BY <2>1 DEF Agrees, Done
<1>4. Smooth(row, join, row', join')
  <2>1. r # NoRow
    BY DEF NoRow
  <2> QED BY <1>1, <1>2, <2>1 DEF Smooth
<1> QED BY <1>1, <1>3, <1>4

LEMMA RowTidy ==
    ASSUME Tidy, NEW t \in Task, NEW r, row'[t] = r, \A u \in Task \ {t} : row'[u] = row[u],
           Agrees', Known', UNCHANGED <<join, kind, link, running>>, link \subseteq Task,
           \A u : Judging(u)' => Judging(u),
           \A d \in Caller : call'[d].op = "update" => call[d].op = "update" /\ call'[d].task = call[d].task,
           \A d \in Caller : call[d].op = "finish" => call'[d].op = "finish" /\ call'[d].task = call[d].task,
           \A d \in Caller : call'[d].todo # <<>> /\ Head(call'[d].todo) = "mark" => call'[d] = call[d],
           t \in running /\ (\A d \in Caller : ~(call[d].op = "finish" /\ Of(d) = t)) => r.st = "InProgress",
           r.st = "Looped" => \A u \in link : kind[u].step > kind[t].step => t \notin join[u]
    PROVE  Tidy'
<1> USE DEF Tidy
<1>1. Ruled'
  <2>1. ASSUME NEW d \in Caller, NEW u \in Task, call'[d].op = "update", call'[d].task = u
        PROVE  ~Judging(u)'
    BY <2>1 DEF Ruled, Of
  <2> QED BY <2>1 DEF Ruled, Of
<1>2. Working'
  <2>1. ASSUME NEW u \in Task, u \in running, \A d \in Caller : ~(call'[d].op = "finish" /\ call'[d].task = u)
        PROVE  row'[u].st = "InProgress"
    <3>1. \A d \in Caller : ~(call[d].op = "finish" /\ Of(d) = u)
      BY <2>1 DEF Of
    <3> QED BY <2>1, <3>1 DEF Working
  <2> QED BY <2>1 DEF Working, Of
<1>3. Parted'
  BY DEF Parted, Of
<1>4. NoneLooped'
  <2>1. ASSUME NEW u \in link, NEW d \in join[u], kind[d].step < kind[u].step, row'[d].st = "Looped"
        PROVE  FALSE
    <3>1. u \in Task /\ d \in Task
      BY <2>1 DEF Agrees
    <3>2. CASE d = t
      BY <2>1, <3>2
    <3>3. CASE d # t
      BY <2>1, <3>1, <3>3 DEF NoneLooped
    <3> QED BY <3>2, <3>3
  <2> QED BY <2>1 DEF NoneLooped
<1> QED BY <1>1, <1>2, <1>3, <1>4

LEMMA RowSettles ==
    ASSUME NEW t \in Task, NEW r, r.st # "Blocked", row'[t] = r, \A u \in Task \ {t} : row'[u] = row[u],
           UNCHANGED <<join, link, instance>>, link \subseteq Task,
           \A d \in Caller : Owes(call[d]) => Owes(call'[d]),
           t \in link /\ r.st \in Terminal /\ row[t].st \notin Terminal =>
               \E d \in Caller : Owes(call'[d]),
           \/ \E d \in Caller : call'[d].todo \in RefreshStages
           \/ /\ r.st = "Done" => row[t].st = "Done"
              /\ \A d \in Caller : \A u \in Task \ {t} : Frees(call[d], u) => Frees(call'[d], u)
    PROVE  (Owed => Owed') /\ (Unblocking => Unblocking')
<1>1. ASSUME Owed, instance = "Running", \A u \in link : row'[u].st \in Terminal
      PROVE  \E d \in Caller : Owes(call'[d])
  <2>1. CASE t \in link /\ row[t].st \notin Terminal
    BY <1>1, <2>1
  <2>2. CASE ~(t \in link /\ row[t].st \notin Terminal)
    <3>1. \A u \in link : row[u].st \in Terminal
      BY <1>1, <2>2
    <3>2. \E d \in Caller : Owes(call[d])
      BY <1>1, <3>1 DEF Owed, AllTerminal
    <3> QED BY <3>2
  <2> QED BY <2>1, <2>2
<1>2. Owed => Owed'
  BY <1>1 DEF Owed, Owes, AllTerminal
<1>3. ASSUME Unblocking, NEW u \in Task, row'[u].st = "Blocked", join[u] \subseteq Done(row')
      PROVE  \E d \in Caller : Frees(call'[d], u)
  <2>1. u # t /\ row[u].st = "Blocked"
    BY <1>3
  <2>2. CASE \E d \in Caller : call'[d].todo \in RefreshStages
    BY <2>2 DEF Frees
  <2>3. CASE /\ r.st = "Done" => row[t].st = "Done"
             /\ \A d \in Caller : \A v \in Task \ {t} : Frees(call[d], v) => Frees(call'[d], v)
    <3>1. Done(row') \subseteq Done(row)
      BY <2>3 DEF Done
    <3> QED BY <1>3, <2>1, <2>3, <3>1 DEF Unblocking
  <2> QED BY <2>2, <2>3
<1>4. Unblocking => Unblocking'
  BY <1>3 DEF Unblocking, Frees, Done
<1> QED BY <1>2, <1>4

(* A handler that stores one row and goes on.                              *)
LEMMA RowStored ==
    ASSUME OrderInv, Tidy, NEW c \in Caller, Onwards(c), NEW t \in Task, row[t] # NoRow, NEW r, IsRow(r),
           r.st \notin {"none", "Blocked"}, Store(t, r),
           UNCHANGED <<join, kind, link, running, branches, instance>>,
           r.deps = join[t], join[t] \subseteq Done(row), row[t].st = "Done" => r.st = "Done",
           row[t].st \notin Waiting => r.st \notin Waiting,
           t \in branches \cup running => r.st \notin Waiting,
           \/ Solo(call[c].op)
           \/ row[t].st # "Blocked",
           \A d \in Caller \ {c} : Pinned(call[d]) /\ Of(d) = t => r.st = row[t].st,
           Smooth(row, join, row', join') => Knows(call'[c], row', join'),
           call[c].op = "finish" =>
               call'[c].op = "finish" /\ (call[c].todo \in JudgedStages => call'[c].todo \in JudgedStages),
           call'[c].todo # <<>> => Head(call'[c].todo) # "mark",
           t \in running /\ (\A d \in Caller : ~(call[d].op = "finish" /\ Of(d) = t)) => r.st = "InProgress",
           r.st = "Looped" => \A u \in link : kind[u].step > kind[t].step => t \notin join[u],
           Owes(call[c]) => Owes(call'[c]),
           t \in link /\ r.st \in Terminal /\ row[t].st \notin Terminal => Owes(call'[c]),
           \/ call'[c].todo \in RefreshStages
           \/ /\ r.st = "Done" => row[t].st = "Done"
              /\ \A u \in Task \ {t} : Frees(call[c], u) => Frees(call'[c], u)
    PROVE  Stays
<1>0. OthersStay(c) /\ link \subseteq Task
  <2>1. Kinds
    BY DEF OrderInv, LoopInv
  <2> QED BY <2>1, MadeAreTasks DEF Onwards, Kinds
<1>1. /\ Agrees' /\ Smooth(row, join, row', join')
      /\ row'[t] = r /\ \A u \in Task \ {t} : row'[u] = row[u]
  BY OneRow DEF Tidy
<1>2. Known'
  <2>1. \/ Solo(call[c].op)
        \/ \A u \in Task : row[u].st = "Blocked" => row'[u].st = "Blocked"
    BY <1>1
  <2>2. \A d \in Caller \ {c} : Pinned(call[d]) => row'[Of(d)].st = row[Of(d)].st
    <3>1. ASSUME NEW d \in Caller \ {c}, Pinned(call[d]) PROVE row'[Of(d)].st = row[Of(d)].st
      <4>1. Of(d) \in Task
        BY <3>1 DEF OrderInv, Facts, Fact, Pinned, Of
      <4> QED BY <1>1, <3>1, <4>1
    <3> QED BY <3>1
  <2> QED BY <1>0, <1>1, <2>1, <2>2, OthersKnow DEF Tidy
<1>3. call[c].op = "finish" => call'[c].op = "finish" /\ call'[c].task = call[c].task
  BY IdleKnows DEF Onwards
<1>4. \A u : Judging(u)' => Judging(u)
  BY <1>0, <1>3, JudgingStays
<1>5. \A d \in Caller : call'[d].op = "update" => call[d].op = "update" /\ call'[d].task = call[d].task
  BY IdleKnows DEF Onwards, OthersStay
<1>6. \A d \in Caller : call[d].op = "finish" => call'[d].op = "finish" /\ call'[d].task = call[d].task
  BY <1>0, <1>3 DEF OthersStay
<1>7. \A d \in Caller : call'[d].todo # <<>> /\ Head(call'[d].todo) = "mark" => call'[d] = call[d]
  BY <1>0 DEF OthersStay
<1>8. Tidy'
  BY <1>0, <1>1, <1>2, <1>4, <1>5, <1>6, <1>7, RowTidy
<1>9. \A d \in Caller : Owes(call[d]) => Owes(call'[d])
  BY <1>0 DEF OthersStay
<1>10. \/ \E d \in Caller : call'[d].todo \in RefreshStages
       \/ /\ r.st = "Done" => row[t].st = "Done"
          /\ \A d \in Caller : \A u \in Task \ {t} : Frees(call[d], u) => Frees(call'[d], u)
  BY <1>0 DEF OthersStay
<1>11. (Owed => Owed') /\ (Unblocking => Unblocking')
  BY <1>0, <1>1, <1>9, <1>10, RowSettles
<1> QED BY <1>8, <1>11 DEF Stays

(* Two calls do not go by the status of one task.                          *)
LEMMA PinnedApart ==
    ASSUME OrderInv, Tidy, NEW c \in Caller, NEW d \in Caller \ {c}, Of(c) = Of(d), Pinned(call[d]),
           call[c].op = "update" \/ Pinned(call[c])
    PROVE  FALSE
<1>1. call[c].op \in {"finish", "update"} /\ call[d].op \in {"finish", "update"}
  BY DEF Pinned
<1>2. CASE call[c].op = call[d].op
  BY <1>1, <1>2 DEF OrderInv, Finishing, Alone, Solo
<1>3. ASSUME NEW a \in Caller, call[a].op = "finish", Pinned(call[a]) PROVE Judging(Of(a))
  <2>1. ASSUME NEW p \in {<<"verdict">>} \cup FailedStages PROVE p \notin JudgedStages
    BY <2>1 DEF JudgedStages, FailedStages
  <2>2. call[a].todo \in {<<"verdict">>} \cup FailedStages
    BY <1>3 DEF Pinned
  <2>3. call[a].todo \notin JudgedStages
    BY <2>1, <2>2
  <2> QED BY <1>3, <2>3, OwnTask DEF OrderInv
<1>4. Of(c) \in Task
  BY <1>1 DEF OrderInv, Facts, Fact, Of
<1>5. CASE call[c].op # call[d].op
  BY <1>1, <1>3, <1>4, <1>5 DEF Tidy, Ruled
<1> QED BY <1>2, <1>5

(* What a handler knows after its store, when nothing is written.          *)
LEMMA KnowsAfter ==
    ASSUME NEW n, NEW r, NEW j, n.op \in {"finish", "merge", "update"}, r[n.task].st \notin Waiting,
           n.seen.deps = j[n.task], n.todo # <<"store">>, DOMAIN n.writes = {},
           n.op = "finish" => n.todo # <<"verdict">> /\ (n.todo \in FailedStages => r[n.task].st = "Failed"),
           n.op = "update" /\ n.todo \in DecidedStages =>
               r[n.task].st = n.seen.st /\ n.seen.st \in {"Done", "Failed"}
    PROVE  Knows(n, r, j)
BY DEF Knows

(* The stages of the calls that store a row.                               *)
LEMMA MarkStays == ASSUME OrderInv, Tidy, NEW c \in Caller, MarkLooped(c) PROVE Stays
<1> DEFINE t == Of(c)
           r == WithStatus(call[c].seen, "Looped")
<1>0. /\ Shaped /\ Fact(call[c], row, join) /\ Stage(c, "mark") /\ Store(t, r)
      /\ UNCHANGED <<join, kind, link, running, branches, instance>>
      /\ Continue(c, AfterLoop(c) \o Tail(call[c].todo)) /\ Knows(call[c], row, join)
  BY DEF OrderInv, LoopInv, CallsInv, Facts, MarkLooped, gitVars, WithStatus, Tidy, Known
<1>1. \/ call[c].op = "update" /\ call[c].todo = <<"mark">>
      \/ call[c].op = "finish" /\ call[c].todo = <<"mark", "cleanup", "end">>
  BY <1>0, Remaining DEF Stage, Fact
<1>2. /\ call[c].op = "update" => call[c].todo \in DecidedStages
      /\ call[c].op = "finish" => call[c].todo \in FailedStages
      /\ call[c].todo \notin OwingStages \cup RefreshStages \cup ApplyStages
      /\ call[c].todo \in {<<"iterate">>, <<"mark">>} \cup FailedStages
      /\ call[c].todo # <<"store">> /\ (call[c].op = "finish" => call[c].todo \notin JudgedStages)
      /\ call[c].todo # <<>> /\ Head(call[c].todo) = "mark" /\ call[c].next = None
      /\ DOMAIN call[c].writes = {}
  <2>1. ASSUME NEW p, p = <<"mark">>
        PROVE  /\ p \in DecidedStages /\ p \notin OwingStages \cup RefreshStages \cup ApplyStages
               /\ p \in {<<"iterate">>, <<"mark">>} \cup FailedStages /\ p # <<"store">>
    BY <2>1 DEF DecidedStages, OwingStages, RefreshStages, ApplyStages
  <2>2. ASSUME NEW p, p = <<"mark", "cleanup", "end">>
        PROVE  /\ p \in FailedStages /\ p \notin OwingStages \cup RefreshStages \cup ApplyStages
               /\ p \notin JudgedStages /\ p # <<"store">>
    BY <2>2 DEF FailedStages, OwingStages, RefreshStages, ApplyStages, JudgedStages
  <2> QED BY <1>0, <1>1, <2>1, <2>2 DEF Stage, Fact
<1>3. Pinned(call[c]) /\ t \in Task /\ row[t].st = "Failed" /\ call[c].seen.deps = join[t]
  <2>1. call[c].seen.st = "Failed" /\ t \in Task
    BY <1>0, <1>1, <1>2 DEF Fact, Gate, Of
  <2> QED BY <1>0, <1>1, <1>2, <2>1 DEF Knows, Pinned, Of
<1>4. row[t] # NoRow /\ join[t] \subseteq Done(row)
  BY <1>3, StartedIs DEF Tidy, Waiting
<1>5. IsRow(r) /\ r.st = "Looped" /\ r.deps = join[t]
  BY <1>0, <1>3, RowStatus DEF Fact
<1>6. t \in running /\ (\A d \in Caller : ~(call[d].op = "finish" /\ Of(d) = t)) => r.st = "InProgress"
  BY <1>3 DEF Tidy, Working
<1>7. \A u \in link : kind[u].step > kind[t].step => t \notin join[u]
  BY <1>2 DEF Tidy, Parted
<1>8. \A d \in Caller \ {c} : ~(Pinned(call[d]) /\ Of(d) = t)
  BY <1>3, PinnedApart
<1> HIDE DEF r
<1>9. PICK p : p = AfterLoop(c) \o Tail(call[c].todo)
  OBVIOUS
<1>10. /\ p # <<>> /\ Head(p) # "mark" /\ p # <<"store">>
       /\ call[c].op = "finish" => p # <<"verdict">> /\ p \notin FailedStages
       /\ call[c].op = "update" => p \notin DecidedStages
  <2>1. \/ call[c].op = "update" /\ p = <<"refresh">>
        \/ call[c].op = "finish" /\ p = <<"cleanup", "end">>
    BY <1>1, <1>9, Pieces DEF AfterLoop
  <2> QED BY <2>1 DEF FailedStages, DecidedStages
<1>11. OthersStay(c) /\ call'[c].todo = p /\ Same(call[c], call'[c])
  BY <1>0, <1>9, <1>10, Going
<1>12. Onwards(c)
  BY <1>11 DEF Onwards, Same
<1>13. row'[t] = r
  BY <1>0, <1>3, <1>4, <1>5, Stored DEF OrderInv
<1>14. Knows(call'[c], row', join')
  <2>1. /\ call'[c].op \in {"finish", "update"} /\ call'[c].op = call[c].op /\ call'[c].task = t
        /\ call'[c].seen.deps = join'[t] /\ DOMAIN call'[c].writes = {} /\ call'[c].todo = p
    BY <1>0, <1>1, <1>2, <1>3, <1>11 DEF Same, Of
  <2>2. row'[t].st \notin Waiting
    BY <1>5, <1>13 DEF Waiting
  <2> HIDE DEF t
  <2>3. PICK n, r2, j2 : n = call'[c] /\ r2 = row' /\ j2 = join'
    OBVIOUS
  <2>4. Knows(n, r2, j2)
    BY <1>10, <2>1, <2>2, <2>3 DEF Knows
  <2> QED BY <2>3, <2>4
<1>15. call[c].op = "finish" =>
           call'[c].op = "finish" /\ (call[c].todo \in JudgedStages => call'[c].todo \in JudgedStages)
  BY <1>2, <1>11 DEF Same
<1>16. ~Owes(call[c]) /\ \A u : ~Frees(call[c], u)
  BY <1>2 DEF Owes, Frees
<1> HIDE DEF t
<1> QED BY <1>0, <1>3, <1>4, <1>5, <1>6, <1>7, <1>8, <1>10, <1>11, <1>12, <1>14, <1>15, <1>16, RowStored
        DEF Waiting, Terminal

LEMMA DoneStays == ASSUME OrderInv, Tidy, NEW c \in Caller, StoreDone(c) PROVE Stays
<1> DEFINE t == Of(c)
           r == WithStatus(call[c].seen, "Done")
           q == <<"prune", "refresh", "complete", "merged">>
<1>0. /\ Shaped /\ Fact(call[c], row, join) /\ Stage(c, "landed") /\ Store(t, r)
      /\ UNCHANGED <<join, kind, link, running, branches, instance>>
      /\ Continue(c, q) /\ Knows(call[c], row, join)
  BY DEF OrderInv, LoopInv, CallsInv, Facts, StoreDone, gitVars, WithStatus, Tidy, Known
<1>1. call[c].op = "merge" /\ call[c].todo = <<"landed">> /\ t \in Task
  BY <1>0, Remaining DEF Stage, Fact, Of
<1>2. /\ call[c].todo \notin OwingStages \cup RefreshStages \cup ApplyStages
      /\ call[c].todo # <<>> /\ DOMAIN call[c].writes = {}
  <2>1. ASSUME NEW p, p = <<"landed">>
        PROVE  p \notin OwingStages \cup RefreshStages \cup ApplyStages /\ p # <<"store">>
    BY <2>1 DEF OwingStages, RefreshStages, ApplyStages
  <2> QED BY <1>0, <1>1, <2>1 DEF Fact, Stage
<1>3. row[t].st \notin Waiting /\ call[c].seen.deps = join[t]
  BY <1>0, <1>1 DEF Knows, Of
<1>4. row[t] # NoRow /\ join[t] \subseteq Done(row)
  BY <1>1, <1>3, StartedIs DEF Tidy
<1>5. IsRow(r) /\ r.st = "Done" /\ r.deps = join[t]
  BY <1>0, <1>3, RowStatus DEF Fact
<1>6. ~Judging(t)
  BY <1>1 DEF OrderInv, Judged, Unreviewed, Untold, Of
<1>7. t \in running => \E d \in Caller : call[d].op = "finish" /\ Of(d) = t
  BY <1>6 DEF Judging
<1>8. ASSUME NEW d \in Caller \ {c}, Pinned(call[d]), Of(d) = t PROVE FALSE
  <2>1. call[d].op # "update"
    BY <1>1, <1>8 DEF OrderInv, Alone, Solo
  <2>2. call[d].op = "finish" /\ call[d].todo \in {<<"verdict">>} \cup FailedStages
    BY <1>8, <2>1 DEF Pinned
  <2>3. ASSUME NEW p \in {<<"verdict">>} \cup FailedStages PROVE p \notin JudgedStages
    BY <2>3 DEF JudgedStages, FailedStages
  <2>4. Judging(Of(d))
    <3>1. call[d].todo \notin JudgedStages
      BY <2>2, <2>3
    <3> QED BY <2>2, <3>1, OwnTask DEF OrderInv
  <2> QED BY <1>6, <1>8, <2>4
<1> HIDE DEF r
<1>9. PICK p : p = q
  OBVIOUS
<1>10. /\ p # <<>> /\ Head(p) # "mark" /\ p # <<"store">> /\ p \in OwingStages /\ p \in RefreshStages
  BY <1>9 DEF OwingStages, RefreshStages
<1>11. OthersStay(c) /\ call'[c].todo = p /\ Same(call[c], call'[c])
  BY <1>0, <1>9, <1>10, Going
<1>12. Onwards(c)
  BY <1>11 DEF Onwards, Same
<1>13. row'[t] = r
  BY <1>0, <1>1, <1>4, <1>5, Stored DEF OrderInv
<1>14. Knows(call'[c], row', join')
  BY <1>0, <1>1, <1>2, <1>3, <1>5, <1>10, <1>11, <1>13, KnowsAfter DEF Same, Waiting, Of
<1>15. ~Owes(call[c])
  BY <1>2 DEF Owes
<1>16. t \in link => Owes(call'[c])
  BY <1>10, <1>11 DEF Owes, Same, Of
<1> HIDE DEF t
<1> QED BY <1>0, <1>1, <1>3, <1>4, <1>5, <1>7, <1>8, <1>10, <1>11, <1>12, <1>14, <1>15, <1>16, RowStored
        DEF Waiting, Solo

LEMMA VerdictStays == ASSUME OrderInv, Tidy, NEW c \in Caller, WriteVerdict(c) PROVE Stays
<1>t. PICK t : t = Of(c)
  OBVIOUS
<1>0. /\ Shaped /\ Fact(call[c], row, join) /\ Stage(c, "verdict") /\ Knows(call[c], row, join)
      /\ UNCHANGED <<join, kind, link, running, branches, instance>>
  BY DEF OrderInv, LoopInv, CallsInv, Facts, WriteVerdict, gitVars, Tidy, Known
<1>1. call[c].op = "finish" /\ call[c].todo = <<"verdict">> /\ t \in Task
  BY <1>0, <1>t, Remaining DEF Stage, Fact, Of
<1>2. /\ call[c].todo \notin OwingStages \cup RefreshStages \cup ApplyStages \cup JudgedStages
      /\ DOMAIN call[c].writes = {} /\ Pinned(call[c])
  <2>1. ASSUME NEW p, p = <<"verdict">>
        PROVE  /\ p \notin OwingStages \cup RefreshStages \cup ApplyStages \cup JudgedStages
               /\ p # <<"store">> /\ p # <<>> /\ Head(p) # "apply"
    BY <2>1 DEF OwingStages, RefreshStages, ApplyStages, JudgedStages
  <2> QED BY <1>0, <1>1, <2>1 DEF Fact, Pinned
<1>3. row[t].st = "InProgress" /\ call[c].seen.deps = join[t]
  BY <1>0, <1>1, <1>t DEF Knows, Of
<1>4. row[t] # NoRow /\ join[t] \subseteq Done(row)
  BY <1>1, <1>3, StartedIs DEF Tidy, Waiting
<1>5. PICK v \in Outcomes(t), b \in BOOLEAN :
          LET new == [call[c].seen EXCEPT !.st = v, !.complete = b]
          IN  /\ Store(t, new)
              /\ call' = [call EXCEPT ![c].seen = new, ![c].todo = FinishStages(v)]
  BY <1>t DEF WriteVerdict
<1> DEFINE r == WithVerdict(call[c].seen, v, b)
           k == [call[c] EXCEPT !.seen = r, !.todo = FinishStages(v)]
<1>6. v \in {"Failed", "Review", "InProgress"}
  BY <1>1 DEF Outcomes, OrderInv, Unpromised
<1>7. IsRow(r) /\ r.st = v /\ r.deps = join[t]
  <2>1. IsRow(call[c].seen) /\ v # "none"
    BY <1>0, <1>6 DEF Fact
  <2>2. IsRow(r) /\ r.st = v
    BY <2>1, RowVerdict
  <2>3. r.deps = call[c].seen.deps
    BY <2>1 DEF WithVerdict, IsRow
  <2> QED BY <1>3, <2>2, <2>3
<1>8. Store(t, r) /\ call' = [call EXCEPT ![c] = k]
  BY <1>0, <1>5 DEF WithVerdict, Shaped
<1>9. /\ k.seen = r /\ k.todo = FinishStages(v) /\ k.op = "finish" /\ k.task = t
      /\ k.writes = call[c].writes
  <2>1. DOMAIN call[c] = Fields
    BY <1>0, IsFields DEF Shaped
  <2> QED BY <1>1, <1>t, <2>1 DEF Fields, Of
<1> HIDE DEF r, k
<1>10. call'[c] = k /\ OthersStay(c)
  BY <1>0, <1>8, Becoming
<1>11. PICK p : p = FinishStages(v)
  OBVIOUS
<1>12. /\ p # <<>> /\ Head(p) # "mark" /\ p # <<"store">> /\ p # <<"verdict">>
       /\ p \in FailedStages => v = "Failed"
       /\ v = "Failed" => p \in OwingStages
  <2>1. p = IF v = "Failed" THEN <<"loop", "cleanup", "end">> ELSE <<"end">>
    BY <1>6, <1>11 DEF FinishStages
  <2> QED BY <2>1 DEF FailedStages, OwingStages
<1>13. Onwards(c)
  BY <1>1, <1>9, <1>10, <1>t DEF Onwards, Of
<1>14. row'[t] = r
  BY <1>1, <1>4, <1>6, <1>7, <1>8, Stored DEF OrderInv
<1>15. Knows(call'[c], row', join')
  <2>1. /\ call'[c].op = "finish" /\ call'[c].task = t
        /\ call'[c].seen.deps = join'[t] /\ DOMAIN call'[c].writes = {} /\ call'[c].todo = p
    BY <1>0, <1>2, <1>7, <1>9, <1>10, <1>11
  <2>2. row'[t].st \notin Waiting /\ row'[t].st = v
    BY <1>6, <1>7, <1>14 DEF Waiting
  <2>3. PICK n, r2, j2 : n = call'[c] /\ r2 = row' /\ j2 = join'
    OBVIOUS
  <2>4. Knows(n, r2, j2)
    BY <1>12, <2>1, <2>2, <2>3 DEF Knows
  <2> QED BY <2>3, <2>4
<1>16. \A d \in Caller \ {c} : ~(Pinned(call[d]) /\ Of(d) = t)
  BY <1>2, <1>t, PinnedApart
<1>17. ~Owes(call[c]) /\ \A u : ~Frees(call[c], u)
  BY <1>2 DEF Owes, Frees
<1>18. t \in link /\ v \in Terminal => Owes(call'[c])
  BY <1>6, <1>9, <1>10, <1>11, <1>12 DEF Owes, Terminal
<1>19. t \in running => \E d \in Caller : call[d].op = "finish" /\ Of(d) = t
  BY <1>1, <1>t
<1> QED BY <1>0, <1>1, <1>2, <1>3, <1>4, <1>6, <1>7, <1>8, <1>9, <1>10, <1>11, <1>12, <1>13, <1>15, <1>16,
           <1>17, <1>18, <1>19, RowStored DEF Waiting

LEMMA UpdateStays == ASSUME OrderInv, Tidy, NEW c \in Caller, StoreUpdate(c) PROVE Stays
<1>t. PICK t : t = Of(c)
  OBVIOUS
<1>0. /\ Shaped /\ Fact(call[c], row, join) /\ Stage(c, "store") /\ Knows(call[c], row, join) /\ Tables
      /\ UNCHANGED <<kind, link, running, branches, instance>>
  BY DEF OrderInv, LoopInv, CallsInv, Facts, StoreUpdate, gitVars, Tidy, Known
<1>1. call[c].op = "update" /\ call[c].todo = <<"store">> /\ call[c].task = t /\ t \in Task
  BY <1>0, <1>t, Remaining DEF Stage, Fact, Of
<1>2. call[c].todo \notin OwingStages \cup RefreshStages \cup ApplyStages
  <2>1. ASSUME NEW p, p = <<"store">> PROVE p \notin OwingStages \cup RefreshStages \cup ApplyStages
    BY <2>1 DEF OwingStages, RefreshStages, ApplyStages
  <2> QED BY <1>1, <2>1
<1> DEFINE w == call[c].writes[t]
           q == <<"refresh", "cleanup", "loop">>
<1>3. /\ call[c].seen.st = "Review" /\ w.st \in {"Done", "Failed"} /\ w.deps = join[t] /\ IsRow(w)
  <2>1. call[c].seen.st = "Review" /\ w.st \in {"Done", "Failed"} /\ w.deps = join[t]
    BY <1>0, <1>1 DEF Knows
  <2>2. IsRow(w)
    BY <1>0, <1>1 DEF Fact, Updating, Held
  <2> QED BY <2>1, <2>2
<1>4. row[t] # NoRow /\ join[t] \subseteq Done(row) /\ row[t].st \notin Waiting
  <2>1. row[t].st \notin Waiting
    BY <1>0, <1>1 DEF Knows
  <2> QED BY <1>1, <2>1, StartedIs DEF Tidy
<1>5. \/ Return(c) /\ UNCHANGED <<row, join>>
      \/ /\ row[t].st = "Review" /\ Store(t, w) /\ join' = [join EXCEPT ![t] = w.deps]
         /\ call' = [call EXCEPT ![c].seen = w, ![c].writes = <<>>, ![c].todo = q]
  BY <1>3, <1>4, <1>t DEF StoreUpdate, Exists, Terminal
<1>6. CASE Return(c) /\ UNCHANGED <<row, join>>
  BY <1>0, <1>1, <1>2, <1>6, QuietReturns
<1>7. CASE /\ row[t].st = "Review" /\ Store(t, w) /\ join' = [join EXCEPT ![t] = w.deps]
           /\ call' = [call EXCEPT ![c].seen = w, ![c].writes = <<>>, ![c].todo = q]
  <2>p. PICK p : p = q
    OBVIOUS
  <2> DEFINE k == [call[c] EXCEPT !.seen = w, !.writes = <<>>, !.todo = p]
  <2>1. k.seen = w /\ DOMAIN k.writes = {} /\ k.todo = p /\ k.op = "update" /\ k.task = t
    <3>1. DOMAIN call[c] = Fields /\ DOMAIN <<>> = {}
      BY <1>0, IsFields DEF Shaped
    <3> QED BY <1>1, <3>1 DEF Fields
  <2>2. call' = [call EXCEPT ![c] = k]
    BY <1>0, <1>7, <2>p DEF Shaped
  <2>3. join' = join
    BY <1>0, <1>3, <1>7 DEF Tables
  <2> HIDE DEF k, w
  <2>4. call'[c] = k /\ OthersStay(c)
    BY <1>0, <2>2, Becoming
  <2>5. p # <<>> /\ Head(p) # "mark" /\ p # <<"store">> /\ p \in OwingStages /\ p \in RefreshStages
    BY <2>p DEF OwingStages, RefreshStages
  <2>6. Onwards(c)
    BY <1>1, <2>1, <2>4 DEF Onwards
  <2>7. row'[t] = w
    BY <1>0, <1>1, <1>3, <1>4, <1>7, Stored
  <2>8. Knows(call'[c], row', join')
    <3>1. PICK r2, j2 : r2 = row' /\ j2 = join'
      OBVIOUS
    <3>2. r2[t].st = w.st /\ k.seen.st = w.st /\ k.seen.deps = j2[t] /\ w.st \notin Waiting
      BY <1>3, <2>1, <2>3, <2>7, <3>1 DEF Waiting
    <3>3. Knows(k, r2, j2)
      BY <1>3, <2>1, <2>5, <3>2 DEF Knows
    <3> QED BY <2>4, <3>1, <3>3
  <2>9. \A d \in Caller \ {c} : ~(Pinned(call[d]) /\ Of(d) = t)
    BY <1>1, <1>t, PinnedApart
  <2>10. ~Owes(call[c])
    BY <1>2 DEF Owes
  <2>11. t \in link => Owes(call'[c])
    BY <2>1, <2>4, <2>5 DEF Owes
  <2>12. t \in running /\ (\A d \in Caller : ~(call[d].op = "finish" /\ Of(d) = t)) => w.st = "InProgress"
    BY <1>1, <1>7 DEF Tidy, Working
  <2> QED BY <1>0, <1>1, <1>3, <1>4, <1>7, <2>1, <2>3, <2>4, <2>5, <2>6, <2>8, <2>9, <2>10, <2>11, <2>12,
             RowStored DEF Waiting, Solo
<1> QED BY <1>5, <1>6, <1>7

LEMMA ApplyStays == ASSUME OrderInv, Tidy, NEW c \in Caller, Apply(c) PROVE Stays
<1>0. /\ Shaped /\ Fact(call[c], row, join) /\ Stage(c, "apply") /\ Knows(call[c], row, join)
      /\ UNCHANGED <<join, kind, link, running, branches, instance>>
  BY DEF OrderInv, LoopInv, CallsInv, Facts, Apply, gitVars, Tidy, Known
<1>1. \/ call[c].op = "merge" /\ call[c].todo = <<"apply", "complete", "merged">>
      \/ call[c].op = "update" /\ call[c].todo = <<"apply", "cleanup", "loop">>
      \/ call[c].op \in {"update", "create", "delete"} /\ call[c].todo = <<"apply">>
  BY <1>0, Remaining DEF Stage, Fact
<1>2. PICK t \in DOMAIN call[c].writes : /\ Store(t, call[c].writes[t])
                                         /\ call' = [call EXCEPT ![c] = Goes(Applied(call[c], t))]
  BY <1>0 DEF Apply, Shaped
<1> DEFINE r == call[c].writes[t]
           n == Applied(call[c], t)
           rest == DOMAIN call[c].writes \ {t}
<1>3. call[c].todo # <<"store">> /\ call[c].op # "finish"
  <2>1. ASSUME NEW p, Head(p) = "apply" PROVE p # <<"store">>
    BY <2>1
  <2> QED BY <1>0, <1>1, <2>1 DEF Stage
<1>4. \A u \in DOMAIN call[c].writes :
          /\ u \in Task /\ row[u].st = "Blocked" /\ call[c].writes[u].st = "Ready"
          /\ call[c].writes[u].deps = join[u] /\ join[u] \subseteq Done(row)
  BY <1>0, <1>3 DEF Fact, Held, Knows
<1>5. /\ t \in Task /\ IsRow(r) /\ row[t].st = "Blocked" /\ row[t] # NoRow /\ r.st = "Ready"
      /\ r.deps = join[t] /\ join[t] \subseteq Done(row)
  BY <1>0, <1>2, <1>4 DEF Fact, Held
<1>6. /\ n.op = call[c].op /\ n.task = call[c].task /\ n.seen = call[c].seen
      /\ n.writes = [u \in rest |-> call[c].writes[u]]
      /\ n.todo = IF rest = {} THEN Tail(call[c].todo) ELSE call[c].todo
  <2>1. DOMAIN call[c] = Fields
    BY <1>0, IsFields DEF Shaped
  <2> QED BY <2>1 DEF Fields, Applied
<1>7. OthersStay(c) /\ call'[c] = Goes(n) /\ Store(t, r)
  BY <1>0, <1>2, Becoming
<1>8. DOMAIN n.writes = rest /\ \A u \in rest : n.writes[u] = call[c].writes[u]
  BY <1>6
<1>r. \A u : u \in rest <=> u \in DOMAIN call[c].writes /\ u # t
  OBVIOUS
<1> HIDE DEF r, n, rest
<1>9. /\ n.todo # <<"store">> /\ (n.todo # <<>> => Head(n.todo) # "mark")
      /\ n.op = "update" /\ n.todo \in DecidedStages => call[c].todo \in DecidedStages
      /\ call[c].todo \in OwingStages => n.todo # <<>> /\ n.todo \in OwingStages
      /\ call[c].todo \notin RefreshStages /\ call[c].todo # <<>>
  <2>1. CASE call[c].op = "merge" /\ call[c].todo = <<"apply", "complete", "merged">>
    <3>1. n.todo \in {<<"apply", "complete", "merged">>, <<"complete", "merged">>} /\ n.op # "update"
      BY <1>6, <2>1, Pieces
    <3> QED BY <2>1, <3>1 DEF OwingStages, RefreshStages
  <2>2. CASE call[c].op = "update" /\ call[c].todo = <<"apply", "cleanup", "loop">>
    <3>1. n.todo \in {<<"apply", "cleanup", "loop">>, <<"cleanup", "loop">>}
      BY <1>6, <2>2, Pieces
    <3> QED BY <2>2, <3>1 DEF OwingStages, RefreshStages, DecidedStages
  <2>3. CASE call[c].todo = <<"apply">>
    <3>1. n.todo \in {<<"apply">>, <<>>}
      BY <1>6, <2>3, Pieces
    <3> QED BY <2>3, <3>1 DEF OwingStages, RefreshStages, DecidedStages
  <2> QED BY <1>1, <2>1, <2>2, <2>3
<1>10. row'[t] = r /\ \A u \in Task \ {t} : row'[u] = row[u]
  BY <1>5, <1>7, Stored DEF OrderInv
<1>11. ASSUME Smooth(row, join, row', join') PROVE Knows(call'[c], row', join')
  <2>1. n.op \in {"merge", "update"} =>
            /\ n.task \in Task /\ row[n.task].st \notin Waiting /\ row'[n.task] = row[n.task]
            /\ row'[n.task].st \notin Waiting /\ n.seen.deps = join'[n.task]
    <3>1. n.op \in {"merge", "update"} =>
             n.task \in Task /\ row[n.task].st \notin Waiting /\ n.seen.deps = join[n.task]
      BY <1>0, <1>6 DEF Fact, Knows
    <3>2. row[t].st \in Waiting
      BY <1>5 DEF Waiting
    <3> QED BY <1>0, <1>10, <3>1, <3>2
  <2>2. n.op = "delete" => row'[n.task] # NoRow
    BY <1>0, <1>6, <1>11 DEF Smooth, Knows, Fact
  <2>3. ASSUME NEW u \in rest
        PROVE  /\ row'[u].st = "Blocked" /\ n.writes[u].st = "Ready"
               /\ n.writes[u].deps = join'[u] /\ join'[u] \subseteq Done(row')
    BY <1>0, <1>4, <1>8, <1>10, <1>11, <1>r DEF Smooth
  <2>4. n.op = "update" /\ n.todo \in DecidedStages =>
            row'[n.task].st = n.seen.st /\ n.seen.st \in {"Done", "Failed"}
    BY <1>0, <1>6, <1>9, <2>1 DEF Knows
  <2>5. Knows(n, row', join')
    BY <1>3, <1>6, <1>8, <1>9, <2>1, <2>2, <2>3, <2>4 DEF Knows
  <2> QED BY <1>7, <2>5, IdleKnows DEF Goes
<1>12. Onwards(c)
  BY <1>6, <1>7 DEF Onwards, Goes
<1>13. Owes(call[c]) => Owes(call'[c])
  BY <1>6, <1>7, <1>9 DEF Owes, Goes
<1>14. ASSUME NEW u \in Task \ {t}, Frees(call[c], u) PROVE Frees(call'[c], u)
  <2>1. call[c].todo \in ApplyStages /\ u \in rest
    BY <1>9, <1>14, <1>r DEF Frees
  <2>2. n.todo = call[c].todo /\ call'[c] = n
    BY <1>6, <1>7, <1>9, <2>1 DEF Goes
  <2> QED BY <1>8, <2>1, <2>2 DEF Frees
<1>15. call'[c].todo # <<>> => Head(call'[c].todo) # "mark"
  BY <1>7, <1>9, IdleKnows DEF Goes
<1>16. Solo(call[c].op)
  BY <1>1 DEF Solo
<1>17. t \notin branches \cup running
  BY <1>5 DEF Tidy, Agrees, Waiting
<1>18. \A d \in Caller \ {c} : ~(Pinned(call[d]) /\ Of(d) = t)
  <2>1. ASSUME NEW d \in Caller, Pinned(call[d]) PROVE row[Of(d)].st \notin Waiting
    BY <2>1 DEF Tidy, Known, Knows, Pinned, Of
  <2> QED BY <1>5, <2>1 DEF Waiting
<1> QED BY <1>0, <1>3, <1>5, <1>7, <1>10, <1>11, <1>12, <1>13, <1>14, <1>15, <1>16, <1>17, <1>18, RowStored
        DEF Waiting, Terminal

(* A call that a dispatch goes on from, or does not touch.                 *)
Slips(k, n) ==
    \/ n = Idle /\ k.todo = <<>> /\ k.op # "finish"
    \/ n.op = k.op /\ n.task = k.task /\ n.seen = k.seen /\ n.todo = k.todo /\ n.writes = k.writes

LEMMA SlipIs ==
    ASSUME NEW k, NEW n, Slips(k, n)
    PROVE  /\ \A r, j : Knows(k, r, j) => Knows(n, r, j)
           /\ Owes(k) => Owes(n)
           /\ \A t : Frees(k, t) => Frees(n, t)
           /\ n.op = "update" => k.op = "update" /\ n.task = k.task
           /\ k.op = "finish" => n.op = "finish" /\ n.task = k.task /\ n.todo = k.todo
           /\ n.todo # <<>> => n.todo = k.todo /\ n.task = k.task
<1>1. CASE n = Idle /\ k.todo = <<>> /\ k.op # "finish"
  <2>1. ~Owes(k) /\ \A t : ~Frees(k, t)
    BY <1>1 DEF Owes, Frees, OwingStages, RefreshStages, ApplyStages
  <2> QED BY <1>1, <2>1, IdleKnows
<1>2. CASE n.op = k.op /\ n.task = k.task /\ n.seen = k.seen /\ n.todo = k.todo /\ n.writes = k.writes
  BY <1>2 DEF Knows, Owes, Frees
<1> QED BY <1>1, <1>2 DEF Slips

LEMMA StartStays ==
    ASSUME OrderInv, Tidy, NEW t \in Task, Dispatchable(t), Start(t),
           \A d \in Caller : Slips(call[d], call'[d])
    PROVE  Stays
<1> DEFINE r == WithStatus(row[t], "InProgress")
<1>0. /\ row[t].st = "Ready" /\ t \notin running \cup branches /\ row[t] # NoRow /\ IsRow(row[t]) /\ Tables
      /\ row[t].deps = join[t] /\ join[t] \subseteq Done(row) /\ link \subseteq Task
  <2>1. row[t].st = "Ready" /\ row[t] # NoRow /\ t \notin running \cup branches
    BY DEF Dispatchable, Is, NoRow
  <2>2. link \subseteq Task
    BY MadeAreTasks DEF OrderInv, LoopInv, Kinds
  <2> QED BY <2>1, <2>2 DEF OrderInv, Tables, Tidy, Agrees
<1>1. /\ row' = [row EXCEPT ![t] = r] /\ UNCHANGED <<join, kind, link, instance>>
      /\ running' = running \cup {t} /\ branches' = branches \cup {t}
  BY DEF Start, WithStatus
<1>2. IsRow(r) /\ r.st = "InProgress" /\ r.deps = join[t]
  BY <1>0, RowStatus
<1> HIDE DEF r
<1>3. Store(t, r)
  BY <1>0, <1>1 DEF Store, Exists
<1>4. /\ Agrees' /\ Smooth(row, join, row', join')
      /\ row'[t] = r /\ \A u \in Task \ {t} : row'[u] = row[u]
  BY <1>0, <1>1, <1>2, <1>3, OneRow DEF Tidy, Waiting
<1>5. \A d \in Caller : Pinned(call[d]) \/ call[d].op = "update" => Of(d) \in Task \ {t}
  <2>1. ASSUME NEW d \in Caller, call[d].op \in {"finish", "update"} PROVE Of(d) \in Task \ {t}
    <3>1. Fact(call[d], row, join) /\ Knows(call[d], row, join)
      BY DEF OrderInv, Facts, Tidy, Known
    <3>2. Of(d) \in Task /\ row[Of(d)].st \notin Waiting
      BY <2>1, <3>1 DEF Fact, Knows, Of
    <3> QED BY <1>0, <3>2 DEF Waiting
  <2> QED BY <2>1 DEF Pinned
<1>6. Known'
  <2>1. ASSUME NEW d \in Caller PROVE Knows(call'[d], row', join')
    <3>1. Fact(call[d], row, join) /\ Knows(call[d], row, join)
      BY DEF OrderInv, Facts, Tidy, Known
    <3>2. \A u \in Task : row[u].st = "Blocked" => row'[u].st = "Blocked"
      BY <1>0, <1>4
    <3>3. Pinned(call[d]) => row'[call[d].task].st = row[call[d].task].st
      BY <1>4, <1>5 DEF Of
    <3>4. Knows(call[d], row', join')
      BY <1>4, <3>1, <3>2, <3>3, KnowsStays DEF Tidy
    <3> QED BY <3>4, SlipIs
  <2> QED BY <2>1 DEF Known
<1>7. Ruled'
  <2>1. ASSUME NEW d \in Caller, NEW u \in Task, call'[d].op = "update", call'[d].task = u
        PROVE  ~Judging(u)'
    <3>1. call[d].op = "update" /\ call[d].task = u
      BY <2>1, SlipIs
    <3>2. u # t /\ ~Judging(u)
      BY <1>5, <3>1 DEF Tidy, Ruled, Of
    <3>3. \A e \in Caller : call[e].op = "finish" =>
              call'[e].op = "finish" /\ call'[e].task = call[e].task /\ call'[e].todo = call[e].todo
      BY SlipIs
    <3> QED BY <1>1, <3>2, <3>3 DEF Judging, Of
  <2> QED BY <2>1 DEF Ruled, Of
<1>8. Working'
  <2>1. ASSUME NEW u \in Task, u \in running', \A d \in Caller : ~(call'[d].op = "finish" /\ call'[d].task = u)
        PROVE  row'[u].st = "InProgress"
    <3>1. CASE u = t
      BY <1>2, <1>4, <3>1
    <3>2. CASE u # t
      <4>1. \A d \in Caller : ~(call[d].op = "finish" /\ Of(d) = u)
        BY <2>1, SlipIs DEF Of
      <4> QED BY <1>1, <1>4, <2>1, <3>2, <4>1 DEF Tidy, Working
    <3> QED BY <3>1, <3>2
  <2> QED BY <2>1 DEF Working, Of
<1>9. Parted'
  <2>1. ASSUME NEW d \in Caller, call'[d].todo # <<>>
        PROVE  call'[d].todo = call[d].todo /\ call'[d].task = call[d].task
    BY <2>1, SlipIs
  <2> QED BY <1>1, <2>1 DEF Tidy, Parted, Of
<1>10. NoneLooped'
  <2>1. ASSUME NEW u \in link, NEW d \in join[u], kind[d].step < kind[u].step, row'[d].st = "Looped"
        PROVE  FALSE
    <3>1. u \in Task /\ d \in Task
      BY <1>0, <2>1 DEF Tidy, Agrees
    <3>2. d # t
      BY <1>2, <1>4, <2>1
    <3> QED BY <1>4, <2>1, <3>1, <3>2 DEF Tidy, NoneLooped
  <2> QED BY <1>1, <2>1 DEF NoneLooped
<1>11. (Owed => Owed') /\ (Unblocking => Unblocking')
  <2>1. \A d \in Caller : Owes(call[d]) => Owes(call'[d])
    BY SlipIs
  <2>2. \A d \in Caller : \A u \in Task \ {t} : Frees(call[d], u) => Frees(call'[d], u)
    BY SlipIs
  <2> QED BY <1>0, <1>1, <1>2, <1>4, <2>1, <2>2, RowSettles DEF Terminal
<1> QED BY <1>4, <1>6, <1>7, <1>8, <1>9, <1>10, <1>11 DEF Stays, Tidy

LEMMA DispatchStays == ASSUME OrderInv, Tidy, NEW t \in Task, DispatchTask(t) PROVE Stays
<1>1. Dispatchable(t) /\ Start(t) /\ \A d \in Caller : Slips(call[d], call'[d])
  BY DEF DispatchTask, Slips
<1> QED BY <1>1, StartStays

LEMMA DispatchNextStays == ASSUME OrderInv, Tidy, NEW c \in Caller, DispatchNext(c) PROVE Stays
<1> DEFINE k == [call[c] EXCEPT !.next = None]
<1>t. PICK t : t = call[c].next
  OBVIOUS
<1>0. /\ Shaped /\ Fact(call[c], row, join) /\ call' = [call EXCEPT ![c] = Goes(k)]
      /\ Solo(call[c].op) /\ t \in Task
      /\ IF Dispatchable(t) THEN Start(t) ELSE UNCHANGED <<rowVars, gitVars>>
  <2>1. /\ Shaped /\ Fact(call[c], row, join) /\ call' = [call EXCEPT ![c] = Goes(k)]
        /\ call[c].next # None
        /\ IF Dispatchable(t) THEN Start(t) ELSE UNCHANGED <<rowVars, gitVars>>
    BY <1>t DEF OrderInv, LoopInv, CallsInv, Facts, DispatchNext, Shaped
  <2> QED BY <1>t, <2>1 DEF Fact
<1>1. /\ k.seen = call[c].seen /\ k.todo = call[c].todo /\ k.op = call[c].op
      /\ k.task = call[c].task /\ k.writes = call[c].writes /\ k.next = None
  <2>1. DOMAIN call[c] = Fields
    BY <1>0, IsFields DEF Shaped
  <2> QED BY <2>1 DEF Fields
<1> HIDE DEF k
<1>2. OthersStay(c) /\ call'[c] = Goes(k)
  BY <1>0, Becoming
<1>3. Slips(call[c], call'[c])
  BY <1>0, <1>1, <1>2 DEF Goes, Slips, Solo
<1>4. \A d \in Caller : Slips(call[d], call'[d])
  BY <1>2, <1>3 DEF OthersStay, Slips
<1>5. CASE Dispatchable(t)
  BY <1>0, <1>4, <1>5, StartStays
<1>6. CASE ~Dispatchable(t)
  <2>1. UNCHANGED <<row, join, kind, link, running, branches, instance>>
    BY <1>0, <1>6 DEF rowVars, gitVars
  <2>2. Agrees' /\ NoneLooped'
    BY <2>1 DEF Tidy, Agrees, NoneLooped, Done
  <2>3. Known'
    BY <1>4, <2>1, SlipIs DEF Tidy, Known
  <2>4. Ruled'
    <3>1. ASSUME NEW d \in Caller, NEW u \in Task, call'[d].op = "update", call'[d].task = u
          PROVE  ~Judging(u)'
      <4>1. ~Judging(u)
        BY <1>4, <3>1, SlipIs DEF Tidy, Ruled, Of
      <4>2. \A e \in Caller : call[e].op = "finish" =>
                call'[e].op = "finish" /\ call'[e].task = call[e].task /\ call'[e].todo = call[e].todo
        BY <1>4, SlipIs
      <4> QED BY <2>1, <4>1, <4>2 DEF Judging, Of
    <3> QED BY <3>1 DEF Ruled, Of
  <2>5. Working'
    BY <1>4, <2>1, SlipIs DEF Tidy, Working, Of
  <2>6. Parted'
    <3>1. ASSUME NEW d \in Caller, call'[d].todo # <<>>
          PROVE  call'[d].todo = call[d].todo /\ call'[d].task = call[d].task
      BY <1>4, <3>1, SlipIs
    <3> QED BY <2>1, <3>1 DEF Tidy, Parted, Of
  <2>7. /\ \A d \in Caller : Owes(call[d]) => Owes(call'[d])
        /\ \A d \in Caller : \A u \in Task : Frees(call[d], u) => Frees(call'[d], u)
    BY <1>4, SlipIs
  <2>8. (Owed => Owed') /\ (Unblocking => Unblocking')
    <3>1. Owed => Owed'
      BY <2>1, <2>7 DEF Owed, Owes, AllTerminal
    <3>2. Unblocking => Unblocking'
      BY <2>1, <2>7 DEF Unblocking, Frees, Done
    <3> QED BY <3>1, <3>2
  <2> QED BY <2>2, <2>3, <2>4, <2>5, <2>6, <2>8 DEF Stays, Tidy
<1> QED BY <1>5, <1>6

LEMMA RejectStays == ASSUME OrderInv, Tidy, NEW t \in Task, RejectReview(t) PROVE Stays
<1> DEFINE r == WithStatus(row[t], "InProgress")
<1>0. /\ row[t].st = "Review" /\ row' = [row EXCEPT ![t] = r] /\ row[t] # NoRow /\ IsRow(row[t])
      /\ UNCHANGED <<call, join, kind, link, instance, running, branches>>
      /\ row[t].deps = join[t] /\ join[t] \subseteq Done(row) /\ link \subseteq Task
  <2>1. /\ row[t].st = "Review" /\ row' = [row EXCEPT ![t] = r]
        /\ UNCHANGED <<call, join, kind, link, instance, running, branches>>
    BY DEF RejectReview, Is, gitVars, WithStatus
  <2>2. link \subseteq Task
    BY MadeAreTasks DEF OrderInv, LoopInv, Kinds
  <2> QED BY <2>1, <2>2 DEF OrderInv, Tables, Tidy, Agrees, NoRow
<1>1. IsRow(r) /\ r.st = "InProgress" /\ r.deps = join[t]
  BY <1>0, RowStatus
<1> HIDE DEF r
<1>2. Store(t, r)
  BY <1>0 DEF Store, Exists
<1>3. /\ Agrees' /\ Smooth(row, join, row', join')
      /\ row'[t] = r /\ \A u \in Task \ {t} : row'[u] = row[u]
  BY <1>0, <1>1, <1>2, OneRow DEF Tidy, Waiting
<1>4. ~Judging(t)
  BY <1>0 DEF OrderInv, Judged, Unreviewed
<1>5. ASSUME NEW d \in Caller, Pinned(call[d]) PROVE Of(d) \in Task \ {t}
  <2>1. Fact(call[d], row, join) /\ Knows(call[d], row, join)
    BY DEF OrderInv, Facts, Tidy, Known
  <2>2. Of(d) \in Task
    BY <1>5, <2>1 DEF Fact, Pinned, Of
  <2>3. CASE call[d].op = "finish"
    <3>1. call[d].todo = <<"verdict">> \/ call[d].todo \in FailedStages
      BY <1>5, <2>3 DEF Pinned
    <3>2. row[Of(d)].st \in {"InProgress", "Failed"}
      BY <2>1, <2>3, <3>1 DEF Knows, Of
    <3> QED BY <1>0, <2>2, <3>2
  <2>4. CASE call[d].op = "update"
    BY <1>0, <1>5, <2>1, <2>2, <2>4 DEF Pinned, Knows, Of
  <2> QED BY <1>5, <2>2, <2>3, <2>4 DEF Pinned
<1>6. Known'
  <2>1. \A u \in Task : row[u].st = "Blocked" => row'[u].st = "Blocked"
    BY <1>0, <1>3
  <2>2. \A d \in Caller : Pinned(call[d]) => row'[Of(d)].st = row[Of(d)].st
    BY <1>3, <1>5
  <2> QED BY <1>0, <1>3, <2>1, <2>2, AllKnow DEF Tidy
<1>7. \A u : Judging(u)' => Judging(u)
  BY <1>0 DEF Judging, Of
<1>8. Tidy'
  BY <1>0, <1>1, <1>3, <1>6, <1>7, RowTidy DEF Of
<1>9. (Owed => Owed') /\ (Unblocking => Unblocking')
  <2>1. \A d \in Caller : Owes(call[d]) => Owes(call'[d])
    BY <1>0 DEF Owes
  <2>2. \A d \in Caller : \A u \in Task \ {t} : Frees(call[d], u) => Frees(call'[d], u)
    BY <1>0 DEF Frees
  <2> QED BY <1>0, <1>1, <1>3, <2>1, <2>2, RowSettles DEF Terminal
<1> QED BY <1>8, <1>9 DEF Stays

(* After a crash nothing is owed: only what the tables say must hold.      *)
LEMMA CrashStays == ASSUME OrderInv, Tidy, breaks \in Nat, Crash PROVE Stays
<1>1. /\ call' = [c \in Caller |-> Idle] /\ running' = {} /\ breaks' = breaks + 1
      /\ row' = [t \in Task |-> IF row[t].st = "InProgress" THEN WithStatus(row[t], "Failed") ELSE row[t]]
      /\ UNCHANGED <<join, kind, link, branches>>
  BY DEF Crash, Is, WithStatus
<1>2. ASSUME NEW u \in Task
      PROVE  /\ row'[u].deps = row[u].deps
             /\ row'[u].st = row[u].st \/ (row[u].st = "InProgress" /\ row'[u].st = "Failed")
  <2> DEFINE r == WithStatus(row[u], "Failed")
  <2>1. IsRow(row[u])
    BY DEF OrderInv, Tables
  <2>2. r.st = "Failed" /\ r.deps = row[u].deps
    BY <2>1, RowStatus
  <2>3. row'[u] = IF row[u].st = "InProgress" THEN r ELSE row[u]
    BY <1>1
  <2> HIDE DEF r
  <2> QED BY <2>2, <2>3
<1>3. Done(row') = Done(row)
  BY <1>2 DEF Done
<1>4. Agrees'
  <2>1. ASSUME NEW u \in Task
        PROVE  /\ row'[u].deps = join'[u] /\ join'[u] \subseteq Task
               /\ row'[u].st \notin {"none", "Blocked"} => join'[u] \subseteq Done(row')
               /\ u \in branches' \cup running' => row'[u].st \notin Waiting
    BY <1>1, <1>2, <1>3 DEF Tidy, Agrees, Waiting
  <2> QED BY <2>1 DEF Agrees, Done
<1>5. \A d \in Caller : call'[d] = Idle
  BY <1>1
<1>6. Known'
  BY <1>5, IdleKnows DEF Known
<1>7. Ruled' /\ Working' /\ Parted'
  <2>1. Working'
    BY <1>1 DEF Working
  <2>2. Ruled'
    BY <1>5, IdleKnows DEF Ruled
  <2>3. Parted'
    BY <1>5, IdleKnows DEF Parted
  <2> QED BY <2>1, <2>2, <2>3
<1>8. NoneLooped'
  <2>1. link \subseteq Task
    BY MadeAreTasks DEF OrderInv, LoopInv, Kinds
  <2>2. ASSUME NEW u \in link, NEW d \in join[u], kind[d].step < kind[u].step, row'[d].st = "Looped"
        PROVE  FALSE
    <3>1. d \in Task
      BY <2>1, <2>2 DEF Tidy, Agrees
    <3> QED BY <1>2, <2>2, <3>1 DEF Tidy, NoneLooped
  <2> QED BY <1>1, <2>2 DEF NoneLooped
<1> QED BY <1>1, <1>4, <1>6, <1>7, <1>8 DEF Stays, Tidy

(* Deleting a row is where being whole ends.                               *)
LEMMA EraseEnds == ASSUME OrderInv, Tidy, NEW c \in Caller, Erase(c) PROVE ~Whole'
<1>1. /\ Fact(call[c], row, join) /\ Knows(call[c], row, join) /\ Stage(c, "erase") /\ Tables /\ Kinds
      /\ row' = [row EXCEPT ![Of(c)] = NoRow] /\ made' = made
  BY DEF OrderInv, LoopInv, Facts, Tidy, Known, Erase
<1>2. call[c].op = "delete" /\ Of(c) \in Task
  BY <1>1, Remaining DEF Stage, Fact, Of
<1>3. row[Of(c)] # NoRow
  BY <1>1, <1>2 DEF Knows, Of
<1>4. Of(c) \in 1 .. made
  BY <1>1, <1>2, <1>3, MadeAreTasks DEF Tables, Task
<1>5. row'[Of(c)] = NoRow
  BY <1>1, <1>2 DEF Tables
<1> QED BY <1>1, <1>4, <1>5 DEF Whole

(* Rows of new tasks, whose dependencies are new or were there before; of  *)
(* the others nothing changes but that a dependency that is not Done may   *)
(* become a new task.                                                      *)
Added(new) ==
    /\ new \subseteq Task
    /\ \A u \in new : /\ row[u] = NoRow /\ row'[u].st \in {"Planned", "Ready", "Blocked"}
                      /\ row'[u].deps = join'[u] /\ join'[u] \subseteq Task
                      /\ row'[u].st # "Blocked" => join'[u] \subseteq Done(row)
    /\ \A u \in Task \ new : /\ row'[u].st = row[u].st /\ (row[u] # NoRow => row'[u] # NoRow)
                             /\ row'[u].deps = join'[u] /\ join'[u] \subseteq join[u] \cup new
                             /\ join[u] \subseteq Done(row) => join'[u] = join[u]

LEMMA AddedAgrees ==
    ASSUME Agrees, NEW new, Added(new), UNCHANGED <<branches, running>>
    PROVE  /\ Agrees' /\ Smooth(row, join, row', join') /\ Done(row') = Done(row)
           /\ \A u \in Task : row[u].st = "Blocked" => row'[u].st = "Blocked"
           /\ \A u \in Task : row[u].st \notin Waiting => u \notin new /\ row'[u].st = row[u].st
<1>1. \A u \in new : u \in Task /\ row[u].st = "none"
  BY DEF Added, NoRow
<1>2. Done(row') = Done(row)
  BY <1>1 DEF Added, Done
<1>3. \A u \in Task : row[u].st \notin Waiting => u \notin new /\ row'[u].st = row[u].st
  BY <1>1 DEF Added, Waiting
<1>4. \A u \in Task : row[u].st = "Blocked" => row'[u].st = "Blocked"
  BY <1>1 DEF Added
<1>5. Smooth(row, join, row', join')
  <2>1. ASSUME NEW u \in Task, row[u] # NoRow PROVE u \in Task \ new
    BY <2>1 DEF Added
  <2> QED BY <1>2, <1>3, <2>1 DEF Smooth, Added
<1>6. Agrees'
  <2>1. ASSUME NEW u \in Task
        PROVE  /\ row'[u].deps = join'[u] /\ join'[u] \subseteq Task
               /\ row'[u].st \notin {"none", "Blocked"} => join'[u] \subseteq Done(row')
               /\ u \in branches' \cup running' => row'[u].st \notin Waiting
    <3>1. CASE u \in new
      BY <1>1, <1>2, <3>1 DEF Agrees, Added, Waiting
    <3>2. CASE u \notin new
      BY <1>2, <3>2 DEF Agrees, Added
    <3> QED BY <3>1, <3>2
  <2> QED BY <2>1 DEF Agrees, Done
<1> QED BY <1>2, <1>3, <1>4, <1>5, <1>6

LEMMA AddedApart ==
    ASSUME Tidy, NEW new, Added(new), link \subseteq Task, link \cap new = {}, link' \subseteq link \cup new,
           \A u \in Task \ new : kind'[u] = kind[u],
           \A u \in link' \cap new : join'[u] \subseteq new \cup Done(row)
    PROVE  NoneLooped'
<1>1. ASSUME NEW u \in link', NEW d \in join'[u], kind'[d].step < kind'[u].step, row'[d].st = "Looped"
      PROVE  FALSE
  <2>1. d \notin new
    BY <1>1 DEF Added
  <2>2. CASE u \in new
    <3>1. d \in Task /\ row[d].st = "Done"
      BY <1>1, <2>1, <2>2 DEF Done
    <3> QED BY <1>1, <2>1, <3>1 DEF Added
  <2>3. CASE u \notin new
    <3>1. u \in link /\ u \in Task \ new /\ d \in join[u]
      BY <1>1, <2>1, <2>3 DEF Added
    <3>2. d \in Task \ new
      BY <2>1, <3>1 DEF Tidy, Agrees
    <3>3. row[d].st = "Looped" /\ kind[d].step < kind[u].step
      BY <1>1, <3>1, <3>2 DEF Added
    <3> QED BY <3>1, <3>3 DEF Tidy, NoneLooped
  <2> QED BY <2>2, <2>3
<1> QED BY <1>1 DEF NoneLooped

LEMMA AddedSettles ==
    ASSUME NEW new, Added(new), link \subseteq Task, link \cap new = {},
           \/ link' \cap new # {}
           \/ UNCHANGED <<link, instance>> /\ \A d \in Caller : Owes(call[d]) => Owes(call'[d]),
           \/ \E d \in Caller : call'[d].todo \in RefreshStages
           \/ /\ \A d \in Caller : \A u \in Task \ new : Frees(call[d], u) => Frees(call'[d], u)
              /\ Declared => \A u \in new : row'[u].st = "Blocked" => ~(join'[u] \subseteq Done(row))
              /\ \A u \in Task \ new : join'[u] \subseteq Done(row) => join[u] \subseteq Done(row)
    PROVE  (Owed => Owed') /\ (Declared /\ Unblocking => Unblocking')
<1>1. Owed => Owed'
  <2>1. CASE link' \cap new # {}
    <3>1. PICK u \in link' \cap new : row'[u].st \notin Terminal
      BY <2>1 DEF Added, Terminal
    <3> QED BY <3>1 DEF Owed, AllTerminal
  <2>2. CASE UNCHANGED <<link, instance>> /\ \A d \in Caller : Owes(call[d]) => Owes(call'[d])
    <3>1. \A u \in link : row'[u].st = row[u].st
      BY DEF Added
    <3> QED BY <2>2, <3>1 DEF Owed, Owes, AllTerminal
  <2> QED BY <2>1, <2>2
<1>2. Declared /\ Unblocking => Unblocking'
  <2>1. CASE \E d \in Caller : call'[d].todo \in RefreshStages
    BY <2>1 DEF Unblocking, Frees
  <2>2. CASE /\ \A d \in Caller : \A u \in Task \ new : Frees(call[d], u) => Frees(call'[d], u)
             /\ Declared => \A u \in new : row'[u].st = "Blocked" => ~(join'[u] \subseteq Done(row))
             /\ \A u \in Task \ new : join'[u] \subseteq Done(row) => join[u] \subseteq Done(row)
    <3>1. Done(row') = Done(row)
      <4>1. \A u \in new : u \in Task /\ row[u].st = "none"
        BY DEF Added, NoRow
      <4> QED BY <4>1 DEF Added, Done
    <3>2. ASSUME Declared, Unblocking, NEW u \in Task, row'[u].st = "Blocked", join'[u] \subseteq Done(row')
          PROVE  \E d \in Caller : Frees(call'[d], u)
      <4>1. u \in Task \ new
        BY <2>2, <3>1, <3>2
      <4>2. row[u].st = "Blocked" /\ join[u] \subseteq Done(row)
        BY <2>2, <3>1, <3>2, <4>1 DEF Added
      <4> QED BY <2>2, <3>2, <4>1, <4>2 DEF Unblocking
    <3> QED BY <3>2 DEF Unblocking, Frees, Done
  <2> QED BY <2>1, <2>2
<1> QED BY <1>1, <1>2

(* A step in which a call begins or goes on, and tasks may be added.       *)
LEMMA AddedTidy ==
    ASSUME Tidy, NEW c \in Caller, OthersStay(c), Agrees', Known', Parted', NoneLooped', running' = running,
           \A u \in Task : row[u].st \notin Waiting => row'[u].st = row[u].st,
           \A u : Judging(u)' => Judging(u),
           call'[c].op = "update" => call[c].op = "update" /\ call'[c].task = call[c].task,
           call[c].op = "finish" => call'[c].op = "finish" /\ call'[c].task = call[c].task
    PROVE  Tidy'
<1>1. Ruled'
  <2>1. ASSUME NEW d \in Caller, NEW u \in Task, call'[d].op = "update", call'[d].task = u
        PROVE  ~Judging(u)'
    <3>1. call[d].op = "update" /\ call[d].task = u
      BY <2>1 DEF OthersStay
    <3> QED BY <3>1 DEF Tidy, Ruled, Of
  <2> QED BY <2>1 DEF Ruled, Of
<1>2. Working'
  <2>1. ASSUME NEW u \in Task, u \in running, \A d \in Caller : ~(call'[d].op = "finish" /\ call'[d].task = u)
        PROVE  row'[u].st = "InProgress"
    <3>1. \A d \in Caller : ~(call[d].op = "finish" /\ Of(d) = u)
      BY <2>1 DEF OthersStay, Of
    <3>2. row[u].st = "InProgress"
      BY <2>1, <3>1 DEF Tidy, Working
    <3> QED BY <3>2 DEF Waiting
  <2> QED BY <2>1 DEF Working, Of
<1> QED BY <1>1, <1>2 DEF Tidy

LEMMA CreateStays ==
    ASSUME Reviewing, OrderInv, Tidy, NEW c \in Caller, NEW deps, CreateTask(c, deps)
    PROVE  Stays
<1> DEFINE k == Call("create", None, <<"refresh">>)
           s == RefreshBlocked("Planned", deps, Done(row))
<1>n. PICK n : n = made + 1
  OBVIOUS
<1>1. /\ Free(c, "create") /\ call' = [call EXCEPT ![c] = k] /\ made < MaxTasks
      /\ UNCHANGED <<link, instance, running, branches>> /\ deps \subseteq Task
      /\ row' = [row EXCEPT ![n] = [st |-> s, deps |-> deps, complete |-> FALSE]]
      /\ join' = [join EXCEPT ![n] = deps] /\ kind' = [kind EXCEPT ![n] = NoKind]
      /\ Tables /\ Kinds
  BY <1>n DEF CreateTask, Begin, Insert, DepsValid, Rows, gitVars, OrderInv, LoopInv
<1>2. k.op = "create" /\ k.todo = <<"refresh">> /\ DOMAIN k.writes = {}
  BY CallIs
<1> HIDE DEF k
<1>3. OthersStay(c) /\ call'[c] = k /\ call[c] = Idle
  BY <1>1, UserBegins DEF Reviewing
<1>4. s \in {"Planned", "Blocked"} /\ (s # "Blocked" => deps \subseteq Done(row))
  BY DEF RefreshBlocked, Transition
<1> HIDE DEF s
<1>5. n \in Task /\ n > made /\ made \in Nat /\ row[n] = NoRow /\ link \subseteq Task /\ n \notin link
  <2>1. MaxTasks \in Nat /\ made \in Nat /\ link \subseteq 1 .. made /\ link \subseteq Task
    BY <1>1, MadeAreTasks, WorkflowAssumption DEF WorkflowAssumption, Kinds
  <2>2. n \in Task /\ n > made
    BY <1>1, <1>n, <2>1 DEF Task
  <2> QED BY <1>1, <2>1, <2>2 DEF Tables
<1>6. /\ row'[n] = [st |-> s, deps |-> deps, complete |-> FALSE] /\ join'[n] = deps
      /\ \A u \in Task \ {n} : row'[u] = row[u] /\ join'[u] = join[u] /\ kind'[u] = kind[u]
  BY <1>1, <1>5 DEF Tables, Kinds
<1>7. Added({n})
  BY <1>1, <1>4, <1>5, <1>6 DEF Added, Tidy, Agrees
<1>8. /\ Agrees' /\ Smooth(row, join, row', join')
      /\ \A u \in Task : row[u].st = "Blocked" => row'[u].st = "Blocked"
      /\ \A u \in Task : row[u].st \notin Waiting => u \notin {n} /\ row'[u].st = row[u].st
  BY <1>1, <1>7, AddedAgrees DEF Tidy
<1>9. NoneLooped'
  BY <1>1, <1>5, <1>6, <1>7, AddedApart
<1>10. k.todo \in RefreshStages /\ k.todo # <<>> /\ k.todo # <<"store">> /\ Head(k.todo) # "mark"
  <2>1. ASSUME NEW p, p = <<"refresh">>
        PROVE  p \in RefreshStages /\ p # <<>> /\ p # <<"store">> /\ Head(p) # "mark"
    BY <2>1 DEF RefreshStages
  <2> QED BY <1>2, <2>1
<1>11. Knows(call'[c], row', join')
  <2>1. PICK r2, j2 : r2 = row' /\ j2 = join'
    OBVIOUS
  <2>2. Knows(k, r2, j2)
    BY <1>2, <1>10 DEF Knows
  <2> QED BY <1>3, <2>1, <2>2
<1>12. Known'
  <2>1. \A d \in Caller \ {c} : Pinned(call[d]) => row'[Of(d)].st = row[Of(d)].st
    <3>1. ASSUME NEW d \in Caller, Pinned(call[d]) PROVE Of(d) \in Task /\ row[Of(d)].st \notin Waiting
      BY <3>1 DEF OrderInv, Facts, Fact, Tidy, Known, Knows, Pinned, Of
    <3> QED BY <1>8, <3>1
  <2> QED BY <1>3, <1>8, <1>11, <2>1, OthersKnow DEF Tidy
<1>13. \A u : Judging(u)' => Judging(u)
  BY <1>1, <1>3, IdleKnows, JudgingStays
<1>14. Parted'
  <2>1. ASSUME NEW d \in Caller, call'[d].todo # <<>>, Head(call'[d].todo) = "mark"
        PROVE  call'[d] = call[d]
    BY <1>3, <1>10, <2>1 DEF OthersStay
  <2>2. \A u \in link : kind'[u] = kind[u] /\ join'[u] = join[u]
    BY <1>5, <1>6
  <2>3. ASSUME NEW d \in Caller, call'[d].todo # <<>>, Head(call'[d].todo) = "mark"
        PROVE  kind'[call'[d].task] = kind[call[d].task] /\ call'[d].task = call[d].task
    <3>1. call'[d] = call[d] /\ call[d].op \in {"finish", "update"} /\ call[d].task \in Task
      <4>1. Fact(call[d], row, join) /\ call'[d] = call[d]
        BY <2>1, <2>3 DEF OrderInv, Facts
      <4>2. call[d].op \in {"finish", "update"}
        BY <2>3, <4>1, Remaining DEF Fact
      <4> QED BY <4>1, <4>2 DEF Fact
    <3>2. row[call[d].task].st \notin Waiting
      BY <3>1 DEF Tidy, Known, Knows
    <3> QED BY <1>6, <1>8, <3>1, <3>2
  <2> QED BY <1>1, <2>1, <2>2, <2>3 DEF Tidy, Parted, Of
<1>15. Tidy'
  BY <1>1, <1>2, <1>3, <1>8, <1>9, <1>12, <1>13, <1>14, IdleKnows, AddedTidy
<1>16. (Owed => Owed') /\ (Declared /\ Unblocking => Unblocking')
  <2>1. \A d \in Caller : Owes(call[d]) => Owes(call'[d])
    <3>1. call[c].todo = <<>> /\ <<>> \notin OwingStages
      BY <1>3, IdleKnows DEF OwingStages
    <3> QED BY <1>3, <3>1 DEF OthersStay, Owes
  <2> QED BY <1>1, <1>3, <1>5, <1>7, <1>10, <2>1, AddedSettles
<1> QED BY <1>15, <1>16 DEF Stays

LEMMA InstantiateStays == ASSUME OrderInv, Tidy, Instantiate PROVE Stays
<1> DEFINE id == [i \in DOMAIN steps |-> made + i]
           new == made + 1 .. made + Len(steps)
           deps(i) == {id[d] : d \in steps[i].deps \cap 1 .. (i - 1)}
<1>1. /\ row' = [t \in Task |-> IF t \in new
                 THEN [st |-> IF steps[t - made].deps = {} THEN "Ready" ELSE "Blocked",
                       deps |-> deps(t - made), complete |-> FALSE]
                 ELSE row[t]]
      /\ join' = [t \in Task |-> IF t \in new THEN deps(t - made) ELSE join[t]]
      /\ kind' = [t \in Task |-> IF t \in new
             THEN [step |-> t - made, iter |-> 0, ctx |-> FALSE] ELSE kind[t]]
      /\ link' = link \cup new /\ made + Len(steps) <= MaxTasks
      /\ UNCHANGED <<call, running, branches>> /\ Tables /\ Kinds
  BY DEF Instantiate, reviewVars, gitVars, OrderInv, LoopInv
<1>2. made \in Nat /\ Len(steps) \in Nat \ {0} /\ MaxTasks \in Nat /\ DOMAIN steps = 1 .. Len(steps)
  <2>1. steps # <<>> /\ steps \in Seq(StepDef) /\ Len(steps) \in Nat /\ DOMAIN steps = 1 .. Len(steps)
    BY <1>1, StepsAre DEF Valid
  <2> QED BY <1>1, <2>1, MadeAreTasks, WorkflowAssumption DEF WorkflowAssumption
<1>3. /\ \A u \in new : u > made /\ u \in Task /\ u - made \in 1 .. Len(steps)
      /\ new # {} /\ link \cap new = {} /\ link \subseteq Task
  <2>1. /\ \A u \in new : u > made /\ u \in Task /\ u - made \in 1 .. Len(steps)
        /\ made + 1 \in new
    BY <1>1, <1>2 DEF Task
  <2>2. link \subseteq 1 .. made /\ \A u \in 1 .. made : u \notin new
    BY <1>1, <1>2 DEF Kinds
  <2> HIDE DEF new
  <2> QED BY <1>1, <2>1, <2>2, MadeAreTasks
<1>4. ASSUME NEW i \in 1 .. Len(steps)
      PROVE  /\ deps(i) \subseteq new /\ (steps[i].deps = {} => deps(i) = {})
             /\ Declared /\ steps[i].deps # {} => deps(i) # {}
  <2>1. \A d \in 1 .. (i - 1) : d \in DOMAIN steps /\ id[d] = made + d /\ made + d \in new
    BY <1>2
  <2>2. Declared /\ steps[i].deps # {} => steps[i].deps \cap 1 .. (i - 1) # {}
    BY <1>1, <1>2 DEF Declared, Kinds
  <2> HIDE DEF id, new
  <2> QED BY <2>1, <2>2
<1> HIDE DEF new, deps
<1>5. ASSUME NEW u \in new
      PROVE  /\ row[u] = NoRow /\ row'[u].st \in {"Ready", "Blocked"} /\ row'[u].deps = join'[u]
             /\ join'[u] \subseteq new /\ (row'[u].st = "Ready" => join'[u] = {})
             /\ Declared /\ row'[u].st = "Blocked" => join'[u] # {}
  <2>1. row[u] = NoRow /\ u \in Task /\ u - made \in 1 .. Len(steps)
    BY <1>1, <1>3 DEF Tables
  <2>2. /\ row'[u] = [st |-> IF steps[u - made].deps = {} THEN "Ready" ELSE "Blocked",
                      deps |-> deps(u - made), complete |-> FALSE]
        /\ join'[u] = deps(u - made)
    BY <1>1, <2>1
  <2>3. PICK i \in 1 .. Len(steps) : i = u - made
    BY <2>1
  <2> QED BY <1>4, <2>1, <2>2, <2>3
<1>6. \A u \in Task \ new : row'[u] = row[u] /\ join'[u] = join[u] /\ kind'[u] = kind[u]
  BY <1>1
<1>7. Added(new)
  <2>1. new \subseteq Task
    BY <1>3
  <2> QED BY <1>5, <1>6, <2>1 DEF Added, Tidy, Agrees
<1>8. /\ Agrees' /\ Smooth(row, join, row', join')
      /\ \A u \in Task : row[u].st = "Blocked" => row'[u].st = "Blocked"
      /\ \A u \in Task : row[u].st \notin Waiting => u \notin new /\ row'[u].st = row[u].st
  BY <1>1, <1>7, AddedAgrees DEF Tidy
<1>9. NoneLooped'
  BY <1>1, <1>3, <1>5, <1>6, <1>7, AddedApart
<1>10. Known'
  <2>1. \A d \in Caller : Pinned(call[d]) => row'[Of(d)].st = row[Of(d)].st
    <3>1. ASSUME NEW d \in Caller, Pinned(call[d]) PROVE Of(d) \in Task /\ row[Of(d)].st \notin Waiting
      BY <3>1 DEF OrderInv, Facts, Fact, Tidy, Known, Knows, Pinned, Of
    <3> QED BY <1>8, <3>1
  <2> QED BY <1>1, <1>8, <2>1, AllKnow DEF Tidy
<1>11. \A u : Judging(u)' <=> Judging(u)
  BY <1>1 DEF Judging, Of
<1>12. Ruled' /\ Working'
  <2>1. Ruled'
    BY <1>1, <1>11 DEF Tidy, Ruled, Of
  <2>2. Working'
    <3>1. \A u \in Task : row[u].st = "InProgress" => row'[u].st = "InProgress"
      BY <1>8 DEF Waiting
    <3> QED BY <1>1, <3>1 DEF Tidy, Working, Of
  <2> QED BY <2>1, <2>2
<1>13. Parted'
  <2>1. ASSUME NEW d \in Caller, call[d].todo # <<>>, Head(call[d].todo) = "mark",
               NEW u \in link', kind'[u].step > kind'[call[d].task].step, call[d].task \in join'[u]
        PROVE  FALSE
    <3>1. Fact(call[d], row, join) /\ Knows(call[d], row, join)
      BY DEF OrderInv, Facts, Tidy, Known
    <3>2. call[d].task \in Task /\ row[call[d].task].st \notin Waiting
      <4>1. call[d].op \in {"finish", "update"}
        BY <2>1, <3>1, Remaining DEF Fact
      <4> QED BY <3>1, <4>1 DEF Fact, Knows
    <3>3. call[d].task \notin new /\ u \notin new
      BY <1>5, <1>8, <2>1, <3>2
    <3> QED BY <1>1, <1>3, <1>6, <2>1, <3>2, <3>3 DEF Tidy, Parted, Of
  <2> QED BY <1>1, <2>1 DEF Parted, Of
<1>14. (Owed => Owed') /\ (Declared /\ Unblocking => Unblocking')
  <2>1. link' \cap new # {}
    BY <1>1, <1>3
  <2>2. Declared => \A u \in new : row'[u].st = "Blocked" => ~(join'[u] \subseteq Done(row))
    <3>1. \A u \in new : u \notin Done(row)
      BY <1>5 DEF Done, NoRow
    <3> QED BY <1>5, <3>1
  <2>3. \A u \in Task \ new : join'[u] \subseteq Done(row) => join[u] \subseteq Done(row)
    BY <1>6
  <2>4. \A d \in Caller : \A u \in Task \ new : Frees(call[d], u) => Frees(call'[d], u)
    BY <1>1
  <2> QED BY <1>3, <1>7, <2>1, <2>2, <2>3, <2>4, AddedSettles
<1> QED BY <1>8, <1>9, <1>10, <1>12, <1>13, <1>14 DEF Stays, Tidy

(* A call at the stages of a loop goes by a gate that failed.              *)
LEMMA GateFailed ==
    ASSUME OrderInv, Tidy, NEW c \in Caller, call[c].todo # <<>>, Head(call[c].todo) \in {"iterate", "mark"}
    PROVE  /\ Of(c) \in Task /\ row[Of(c)].st = "Failed" /\ call[c].seen.st = "Failed"
           /\ call[c].seen.deps = join[Of(c)] /\ DOMAIN call[c].writes = {} /\ Pinned(call[c])
           /\ call[c].todo \notin RefreshStages \cup ApplyStages
           /\ \/ call[c].op = "update"
              \/ call[c].op = "finish" /\ call[c].todo \notin JudgedStages
<1>0. Fact(call[c], row, join) /\ Knows(call[c], row, join)
  BY DEF OrderInv, Facts, Tidy, Known
<1>1. \/ call[c].op = "update" /\ call[c].todo \in {<<"iterate">>, <<"mark">>}
      \/ call[c].op = "finish" /\ call[c].todo \in {<<"iterate", "cleanup", "end">>, <<"mark", "cleanup", "end">>}
  BY <1>0, Remaining DEF Fact
<1>2. ASSUME NEW p \in {<<"iterate">>, <<"mark">>}
      PROVE  /\ p \in DecidedStages /\ p \in {<<"iterate">>, <<"mark">>} \cup FailedStages
             /\ p # <<"store">> /\ Head(p) # "apply" /\ p \notin RefreshStages \cup ApplyStages
  BY DEF DecidedStages, RefreshStages, ApplyStages
<1>3. ASSUME NEW p \in {<<"iterate", "cleanup", "end">>, <<"mark", "cleanup", "end">>}
      PROVE  /\ p \in FailedStages /\ p \in {<<"iterate">>, <<"mark">>} \cup FailedStages
             /\ p # <<"store">> /\ Head(p) # "apply" /\ p \notin JudgedStages
             /\ p \notin RefreshStages \cup ApplyStages
  BY DEF FailedStages, JudgedStages, RefreshStages, ApplyStages
<1>4. /\ call[c].op = "update" => call[c].todo \in DecidedStages
      /\ call[c].op = "finish" => call[c].todo \in FailedStages /\ call[c].todo \notin JudgedStages
      /\ call[c].todo \in {<<"iterate">>, <<"mark">>} \cup FailedStages
      /\ call[c].todo # <<"store">> /\ Head(call[c].todo) # "apply"
      /\ call[c].todo \notin RefreshStages \cup ApplyStages
  BY <1>1, <1>2, <1>3
<1>5. call[c].seen.st = "Failed" /\ DOMAIN call[c].writes = {} /\ Of(c) \in Task
  BY <1>0, <1>1, <1>4 DEF Fact, Gate, Of
<1> QED BY <1>0, <1>1, <1>4, <1>5 DEF Knows, Pinned, Of

LEMMA IterateStays ==
    ASSUME Reviewing, OrderInv, Tidy, NEW c \in Caller, CreateIteration(c)
    PROVE  Stays
<1>t. PICK t : t = Of(c)
  OBVIOUS
<1>0. /\ Stage(c, "iterate") /\ t \in link /\ Kinds /\ Tables /\ Shaped /\ Fact(call[c], row, join)
      /\ UNCHANGED <<instance, running, branches>>
  BY <1>t DEF CreateIteration, gitVars, OrderInv, LoopInv, CallsInv, Facts
<1>1. /\ t \in Task /\ row[t].st = "Failed" /\ call[c].seen.st = "Failed"
      /\ call[c].seen.deps = join[t] /\ DOMAIN call[c].writes = {} /\ Pinned(call[c])
      /\ call[c].todo \notin RefreshStages \cup ApplyStages
      /\ \/ call[c].op = "update"
         \/ call[c].op = "finish" /\ call[c].todo \notin JudgedStages
  BY <1>0, <1>t, GateFailed DEF Stage
<1>2. PICK new \in SUBSET Task, m \in Task : Iteration(c, new, m)
  BY Iterated DEF Reviewing
<1>3. /\ \A u \in new : u > made /\ row[u] = NoRow /\ row'[u].st \in {"Ready", "Blocked"}
                        /\ row'[u].deps = join'[u] /\ join'[u] \subseteq new \cup Done(row)
                        /\ (row'[u].st = "Blocked" <=> join'[u] \cap new # {})
                        /\ kind'[u].step <= kind[t].step
      /\ \A u \in Task \ new : kind'[u] = kind[u]
      /\ link \subseteq link' /\ link' \subseteq link \cup new
  BY <1>2, <1>t DEF Iteration
<1>4. link \subseteq Task /\ link \cap new = {}
  <2>1. link \subseteq 1 .. made /\ link \subseteq Task /\ made \in Nat
    BY <1>0, MadeAreTasks DEF Kinds
  <2>2. \A u \in 1 .. made : ~(u > made)
    BY <2>1
  <2> QED BY <1>3, <2>1, <2>2
<1>5. PICK h \in {"mark", "complete"} :
          /\ Continue(c, <<h>> \o Tail(call[c].todo))
          /\ h = "mark" => m \in new \cap link'
          /\ \A u \in Task \ new :
                /\ row'[u] = IF h = "mark" /\ u \in Downstream(t) THEN WithDeps(row[u], Swap(row[u].deps, t, m))
                             ELSE row[u]
                /\ join'[u] = IF h = "mark" /\ u \in Downstream(t) THEN Swap(join[u], t, m) ELSE join[u]
  <2>1. CASE /\ Continue(c, <<"mark">> \o Tail(call[c].todo)) /\ m \in new \cap link'
             /\ \A u \in Task \ new :
                   /\ row'[u] = IF u \in Downstream(t) THEN WithDeps(row[u], Swap(row[u].deps, t, m)) ELSE row[u]
                   /\ join'[u] = IF u \in Downstream(t) THEN Swap(join[u], t, m) ELSE join[u]
    BY <2>1
  <2>2. CASE /\ Continue(c, <<"complete">> \o Tail(call[c].todo))
             /\ \A u \in Task \ new : row'[u] = row[u] /\ join'[u] = join[u]
    BY <2>2
  <2> QED BY <1>2, <1>t, <2>1, <2>2 DEF Iteration
<1>6. ASSUME NEW u \in Task \ new
      PROVE  /\ row'[u].st = row[u].st /\ (row[u] # NoRow => row'[u] # NoRow)
             /\ row'[u].deps = join'[u] /\ join'[u] \subseteq join[u] \cup new
             /\ join[u] \subseteq Done(row) => join'[u] = join[u]
             /\ join'[u] \subseteq Done(row) => join[u] \subseteq Done(row)
             /\ h = "mark" /\ u \in link /\ kind[u].step > kind[t].step => t \notin join'[u]
  <2>1. IsRow(row[u]) /\ row[u].deps = join[u] /\ t \notin Done(row) /\ (h = "mark" => m \notin Done(row) /\ m # t)
    <3>1. IsRow(row[u]) /\ row[u].deps = join[u]
      BY <1>0 DEF Tables, Tidy, Agrees
    <3>2. t \notin Done(row)
      BY <1>1 DEF Done
    <3>3. ASSUME h = "mark" PROVE m \notin Done(row) /\ m # t
      <4>1. m \in new /\ row[m].st = "none"
        BY <1>3, <1>5, <3>3 DEF NoRow
      <4> QED BY <1>0, <1>4, <4>1 DEF Done
    <3> QED BY <3>1, <3>2, <3>3
  <2>2. CASE h = "mark" /\ u \in Downstream(t)
    <3>1. row[u] # NoRow /\ row[u].st # "none" /\ t \in join[u]
      BY <2>1, <2>2 DEF Downstream, NoRow, IsRow
    <3>2. row'[u] = WithDeps(row[u], Swap(row[u].deps, t, m)) /\ join'[u] = Swap(join[u], t, m)
      BY <1>5, <2>2
    <3>3. row'[u].st = row[u].st /\ row'[u].deps = Swap(row[u].deps, t, m)
      <4>1. PICK d : d = Swap(row[u].deps, t, m)
        OBVIOUS
      <4>2. WithDeps(row[u], d) = [st |-> row[u].st, deps |-> d, complete |-> row[u].complete]
        BY <2>1 DEF IsRow, WithDeps
      <4> QED BY <3>2, <4>1, <4>2
    <3>4. m \in new /\ m \in join'[u] /\ t \notin join'[u] /\ join'[u] \subseteq join[u] \cup new
      BY <1>5, <2>1, <2>2, <3>1, <3>2 DEF Swap
    <3> QED BY <2>1, <2>2, <3>1, <3>2, <3>3, <3>4 DEF NoRow
  <2>3. CASE ~(h = "mark" /\ u \in Downstream(t))
    BY <1>5, <2>1, <2>3 DEF Downstream
  <2> QED BY <2>2, <2>3
<1>7. Added(new)
  <2>1. \A u \in new : join'[u] \subseteq Task /\ (row'[u].st # "Blocked" => join'[u] \subseteq Done(row))
    BY <1>3 DEF Done
  <2> QED BY <1>3, <1>6, <2>1 DEF Added
<1>8. /\ Agrees' /\ Smooth(row, join, row', join')
      /\ \A u \in Task : row[u].st = "Blocked" => row'[u].st = "Blocked"
      /\ \A u \in Task : row[u].st \notin Waiting => u \notin new /\ row'[u].st = row[u].st
  BY <1>0, <1>7, AddedAgrees DEF Tidy
<1>9. NoneLooped'
  BY <1>3, <1>4, <1>7, AddedApart
<1>10. PICK p : p = <<h>> \o Tail(call[c].todo)
  OBVIOUS
<1>11. /\ p # <<>> /\ p # <<"store">> /\ p # <<"verdict">> /\ p \notin RefreshStages
       /\ h = "complete" => /\ p \in OwingStages /\ p \notin DecidedStages /\ p \notin FailedStages
                            /\ Head(p) # "mark"
  <2>1. \/ call[c].op = "update" /\ call[c].todo = <<"iterate">>
        \/ call[c].op = "finish" /\ call[c].todo = <<"iterate", "cleanup", "end">>
    BY <1>0, Remaining DEF Stage, Fact
  <2>2. \/ p \in {<<"mark">>, <<"mark", "cleanup", "end">>} /\ h = "mark"
        \/ p \in {<<"complete">>, <<"complete", "cleanup", "end">>} /\ h = "complete"
    <3>1. CASE h = "mark"
      BY <1>10, <2>1, <3>1, Pieces
    <3>2. CASE h = "complete"
      BY <1>10, <2>1, <3>2, Pieces
    <3> QED BY <3>1, <3>2
  <2>3. ASSUME NEW s \in {<<"mark">>, <<"mark", "cleanup", "end">>}
        PROVE  s # <<>> /\ s # <<"store">> /\ s # <<"verdict">> /\ s \notin RefreshStages
    BY DEF RefreshStages
  <2>4. ASSUME NEW s \in {<<"complete">>, <<"complete", "cleanup", "end">>}
        PROVE  /\ s # <<>> /\ s # <<"store">> /\ s # <<"verdict">> /\ s \notin RefreshStages
               /\ s \in OwingStages /\ s \notin DecidedStages /\ s \notin FailedStages /\ Head(s) # "mark"
    BY DEF RefreshStages, OwingStages, DecidedStages, FailedStages
  <2> QED BY <2>2, <2>3, <2>4
<1>12. OthersStay(c) /\ call'[c].todo = p /\ Same(call[c], call'[c])
  BY <1>0, <1>5, <1>10, <1>11, Going
<1>13. Onwards(c)
  BY <1>12 DEF Onwards, Same
<1>14. join[t] \subseteq Done(row) /\ join'[t] = join[t] /\ row'[t].st = "Failed"
  <2>1. row[t].st \notin Waiting
    BY <1>1 DEF Waiting
  <2>2. join[t] \subseteq Done(row) /\ t \in Task \ new
    BY <1>1, <1>8, <2>1, StartedIs DEF Tidy
  <2> QED BY <1>1, <1>6, <2>2
<1>15. Knows(call'[c], row', join')
  <2>1. /\ call'[c].op \in {"finish", "update"} /\ call'[c].task = t /\ call'[c].seen.deps = join'[t]
        /\ call'[c].seen.st = "Failed" /\ DOMAIN call'[c].writes = {} /\ call'[c].todo = p
    BY <1>1, <1>12, <1>14, <1>t DEF Same, Of
  <2>2. row'[t].st = "Failed" /\ row'[t].st \notin Waiting
    BY <1>14 DEF Waiting
  <2>3. PICK n, r2, j2 : n = call'[c] /\ r2 = row' /\ j2 = join'
    OBVIOUS
  <2>4. Knows(n, r2, j2)
    BY <1>11, <2>1, <2>2, <2>3 DEF Knows
  <2> QED BY <2>3, <2>4
<1>16. Known'
  <2>1. \A d \in Caller \ {c} : Pinned(call[d]) => row'[Of(d)].st = row[Of(d)].st
    <3>1. ASSUME NEW d \in Caller, Pinned(call[d]) PROVE Of(d) \in Task /\ row[Of(d)].st \notin Waiting
      BY <3>1 DEF OrderInv, Facts, Fact, Tidy, Known, Knows, Pinned, Of
    <3> QED BY <1>8, <3>1
  <2> QED BY <1>8, <1>12, <1>15, <2>1, OthersKnow DEF Tidy
<1>17. call[c].op = "finish" => call'[c].op = "finish" /\ call'[c].task = call[c].task
  BY <1>12 DEF Same
<1>18. \A u : Judging(u)' => Judging(u)
  BY <1>0, <1>1, <1>12, <1>17, JudgingStays
<1>19. Parted'
  <2>1. ASSUME NEW d \in Caller, call'[d].todo # <<>>, Head(call'[d].todo) = "mark",
               NEW u \in link', kind'[u].step > kind'[call'[d].task].step, call'[d].task \in join'[u]
        PROVE  FALSE
    <3>1. CASE d = c
      <4>1. h = "mark" /\ call'[d].task = t
        BY <1>11, <1>12, <1>t, <2>1, <3>1 DEF Same, Of
      <4>2. t \in Task \ new
        BY <1>1, <1>8 DEF Waiting
      <4>3. kind'[t] = kind[t]
        BY <1>3, <4>2
      <4>4. u \notin new
        <5>1. kind'[u].step \in Nat /\ kind[t].step \in Nat
          <6>1. Kinds'
            BY <1>0, Iterating DEF OrderInv, LoopInv
          <6>2. link' \subseteq Task
            BY <1>3, <1>4
          <6> QED BY <1>0, <1>1, <2>1, <6>1, <6>2 DEF Kinds
        <5> QED BY <1>3, <2>1, <4>1, <4>3, <5>1
      <4>5. u \in link /\ u \in Task \ new /\ kind'[u] = kind[u]
        BY <1>3, <1>4, <2>1, <4>4
      <4> QED BY <1>6, <2>1, <4>1, <4>3, <4>5
    <3>2. CASE d # c
      <4>1. call'[d] = call[d]
        BY <1>12, <3>2 DEF OthersStay
      <4>2. Of(d) \in Task /\ row[Of(d)].st = "Failed"
        BY <2>1, <4>1, GateFailed
      <4>3. Of(d) \in Task \ new /\ kind'[Of(d)] = kind[Of(d)]
        BY <1>3, <1>8, <4>2 DEF Waiting
      <4>4. Of(d) \notin new \cup Done(row)
        BY <4>2, <4>3 DEF Done
      <4>5. u \notin new
        BY <1>3, <2>1, <4>1, <4>4 DEF Of
      <4>6. u \in link /\ u \in Task \ new /\ kind'[u] = kind[u]
        BY <1>3, <1>4, <2>1, <4>5
      <4>7. Of(d) \in join[u]
        BY <1>6, <2>1, <4>1, <4>3, <4>6 DEF Of
      <4> QED BY <2>1, <4>1, <4>3, <4>6, <4>7 DEF Tidy, Parted, Of
    <3> QED BY <3>1, <3>2
  <2> QED BY <2>1 DEF Parted, Of
<1>20. Tidy'
  <2>1. call'[c].op = "update" => call[c].op = "update" /\ call'[c].task = call[c].task
    BY <1>12 DEF Same
  <2> QED BY <1>0, <1>8, <1>9, <1>12, <1>16, <1>17, <1>18, <1>19, <2>1, AddedTidy
<1>21. (Owed => Owed') /\ (Declared /\ Unblocking => Unblocking')
  <2>1. \/ link' \cap new # {}
        \/ UNCHANGED <<link, instance>> /\ \A d \in Caller : Owes(call[d]) => Owes(call'[d])
    <3>1. CASE link' \cap new = {}
      <4>1. link' = link /\ h = "complete"
        BY <1>3, <1>5, <3>1
      <4>2. Owes(call'[c])
        BY <1>0, <1>11, <1>12, <1>t, <4>1 DEF Owes, Same, Of
      <4> QED BY <1>0, <1>12, <4>1, <4>2 DEF OthersStay
    <3> QED BY <3>1
  <2>2. \A d \in Caller : \A u \in Task \ new : Frees(call[d], u) => Frees(call'[d], u)
    <3>1. \A u : ~Frees(call[c], u)
      BY <1>1 DEF Frees
    <3> QED BY <1>12, <3>1 DEF OthersStay
  <2>3. \A u \in new : row'[u].st = "Blocked" => ~(join'[u] \subseteq Done(row))
    <3>1. \A u \in new : u \notin Done(row)
      BY <1>3 DEF Done, NoRow
    <3> QED BY <1>3, <3>1
  <2> QED BY <1>4, <1>6, <1>7, <2>1, <2>2, <2>3, AddedSettles
<1> QED BY <1>20, <1>21 DEF Stays

(* Every step but that of delete_task which deletes the row.               *)
LEMMA StepStays ==
    ASSUME Reviewing, OrderInv, Tidy, breaks \in Nat, [Next]_vars, \A c \in Caller : ~Erase(c)
    PROVE  Stays
<1>1. ASSUME NEW c \in Caller, CallStep(c) PROVE Stays
  <2>1. CASE Rebase(c) \/ Land(c) \/ LandFails(c) \/ Merged(c)
    BY <2>1, LockedStays
  <2> QED BY <1>1, <2>1, RefreshStays, ApplyStays, DispatchNextStays, CheckLoopStays, IterateStays,
             MarkStays, CompletionStays, CleanupStays, UpdateStays, VerdictStays, EndStays,
             DoneStays, PruneStays DEF CallStep
<1>2. ASSUME NEW c \in Caller, BeginCall(c) PROVE Stays
  <2>1. ASSUME NEW t \in Task, BeginDelete(c, t) \/ BeginFinish(c, t) \/ BeginMerge(c, t) PROVE Stays
    BY <2>1, DeleteBegun, FinishBegun, MergeBegun
  <2> QED BY <1>2, <2>1, CreateStays, UpdateBegun DEF BeginCall
<1>3. ASSUME NEW t \in Task, DispatchTask(t) \/ ApproveReview(t) \/ RejectReview(t) PROVE Stays
  BY <1>3, DispatchStays, ApproveStays, RejectStays
<1>4. CASE UNCHANGED vars
  <2>1. UNCHANGED <<row, join, kind, link, running, instance, call, branches>>
    BY <1>4 DEF vars, rowVars, gitVars
  <2> QED BY <2>1, NothingMoves
<1> QED BY <1>1, <1>2, <1>3, <1>4, InstantiateStays, CrashStays DEF Next

LEMMA BreaksGrow ==
    ASSUME breaks \in Nat, [Next]_vars PROVE breaks' \in Nat /\ breaks' >= breaks
<1>1. ASSUME NEW c \in Caller, CallStep(c) PROVE breaks' = breaks \/ breaks' = breaks + 1
  BY <1>1 DEF CallStep, Refresh, Apply, DispatchNext, CheckLoop, CreateIteration, MarkLooped,
     CheckCompletion, Cleanup, StoreUpdate, Erase, WriteVerdict, EndFinish, Rebase, Land, LandFails,
     StoreDone, Prune, Merged, bounds
<1>2. ASSUME NEW c \in Caller, BeginCall(c) PROVE breaks' = breaks
  <2>1. ASSUME NEW t \in Task, BeginDelete(c, t) \/ BeginFinish(c, t) \/ BeginMerge(c, t) PROVE breaks' = breaks
    BY <2>1 DEF BeginDelete, BeginFinish, BeginMerge, bounds
  <2> QED BY <1>2, <2>1 DEF BeginCall, CreateTask, BeginUpdate
<1>3. ASSUME NEW t \in Task, DispatchTask(t) \/ ApproveReview(t) \/ RejectReview(t) PROVE breaks' = breaks
  BY <1>3 DEF DispatchTask, ApproveReview, RejectReview, bounds
<1>4. CASE UNCHANGED vars
  BY <1>4 DEF vars, bounds
<1> QED BY <1>1, <1>2, <1>3, <1>4 DEF Next, Instantiate, Crash, bounds

(* What was deleted stays deleted: no row is inserted under an old number. *)
Gone == made' \in Nat /\ made' >= made /\ \A t \in 1 .. made : row[t] = NoRow => row'[t] = NoRow

LEMMA GoneStays == ASSUME Orderly, OrderInv, [Next]_vars PROVE Gone
<1>0. /\ made \in Nat /\ 1 .. made \subseteq Task /\ made' \in Nat /\ made' >= made
      /\ Tables /\ row = [t \in Task |-> row[t]] /\ Kinds
  <2>1. Kinds /\ LoopCalls /\ IterationsBounded
    BY DEF OrderInv, LoopInv
  <2> QED BY <2>1, TablesStay, MadeAreTasks DEF KindsGrow, OrderInv, Tables
<1>1. CASE row' = row
  BY <1>0, <1>1 DEF Gone
<1>2. ASSUME NEW t, NEW r, Store(t, r) PROVE Gone
  BY <1>0, <1>2 DEF Gone, Store, Exists
<1>3. ASSUME NEW t, NEW s, Exists(t), row' = [row EXCEPT ![t].st = s] PROVE Gone
  BY <1>0, <1>3 DEF Gone, Exists
<1>4. ASSUME NEW t, Dispatchable(t), Start(t) PROVE Gone
  <2>1. Exists(t)
    BY <1>4 DEF Dispatchable, Is, Exists, NoRow
  <2>2. row' = [row EXCEPT ![t].st = "InProgress"]
    BY <1>4 DEF Start
  <2> QED BY <1>3, <2>1, <2>2
<1>5. ASSUME NEW c \in Caller, CreateIteration(c) PROVE Gone
  <2>1. PICK new \in SUBSET Task, m \in Task : Iteration(c, new, m)
    BY <1>5, Iterated
  <2>2. ASSUME NEW u \in 1 .. made, row[u] = NoRow PROVE row'[u] = NoRow
    <3>1. u \in Task \ new
      <4>1. u \in Task /\ ~(u > made)
        BY <1>0
      <4> QED BY <2>1, <4>1 DEF Iteration
    <3>2. u \notin Downstream(Of(c))
      BY <2>2 DEF Downstream, NoRow
    <3> QED BY <2>1, <2>2, <3>1, <3>2 DEF Iteration
  <2> QED BY <1>0, <2>2 DEF Gone
<1>6. ASSUME NEW c \in Caller, CallStep(c) PROVE Gone
  <2>1. CASE Erase(c)
    BY <1>0, <2>1 DEF Erase, Gone
  <2>2. CASE Apply(c) \/ MarkLooped(c) \/ StoreDone(c)
    BY <1>2, <2>2 DEF Apply, MarkLooped, StoreDone
  <2>3. CASE StoreUpdate(c)
    BY <1>1, <1>2, <2>3 DEF StoreUpdate
  <2>4. CASE WriteVerdict(c)
    BY <1>2, <2>4 DEF WriteVerdict
  <2>5. CASE DispatchNext(c)
    BY <1>1, <1>4, <2>5 DEF DispatchNext, rowVars
  <2> QED BY <1>1, <1>5, <1>6, <2>1, <2>2, <2>3, <2>4, <2>5
          DEF CallStep, Refresh, CheckLoop, CheckCompletion, Cleanup, EndFinish, Rebase, Land,
              LandFails, Prune, Merged, rowVars
<1>7. ASSUME NEW c \in Caller, BeginCall(c) PROVE Gone
  <2>1. ASSUME NEW deps, CreateTask(c, deps) PROVE Gone
    <3>1. row' = [row EXCEPT ![made + 1] = [st |-> RefreshBlocked("Planned", deps, Done(row)),
                                            deps |-> deps, complete |-> FALSE]]
      BY <2>1 DEF CreateTask, Insert
    <3>2. \A u \in 1 .. made : u # made + 1
      BY <1>0
    <3> QED BY <1>0, <3>1, <3>2 DEF Gone
  <2>2. ASSUME NEW t \in Task, BeginDelete(c, t) \/ BeginFinish(c, t) \/ BeginMerge(c, t) PROVE Gone
    BY <1>1, <2>2 DEF BeginDelete, BeginFinish, BeginMerge, rowVars
  <2>3. ASSUME NEW t, NEW s, NEW deps, BeginUpdate(c, t, s, deps) PROVE Gone
    BY <1>1, <2>3 DEF BeginUpdate, rowVars
  <2> QED BY <1>7, <2>1, <2>2, <2>3 DEF BeginCall
<1>8. ASSUME NEW t \in Task, DispatchTask(t) \/ ApproveReview(t) \/ RejectReview(t) PROVE Gone
  <2>1. CASE RejectReview(t)
    <3>1. Exists(t) /\ row' = [row EXCEPT ![t].st = "InProgress"]
      BY <2>1 DEF RejectReview, Is, Exists, NoRow
    <3> QED BY <1>3, <3>1
  <2> QED BY <1>1, <1>4, <1>8, <2>1 DEF DispatchTask, ApproveReview, rowVars
<1>9. CASE Instantiate
  <2>1. \A u \in Task : u \notin made + 1 .. made + Len(steps) => row'[u] = row[u]
    BY <1>9 DEF Instantiate
  <2>2. \A u \in 1 .. made : u \notin made + 1 .. made + Len(steps)
    BY <1>0
  <2> QED BY <1>0, <2>1, <2>2 DEF Gone
<1>10. CASE Crash
  <2>1. \A u \in Task : row[u] = NoRow => row'[u] = NoRow
    BY <1>10 DEF Crash, Is, NoRow
  <2> QED BY <1>0, <2>1 DEF Gone
<1>11. CASE UNCHANGED vars
  BY <1>1, <1>11 DEF vars, rowVars
<1> QED BY <1>6, <1>7, <1>8, <1>9, <1>10, <1>11 DEF Next

SettledInv == breaks > 0 \/ (Owed /\ (Declared => Unblocking))
SettleInv == OrderInv /\ breaks \in Nat /\ (Whole => Tidy /\ SettledInv)

LEMMA TidyInitially == Init => Tidy /\ SettledInv /\ breaks \in Nat
<1> SUFFICES ASSUME Init PROVE Tidy /\ SettledInv /\ breaks \in Nat
  OBVIOUS
<1>1. /\ \A c \in Caller : call[c] = Idle
      /\ \A t \in Task : row[t] = NoRow /\ join[t] = {}
      /\ link = {} /\ running = {} /\ branches = {} /\ instance = "none" /\ breaks = 0
  BY DEF Init
<1>2. Agrees /\ Working /\ NoneLooped /\ Unblocking /\ Owed
  <2>1. \A t \in Task : row[t].st = "none" /\ row[t].deps = {}
    BY <1>1 DEF NoRow
  <2> QED BY <1>1, <2>1 DEF Agrees, Working, NoneLooped, Unblocking, Owed
<1>3. Known /\ Ruled /\ Parted
  BY <1>1, IdleKnows DEF Known, Ruled, Parted
<1> QED BY <1>1, <1>2, <1>3 DEF Tidy, SettledInv

LEMMA TidyStays ==
    ASSUME Reviewing, OrderInv, Tidy, SettledInv, breaks \in Nat, [Next]_vars, \A c \in Caller : ~Erase(c)
    PROVE  Tidy' /\ SettledInv'
<1>1. Stays /\ breaks' >= breaks /\ breaks' \in Nat
  BY StepStays, BreaksGrow
<1>2. CASE breaks' > 0
  BY <1>1, <1>2 DEF Stays, SettledInv
<1>3. CASE ~(breaks' > 0)
  <2>1. ~(breaks > 0)
    BY <1>1, <1>3
  <2>2. Declared => Declared'
    BY DEF Declared
  <2> QED BY <1>1, <1>3, <2>1, <2>2 DEF Stays, SettledInv
<1> QED BY <1>2, <1>3

LEMMA SettleStays == Reviewing /\ SettleInv /\ [Next]_vars => SettleInv'
<1> SUFFICES ASSUME Reviewing, SettleInv, [Next]_vars PROVE SettleInv'
  OBVIOUS
<1>1. Orderly /\ OrderInv /\ breaks \in Nat
  BY DEF Reviewing, SettleInv
<1>2. OrderInv' /\ breaks' \in Nat
  BY <1>1, OrderStays, BreaksGrow
<1>3. ASSUME Whole' PROVE Tidy' /\ SettledInv'
  <2>1. Gone /\ made \in Nat
    BY <1>1, GoneStays, MadeAreTasks DEF OrderInv, LoopInv
  <2>3. Whole
    BY <1>3, <2>1 DEF Gone, Whole
  <2>4. \A c \in Caller : ~Erase(c)
    BY <1>1, <1>3, <2>3, EraseEnds DEF SettleInv
  <2> QED BY <1>1, <2>3, <2>4, TidyStays DEF SettleInv
<1> QED BY <1>2, <1>3 DEF SettleInv

(* When no call is under way none owes anything, and none frees a task.    *)
LEMMA QuietIsIdle ==
    ASSUME OrderInv, Quiet
    PROVE  \A c \in Caller : ~Owes(call[c]) /\ \A t : ~Frees(call[c], t)
<1>1. \A c \in Caller : call[c] = Idle
  BY DEF Quiet, Busy
<1>2. Idle.todo = <<>>
  BY DEF Idle
<1>3. <<>> \notin OwingStages \cup RefreshStages \cup ApplyStages
  BY DEF OwingStages, RefreshStages, ApplyStages
<1> QED BY <1>1, <1>2, <1>3 DEF Owes, Frees

LEMMA SettledIs == SettleInv => SettledWhenIdle
<1> SUFFICES ASSUME SettleInv, Quiet, instance = "Running", AllTerminal, ~Disturbed PROVE FALSE
  BY DEF SettledWhenIdle, AllTerminal
<1>1. Whole /\ breaks = 0
  BY DEF Disturbed, Whole, Exists, SettleInv
<1>2. Owed /\ OrderInv
  BY <1>1 DEF SettleInv, SettledInv
<1> QED BY <1>2, QuietIsIdle DEF Owed

(* check_workflow_completion runs wherever a task becomes terminal: when   *)
(* no handler is under way, an instance all of whose tasks are terminal is *)
(* settled, whichever of them was the last and whoever moved it.           *)
THEOREM Settled == ASSUME Reviewing PROVE Spec => []SettledWhenIdle
<1>1. Init => SettleInv
  BY OrderInitially, TidyInitially DEF SettleInv
<1>2. SettleInv /\ [Next]_vars => SettleInv'
  BY SettleStays
<1> QED BY <1>1, <1>2, SettledIs, PTL DEF Spec

(* Where delete_task is not called.                                        *)
NoDelete == \A c \in Caller : call[c].op # "delete"

LEMMA NoDeleteStays ==
    ASSUME "delete" \notin Ops, OrderInv, NoDelete, [Next]_vars
    PROVE  NoDelete' /\ \A c \in Caller : ~Erase(c)
<1>1. /\ Shaped /\ Facts /\ \A c \in Caller : DOMAIN call[c] = Fields
      /\ call = [c \in Caller |-> call[c]] /\ Idle.op # "delete"
  BY IsFields DEF OrderInv, LoopInv, CallsInv, Shaped, Idle
<1>2. ASSUME NEW c \in Caller PROVE ~Erase(c)
  <2>1. SUFFICES ASSUME Erase(c) PROVE FALSE
    OBVIOUS
  <2>2. Stage(c, "erase") /\ Fact(call[c], row, join)
    BY <1>1, <2>1 DEF Erase, Facts
  <2>3. call[c].op = "delete"
    BY <2>2, Remaining DEF Stage, Fact
  <2> QED BY <2>3 DEF NoDelete
<1>3. ASSUME NEW c \in Caller, NEW k, k.op # "delete", call' = [call EXCEPT ![c] = k] PROVE NoDelete'
  BY <1>1, <1>3 DEF NoDelete
<1>4. ASSUME NEW c \in Caller, NEW k, k.op # "delete", call' = [call EXCEPT ![c] = Goes(k)] PROVE NoDelete'
  BY <1>1, <1>3, <1>4 DEF Goes
<1>5. ASSUME NEW c \in Caller, NEW q, Continue(c, q) PROVE NoDelete'
  <2>1. [call[c] EXCEPT !.todo = q].op # "delete"
    BY <1>1 DEF NoDelete, Fields
  <2> QED BY <1>1, <1>4, <1>5, <2>1 DEF Continue
<1>6. ASSUME NEW c \in Caller, Return(c) PROVE NoDelete'
  BY <1>1, <1>3, <1>6 DEF Return
<1>7. ASSUME NEW c \in Caller, NEW o \in Ops, NEW t, NEW q, Begin(c, o, t, q) PROVE NoDelete'
  <2>1. Call(o, t, q).op # "delete"
    BY CallIs
  <2> QED BY <1>3, <1>7, <2>1 DEF Begin
<1>8. ASSUME NEW c \in Caller, CallStep(c) PROVE NoDelete'
  <2>1. ASSUME NEW d \in Caller PROVE call[d].op # "delete"
    BY DEF NoDelete
  <2>2. CASE Refresh(c)
    <3>1. CASE Advance(c)
      BY <1>5, <3>1 DEF Advance
    <3>2. CASE \E w, q : call' = [call EXCEPT ![c].writes = w, ![c].todo = q]
      BY <1>1, <2>1, <3>2 DEF NoDelete, Fields
    <3> QED BY <2>2, <3>1, <3>2 DEF Refresh
  <2>3. CASE Apply(c)
    <3>1. PICK t : call' = [call EXCEPT ![c] = Goes(Applied(call[c], t))]
      BY <1>1, <2>3 DEF Apply
    <3>2. Applied(call[c], t).op # "delete"
      BY <1>1, <2>1 DEF Applied, Fields
    <3> QED BY <1>4, <3>1, <3>2
  <2>4. CASE DispatchNext(c)
    <3>1. call' = [call EXCEPT ![c] = Goes([call[c] EXCEPT !.next = None])]
      BY <1>1, <2>4 DEF DispatchNext
    <3>2. [call[c] EXCEPT !.next = None].op # "delete"
      BY <1>1, <2>1 DEF Fields
    <3> QED BY <1>4, <3>1, <3>2
  <2>5. CASE CheckLoop(c)
    <3>1. CASE \E q : Continue(c, q)
      BY <1>5, <3>1
    <3>2. CASE \E q, s, i : call' = [call EXCEPT ![c].todo = q, ![c].seen = s, ![c].iter = i]
      BY <1>1, <2>1, <3>2 DEF NoDelete, Fields
    <3> QED BY <2>5, <3>1, <3>2 DEF CheckLoop
  <2>6. CASE StoreUpdate(c)
    <3>1. CASE \E s, w, q : call' = [call EXCEPT ![c].seen = s, ![c].writes = w, ![c].todo = q]
      BY <1>1, <2>1, <3>1 DEF NoDelete, Fields
    <3>2. CASE ~Return(c)
      <4>1. PICK w : call' = [call EXCEPT ![c].seen = call[c].writes[Of(c)], ![c].writes = <<>>, ![c].todo = w]
        BY <2>6, <3>2 DEF StoreUpdate
      <4> QED BY <3>1, <4>1
    <3> QED BY <1>6, <3>2
  <2>7. CASE WriteVerdict(c)
    <3>1. PICK s, q : call' = [call EXCEPT ![c].seen = s, ![c].todo = q]
      BY <2>7 DEF WriteVerdict
    <3> QED BY <1>1, <2>1, <3>1 DEF NoDelete, Fields
  <2>8. CASE CreateIteration(c) \/ MarkLooped(c) \/ CheckCompletion(c) \/ Cleanup(c) \/ EndFinish(c)
    BY <1>5, <2>8 DEF CreateIteration, MarkLooped, CheckCompletion, Cleanup, EndFinish, Advance
  <2>9. CASE Rebase(c) \/ Land(c) \/ LandFails(c) \/ StoreDone(c) \/ Prune(c) \/ Merged(c)
    BY <1>5, <1>6, <2>9 DEF Rebase, Land, LandFails, StoreDone, Prune, Merged, GiveUp, Advance
  <2> QED BY <1>2, <1>8, <2>2, <2>3, <2>4, <2>5, <2>6, <2>7, <2>8, <2>9 DEF CallStep
<1>9. ASSUME NEW c \in Caller, BeginCall(c) PROVE NoDelete'
  <2>1. ASSUME NEW t \in Task, BeginDelete(c, t) PROVE NoDelete'
    BY <2>1 DEF BeginDelete, Begin, Free
  <2>2. ASSUME NEW t \in Task, BeginFinish(c, t) PROVE NoDelete'
    BY <1>7, <2>2 DEF BeginFinish, Begin, Free
  <2>3. ASSUME NEW t \in Task, BeginMerge(c, t) PROVE NoDelete'
    <3>1. CASE UNCHANGED call
      BY <3>1 DEF NoDelete
    <3> QED BY <1>7, <2>3, <3>1 DEF BeginMerge, Begin, Free
  <2>4. ASSUME NEW t, NEW st, NEW deps, BeginUpdate(c, t, st, deps) PROVE NoDelete'
    <3>1. PICK w : call' = [call EXCEPT ![c] = [Call("update", t, <<"store">>) EXCEPT !.writes = w]]
      BY <2>4 DEF BeginUpdate
    <3>2. [Call("update", t, <<"store">>) EXCEPT !.writes = w].op = "update"
      BY DEF Call
    <3> QED BY <1>3, <3>1, <3>2
  <2>5. ASSUME NEW deps, CreateTask(c, deps) PROVE NoDelete'
    BY <1>7, <2>5 DEF CreateTask, Begin, Free
  <2> QED BY <1>9, <2>1, <2>2, <2>3, <2>4, <2>5 DEF BeginCall
<1>10. ASSUME Crash PROVE NoDelete'
  <2>1. \A c \in Caller : call'[c] = Idle
    BY <1>10 DEF Crash
  <2> QED BY <1>1, <2>1 DEF NoDelete
<1>11. ASSUME UNCHANGED call PROVE NoDelete'
  <2>1. \A c \in Caller : call[c].op # "delete" /\ call'[c] = call[c]
    BY <1>11 DEF NoDelete
  <2> QED BY <2>1 DEF NoDelete
<1> QED BY <1>2, <1>8, <1>9, <1>10, <1>11
        DEF Next, Instantiate, DispatchTask, ApproveReview, RejectReview, vars

KeptInv == OrderInv /\ breaks \in Nat /\ NoDelete /\ Tidy /\ SettledInv

LEMMA WaitsAre == Declared /\ KeptInv => WaitsCanEnd
<1> SUFFICES ASSUME Declared, KeptInv PROVE WaitsCanEnd
  OBVIOUS
<1>1. OrderInv /\ Agrees /\ NoneLooped /\ Kinds /\ (breaks > 0 \/ Unblocking)
  BY DEF KeptInv, Tidy, SettledInv, OrderInv, LoopInv
<1>2. ASSUME Quiet, NEW t \in Rows, Is(t, "Blocked"), ~Disturbed PROVE \E d \in join[t] : ~Is(d, "Done")
  <2>1. Unblocking /\ t \in Task
    BY <1>1, <1>2 DEF Disturbed, Rows
  <2>2. ~(join[t] \subseteq Done(row)) /\ join[t] \subseteq Task
    BY <1>1, <1>2, <2>1, QuietIsIdle DEF Unblocking, Is, Agrees
  <2> QED BY <2>2 DEF Done, Is
<1>3. NobodyWaitsForLooped
  BY <1>1 DEF NobodyWaitsForLooped, NoneLooped, Is
<1> QED BY <1>2, <1>3 DEF WaitsCanEnd, NoLostUnblock

(* refresh_dependency_states and create_loop_iteration: a task that waits  *)
(* waits for something that can still come, though each refresh works on   *)
(* rows read before, loops redirect what waits, and calls come between.    *)
THEOREM NothingForgotten ==
    ASSUME Reviewing, Declared, "delete" \notin Ops PROVE Spec => []WaitsCanEnd
<1>1. Init => KeptInv
  <2>1. Init => NoDelete
    BY DEF Init, NoDelete, Idle
  <2> QED BY <2>1, OrderInitially, TidyInitially DEF KeptInv
<1>2. KeptInv /\ [Next]_vars => KeptInv'
  <2> SUFFICES ASSUME KeptInv, [Next]_vars PROVE KeptInv'
    OBVIOUS
  <2>1. Orderly /\ OrderInv /\ breaks \in Nat /\ NoDelete /\ Tidy /\ SettledInv
    BY DEF KeptInv, Reviewing
  <2>2. NoDelete' /\ \A c \in Caller : ~Erase(c)
    BY <2>1, NoDeleteStays
  <2> QED BY <2>1, <2>2, OrderStays, BreaksGrow, TidyStays DEF KeptInv
<1>3. KeptInv => WaitsCanEnd
  BY WaitsAre
<1> QED BY <1>1, <1>2, <1>3, PTL DEF Spec
=============================================================================
