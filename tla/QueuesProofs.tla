----------------------------- MODULE QueuesProofs -----------------------------
(***************************************************************************)
(* The three queues, for any number of messages, notifications, payloads   *)
(* and entities.                                                           *)
(*                                                                         *)
(* The outbox keeps the at-least-once promise: OutboxInv adds to the types *)
(* where the ids in hand, delivered and refused may be while the worker    *)
(* goes through a batch, and that the counted attempts really happened.    *)
(*                                                                         *)
(* The marks of notifications are true: NotifierInv adds to MarksAreTrue   *)
(* where the call in progress is, that it is about the last notification   *)
(* saved, and that nobody has marked this one yet.                         *)
(*                                                                         *)
(* The spreadsheet has the newest payloads: SheetsInv adds to it that the  *)
(* rows have them too, and so do those a pass has listed, if nothing has   *)
(* replaced them since.                                                    *)
(***************************************************************************)
EXTENDS Outbox, Notifier, SheetsSync, FiniteSetTheorems, SequenceTheorems,
        WellFoundedInduction, TLAPS

(* The outbox. *)

\* The ids of a batch are in one place: in hand, delivered or given up, refused.
BatchInOrder ==
  /\ worker \in {"idle", "escalate", "dead"} =>
       inHand = {} /\ okIds = {} /\ failIds = {}
  /\ worker = "deliver" => inHand # {}
  /\ worker = "delete" => inHand = {}
  /\ worker = "reschedule" => inHand = {} /\ okIds = {}
  /\ inHand \cap (okIds \cup failIds) = {}
  /\ okIds \cap failIds = {}

\* What is to be deleted may be, and no attempt is counted that was not made.
OnlySettledGo ==
  /\ \A n \in okIds : OutboxPromise!Settled(n)
  /\ \A n \in Ids : attempts[n] <= refused[n]
  /\ \A n \in failIds : /\ attempts[n] + 1 <= refused[n]
                        /\ attempts[n] + 1 < MaxAttempts

OutboxInv == OutboxTypeOK /\ BatchInOrder /\ OnlySettledGo

-----------------------------------------------------------------------------
LEMMA LeastOfNaturals ==
  ASSUME NEW S \in SUBSET Nat, S # {}
  PROVE  /\ Min(S) \in S
         /\ \A n \in S : Min(S) <= n
<1> DEFINE Below == {ss \in Nat \X Nat : ss[1] < ss[2]}
<1>0. IsWellFoundedOn(Below, Nat)
  BY NatLessThanWellFounded, Zenon DEF OpToRel
<1>1. PICK x \in S : \A y \in S : ~ (<<y, x>> \in Below)
  <2> HIDE DEF Below
  <2> QED BY <1>0, WFMin
<1>2. ASSUME NEW y \in S PROVE x <= y
  <2>1. x \in Nat /\ y \in Nat
    OBVIOUS
  <2>2. ~ (y < x)
    BY <1>1, <2>1
  <2> QED BY <2>1, <2>2
<1> QED BY <1>2 DEF Min

LEMMA LesserOfTwo ==
  ASSUME NEW a \in Nat, NEW b \in Nat
  PROVE  Min({a, b}) = IF a <= b THEN a ELSE b
<1>1. \E x \in {a, b} : \A y \in {a, b} : x <= y
  OBVIOUS
<1> QED BY <1>1 DEF Min

\* A batch of messages that are due is not empty.
LEMMA SomeAreDue ==
  ASSUME due \in SUBSET Nat, due # {}
  PROVE  DueBatch \in SUBSET due /\ DueBatch # {}
<1> DEFINE first == Min(due)
<1>1. first \in due /\ \A n \in due : first <= n
  BY LeastOfNaturals
<1> HIDE DEF first
<1>2. \A k \in due : ~ (k < first)
  <2>1. \A k \in due : k \in Nat
    OBVIOUS
  <2> QED BY <1>1, <2>1
<1>3. Cardinality({k \in due : k < first}) = 0
  <2>1. {k \in due : k < first} = {}
    BY <1>2
  <2> QED BY <2>1, FS_EmptySet
<1>4. Cardinality({k \in due : k < first}) < MaxBatch
  BY <1>3, OutboxConstants
<1> QED BY <1>1, <1>4 DEF DueBatch

-----------------------------------------------------------------------------
LEMMA OutboxInvInit == OutboxInit => OutboxInv
BY OutboxConstants
   DEF OutboxInit, OutboxInv, OutboxTypeOK, BatchInOrder, OnlySettledGo, Ids

LEMMA EnqueueKeeps == OutboxInv /\ Enqueue => OutboxInv'
<1> SUFFICES ASSUME OutboxInv, Enqueue PROVE OutboxInv'
  OBVIOUS
<1> USE OutboxConstants
       DEF OutboxInv, OutboxTypeOK, Enqueue
<1>1. OutboxTypeOK'
  OBVIOUS
<1>2. BatchInOrder'
  BY DEF BatchInOrder
<1>3. OnlySettledGo'
  BY DEF OnlySettledGo, OutboxPromise!Settled
<1> QED BY <1>1, <1>2, <1>3

LEMMA FetchKeeps == OutboxInv /\ FetchDueBatch => OutboxInv'
<1> SUFFICES ASSUME OutboxInv, FetchDueBatch PROVE OutboxInv'
  OBVIOUS
<1> USE OutboxConstants DEF OutboxInv, OutboxTypeOK, FetchDueBatch
<1>1. DueBatch \in SUBSET due /\ DueBatch # {}
  BY SomeAreDue
<1>2. OutboxTypeOK'
  BY <1>1
<1>3. BatchInOrder'
  BY <1>1 DEF BatchInOrder
<1>4. OnlySettledGo'
  BY DEF OnlySettledGo, OutboxPromise!Settled
<1> QED BY <1>2, <1>3, <1>4

\* The message tried is one of those in hand, and a refusal counts once.
LEMMA TriedMessage ==
  ASSUME OutboxInv, worker = "deliver"
  PROVE  /\ Min(inHand) \in inHand /\ Min(inHand) \in outbox
         /\ Min(inHand) \in Ids /\ Min(inHand) \in 1 .. enqueued
         /\ Min(inHand) \notin okIds \cup failIds
<1>1. inHand \in SUBSET Nat /\ inHand # {}
  BY OutboxConstants DEF OutboxInv, OutboxTypeOK, BatchInOrder
<1>2. Min(inHand) \in inHand
  BY <1>1, LeastOfNaturals
<1> DEFINE n == Min(inHand)
<1> SUFFICES ASSUME n \in inHand
             PROVE  n \in outbox /\ n \in Ids /\ n \in 1 .. enqueued
                    /\ n \notin okIds \cup failIds
  BY <1>2
<1> HIDE DEF n
<1> QED
  BY OutboxConstants DEF OutboxInv, OutboxTypeOK, BatchInOrder, Ids

LEMMA RefusalCounts ==
  ASSUME OutboxInv, NEW n \in Ids, Refused(n)
  PROVE  /\ refused' \in [Ids -> 0 .. MaxAttempts]
         /\ \A k \in Ids \ {n} : refused'[k] = refused[k]
         /\ refused'[n] >= refused[n]
         /\ refused'[n] >= attempts[n] + 1
         /\ refused'[n] = refused[n] + 1 \/ refused' = refused
<1> USE OutboxConstants
<1>1. /\ refused \in [Ids -> 0 .. MaxAttempts]
      /\ attempts[n] \in 0 .. MaxAttempts - 1
      /\ attempts[n] <= refused[n]
  BY DEF OutboxInv, OutboxTypeOK, OnlySettledGo
<1>2. Min({refused[n] + 1, MaxAttempts}) =
        IF refused[n] + 1 <= MaxAttempts THEN refused[n] + 1 ELSE MaxAttempts
  BY <1>1, LesserOfTwo
<1>3. refused' = [refused EXCEPT ![n] = Min({refused[n] + 1, MaxAttempts})]
  BY DEF Refused
<1>4. refused'[n] = Min({refused[n] + 1, MaxAttempts})
  BY <1>1, <1>3
<1>5. refused[n] + 1 > MaxAttempts => refused[n] = MaxAttempts
  BY <1>1
<1>6. refused[n] + 1 > MaxAttempts => refused' = refused
  BY <1>1, <1>2, <1>3, <1>5
<1> QED BY <1>1, <1>2, <1>3, <1>4, <1>5, <1>6

LEMMA TryKeeps == OutboxInv /\ TryNext => OutboxInv'
<1> SUFFICES ASSUME OutboxInv, TryNext PROVE OutboxInv'
  OBVIOUS
<1> DEFINE n == Min(inHand)
<1> USE OutboxConstants
<1>1. /\ n \in inHand /\ n \in outbox /\ n \in Ids /\ n \in 1 .. enqueued
      /\ n \notin okIds \cup failIds
  BY TriedMessage DEF TryNext
<1>2. /\ inHand' = inHand \ {n}
      /\ worker' = IF inHand = {n} THEN "delete" ELSE "deliver"
      /\ UNCHANGED <<enqueued, outbox, attempts, due>>
  BY DEF TryNext
<1> HIDE DEF n
<1>3. CASE NoHandler(n) \/ Delivered(n)
  <2> USE <1>1, <1>2, <1>3 DEF OutboxInv, NoHandler, Delivered
  <2>1. OutboxTypeOK'
    BY DEF OutboxTypeOK
  <2>2. BatchInOrder'
    BY DEF BatchInOrder, TryNext
  <2>3. OnlySettledGo'
    BY DEF OnlySettledGo, OutboxPromise!Settled
  <2> QED BY <2>1, <2>2, <2>3
<1>4. CASE Refused(n)
  <2>1. /\ refused' \in [Ids -> 0 .. MaxAttempts]
        /\ \A k \in Ids \ {n} : refused'[k] = refused[k]
        /\ refused'[n] >= refused[n] /\ refused'[n] >= attempts[n] + 1
    BY <1>1, <1>4, RefusalCounts
  <2> USE <1>1, <1>2, <2>1 DEF OutboxInv
  <2>2. CASE attempts[n] + 1 >= MaxAttempts
    <3>1. /\ okIds' = okIds \cup {n} /\ deadIds' = deadIds \cup {n}
          /\ UNCHANGED <<failIds, received>>
      BY <1>4, <2>2 DEF Refused
    <3>2. OutboxTypeOK'
      BY <3>1 DEF OutboxTypeOK
    <3>3. BatchInOrder'
      BY <3>1 DEF BatchInOrder, TryNext
    <3>4. refused'[n] >= MaxAttempts
      BY <2>2 DEF OutboxTypeOK
    <3>5. \A k \in okIds : k \in Ids
      BY DEF OutboxTypeOK
    <3>6. \A k \in okIds' : OutboxPromise!Settled(k)'
      BY <3>1, <3>4, <3>5 DEF OnlySettledGo, OutboxPromise!Settled
    <3>7. \A k \in Ids : attempts'[k] <= refused'[k]
      BY DEF OnlySettledGo, OutboxTypeOK
    <3>8. \A k \in failIds : k \in Ids \ {n}
      BY DEF OutboxTypeOK, Ids
    <3>9. OnlySettledGo'
      BY <3>1, <3>6, <3>7, <3>8 DEF OnlySettledGo
    <3> QED BY <3>2, <3>3, <3>9
  <2>3. CASE attempts[n] + 1 < MaxAttempts
    <3>1. /\ failIds' = failIds \cup {n}
          /\ UNCHANGED <<okIds, deadIds, received>>
      BY <1>4, <2>3 DEF Refused, OutboxTypeOK
    <3>2. OutboxTypeOK'
      BY <3>1 DEF OutboxTypeOK
    <3>3. BatchInOrder'
      BY <3>1 DEF BatchInOrder, TryNext
    <3>4. \A k \in okIds \cup failIds : k \in Ids \ {n}
      <4>1. okIds \subseteq Ids /\ failIds \subseteq Ids
        BY DEF OutboxTypeOK, Ids
      <4> QED BY <1>1, <4>1
    <3>5. OnlySettledGo'
      BY <2>3, <3>1, <3>4
         DEF OnlySettledGo, OutboxPromise!Settled, OutboxTypeOK
    <3> QED BY <3>2, <3>3, <3>5
  <2> QED BY <2>2, <2>3 DEF OutboxTypeOK
<1> QED BY <1>3, <1>4 DEF TryNext, n

LEMMA DeleteKeeps == OutboxInv /\ DeleteIds => OutboxInv'
<1> SUFFICES ASSUME OutboxInv, DeleteIds PROVE OutboxInv'
  OBVIOUS
<1> USE OutboxConstants DEF OutboxInv, DeleteIds
<1>1. OutboxTypeOK'
  BY DEF OutboxTypeOK, BatchInOrder
<1>2. BatchInOrder'
  BY DEF BatchInOrder
<1>3. OnlySettledGo'
  BY DEF OnlySettledGo, OutboxPromise!Settled
<1> QED BY <1>1, <1>2, <1>3

\* A refused message that is kept has tries left.
LEMMA FailedHaveTriesLeft ==
  ASSUME OutboxInv
  PROVE  /\ \A n \in failIds : /\ n \in Ids
                                /\ attempts[n] \in Nat
                                /\ attempts[n] + 1 \in 0 .. MaxAttempts - 1
         /\ {n \in failIds : attempts[n] + 1 >= MaxAttempts} = {}
<1>1. \A n \in failIds : n \in Ids
  BY OutboxConstants DEF OutboxInv, OutboxTypeOK, Ids
<1>2. \A n \in failIds : attempts[n] \in 0 .. MaxAttempts - 1
  BY <1>1 DEF OutboxInv, OutboxTypeOK
<1>3. \A n \in failIds : attempts[n] + 1 < MaxAttempts
  BY DEF OutboxInv, OnlySettledGo
<1> QED BY <1>1, <1>2, <1>3, OutboxConstants

LEMMA RescheduleKeeps == OutboxInv /\ RescheduleIds => OutboxInv'
<1> SUFFICES ASSUME OutboxInv, RescheduleIds PROVE OutboxInv'
  OBVIOUS
<1> USE OutboxConstants DEF OutboxInv
<1>1. \A n \in failIds : /\ n \in Ids
                           /\ attempts[n] + 1 \in 0 .. MaxAttempts - 1
  BY FailedHaveTriesLeft
<1>2. {n \in failIds : attempts[n] + 1 >= MaxAttempts} = {}
  BY FailedHaveTriesLeft
<1>3. /\ outbox' = outbox /\ due' = due \ failIds /\ failIds' = {}
      /\ worker' = "escalate"
      /\ attempts' = [n \in Ids |-> IF n \in failIds THEN attempts[n] + 1
                                                     ELSE attempts[n]]
      /\ UNCHANGED <<enqueued, inHand, okIds, deadIds, received, refused>>
  BY <1>2 DEF RescheduleIds
<1>4. attempts' \in [Ids -> 0 .. MaxAttempts - 1]
  BY <1>1, <1>3 DEF OutboxTypeOK
<1>5. OutboxTypeOK'
  BY <1>3, <1>4 DEF OutboxTypeOK
<1>6. BatchInOrder'
  BY <1>3 DEF BatchInOrder, RescheduleIds
<1>7. OnlySettledGo'
  BY <1>1, <1>3 DEF OnlySettledGo, OutboxPromise!Settled, OutboxTypeOK
<1> QED BY <1>5, <1>6, <1>7

LEMMA WorkerKeeps ==
  /\ OutboxInv
  /\ Escalate \/ WorkerDies \/ WorkerStarts \/ (\E n \in Ids : BackoffEnds(n))
  => OutboxInv'
<1> SUFFICES ASSUME OutboxInv,
                    \/ Escalate \/ WorkerDies \/ WorkerStarts
                    \/ \E n \in Ids : BackoffEnds(n)
             PROVE  OutboxInv'
  OBVIOUS
<1> USE OutboxConstants
       DEF OutboxInv, Escalate, WorkerDies, WorkerStarts, BackoffEnds
<1>1. OutboxTypeOK'
  BY DEF OutboxTypeOK
<1>2. BatchInOrder'
  BY DEF BatchInOrder
<1>3. OnlySettledGo'
  BY DEF OnlySettledGo, OutboxPromise!Settled
<1> QED BY <1>1, <1>2, <1>3

LEMMA OutboxInvStep == OutboxInv /\ [OutboxNext]_outboxVars => OutboxInv'
<1>1. OutboxInv /\ UNCHANGED outboxVars => OutboxInv'
  BY DEF outboxVars, OutboxInv, OutboxTypeOK, BatchInOrder, OnlySettledGo,
         OutboxPromise!Settled
<1> QED
  BY <1>1, EnqueueKeeps, FetchKeeps, TryKeeps, DeleteKeeps, RescheduleKeeps,
     WorkerKeeps DEF OutboxNext, WorkerStep

LEMMA OutboxInvAlways == OutboxSpec => []OutboxInv
BY OutboxInvInit, OutboxInvStep, PTL DEF OutboxSpec

-----------------------------------------------------------------------------
\* A delivery or a refusal is one of the promise, or changes nothing in it.
LEMMA TryRefines ==
  ASSUME OutboxInv, TryNext
  PROVE  OutboxPromise!PromiseNext \/ UNCHANGED <<outbox, received, refused>>
<1> DEFINE n == Min(inHand)
<1>1. n \in outbox /\ n \in Ids
  BY TriedMessage DEF TryNext
<1>2. outbox' = outbox
  BY DEF TryNext
<1> HIDE DEF n
<1>3. CASE NoHandler(n)
  BY <1>2, <1>3 DEF NoHandler
<1>4. CASE Delivered(n)
  <2>1. OutboxPromise!Deliver({n})
    BY <1>2, <1>4 DEF Delivered, OutboxPromise!Deliver
  <2> QED BY <1>1, <2>1 DEF OutboxPromise!PromiseNext
<1>5. CASE Refused(n)
  <2>1. received' = received
    BY <1>5 DEF Refused
  <2>2. CASE refused' = refused
    BY <1>2, <2>1, <2>2
  <2>3. CASE refused'[n] = refused[n] + 1
    <3>1. /\ refused \in [Ids -> 0 .. MaxAttempts]
          /\ refused' \in [Ids -> 0 .. MaxAttempts]
          /\ \A k \in Ids \ {n} : refused'[k] = refused[k]
      BY <1>1, <1>5, RefusalCounts DEF OutboxInv, OutboxTypeOK
    <3>2. refused[n] < MaxAttempts
      BY <1>1, <2>3, <3>1, OutboxConstants
    <3>3. refused' = [refused EXCEPT ![n] = refused[n] + 1]
      BY <1>1, <2>3, <3>1
    <3>4. OutboxPromise!Fail(n)
      BY <1>2, <2>1, <3>2, <3>3 DEF OutboxPromise!Fail
    <3> QED BY <1>1, <3>4 DEF OutboxPromise!PromiseNext
  <2> QED BY <1>1, <1>5, <2>2, <2>3, RefusalCounts
<1> QED BY <1>3, <1>4, <1>5 DEF TryNext, n

LEMMA OutboxStepRefines ==
  ASSUME OutboxInv, [OutboxNext]_outboxVars
  PROVE  OutboxPromise!PromiseNext \/ UNCHANGED <<outbox, received, refused>>
<1>1. CASE Enqueue
  <2>1. /\ enqueued + 1 \in Ids
        /\ enqueued + 1 \notin outbox \cup received
    BY <1>1, OutboxConstants DEF Enqueue, OutboxInv, OutboxTypeOK, Ids
  <2>2. OutboxPromise!Accept(enqueued + 1)
    BY <1>1, <2>1 DEF Enqueue, OutboxPromise!Accept
  <2> QED BY <2>1, <2>2 DEF OutboxPromise!PromiseNext
<1>2. CASE TryNext
  BY <1>2, TryRefines
<1>3. CASE DeleteIds
  <2>1. /\ outbox' = outbox \ (okIds \cap outbox)
        /\ UNCHANGED <<received, refused>>
    BY <1>3 DEF DeleteIds
  <2>2. OutboxPromise!Settle(okIds \cap outbox)
    BY <2>1 DEF OutboxInv, OnlySettledGo, OutboxPromise!Settle
  <2> QED BY <2>2 DEF OutboxPromise!PromiseNext
<1>4. CASE RescheduleIds
  <2>1. {n \in failIds : attempts[n] + 1 >= MaxAttempts} = {}
    BY FailedHaveTriesLeft
  <2> QED BY <1>4, <2>1 DEF RescheduleIds
<1>5. CASE \/ FetchDueBatch \/ Escalate \/ WorkerDies \/ WorkerStarts
           \/ \E n \in Ids : BackoffEnds(n)
           \/ UNCHANGED outboxVars
  BY <1>5 DEF FetchDueBatch, Escalate, WorkerDies, WorkerStarts, BackoffEnds,
     outboxVars
<1> QED BY <1>1, <1>2, <1>3, <1>4, <1>5 DEF OutboxNext, WorkerStep

-----------------------------------------------------------------------------
\* The types of the outbox and its worker, for any constants.
THEOREM OutboxTypes == OutboxSpec => []OutboxTypeOK
BY OutboxInvAlways, PTL DEF OutboxInv

\* The outbox and its worker, with crashes anywhere, are an implementation of
\* the at-least-once promise: no message leaves the table that was neither
\* taken nor refused as often as it may be.
THEOREM OutboxKeepsPromise == OutboxSpec => OutboxIsAtLeastOnce
<1>1. OutboxInit => OutboxPromise!PromiseInit
  BY DEF OutboxInit, OutboxPromise!PromiseInit
<1>2. OutboxInv /\ [OutboxNext]_outboxVars
        => [OutboxPromise!PromiseNext]_OutboxPromise!queueVars
  BY OutboxStepRefines DEF OutboxPromise!queueVars
<1> QED
  BY <1>1, <1>2, OutboxInvAlways, PTL
     DEF OutboxSpec, OutboxIsAtLeastOnce, OutboxPromise!PromiseSpec

-----------------------------------------------------------------------------
(* The notifications. *)

CallInProgress ==
  /\ sending # "no" => saved \in critical \ returned
  /\ sending = "markSent" => saved \in telegram
  /\ \A n \in Notes \ returned : mark[n] = "unsent"

NotifierInv == NotifierTypeOK /\ CallInProgress /\ MarksAreTrue

-----------------------------------------------------------------------------
LEMMA NotifierInvInit == NotifierInit => NotifierInv
BY MaxNotesIsNat
   DEF NotifierInit, NotifierInv, NotifierTypeOK, CallInProgress, MarksAreTrue,
       Notes

\* Another notification is saved: what is known of the earlier ones stays.
LEMMA SavingKeeps ==
  NotifierInv /\ (EnqueueNormal \/ SaveCritical) => NotifierInv'
<1> SUFFICES ASSUME NotifierInv, EnqueueNormal \/ SaveCritical
             PROVE  NotifierInv'
  OBVIOUS
<1> USE MaxNotesIsNat DEF NotifierInv, EnqueueNormal, SaveCritical
<1>1. NotifierTypeOK'
  <2>1. saved \in Nat /\ saved' = saved + 1 /\ saved' \in 0 .. MaxNotes
    BY DEF NotifierTypeOK
  <2>2. 1 .. saved' = (1 .. saved) \cup {saved'}
    BY <2>1
  <2>3. critical' \in {critical, critical \cup {saved'}}
    BY <2>1
  <2> QED BY <2>1, <2>2, <2>3 DEF NotifierTypeOK
<1>2. saved + 1 \in Notes \ returned
  BY DEF NotifierTypeOK, Notes
<1>3. CallInProgress'
  BY <1>2 DEF NotifierTypeOK, CallInProgress
<1>4. MarksAreTrue'
  BY <1>2 DEF MarksAreTrue, CallInProgress
<1> QED BY <1>1, <1>3, <1>4

\* The call in progress goes on, or is cut short.
LEMMA CallKeeps ==
  NotifierInv /\ (SendText \/ MarkSent \/ MarkError \/ NotifierDies)
    => NotifierInv'
<1> SUFFICES ASSUME NotifierInv, SendText \/ MarkSent \/ MarkError \/ NotifierDies
             PROVE  NotifierInv'
  OBVIOUS
<1>1. /\ sending # "no" /\ saved \in critical /\ saved \notin returned
      /\ saved \in Notes /\ saved \in 1 .. saved
      /\ critical \in SUBSET Notes
  BY MaxNotesIsNat
     DEF NotifierInv, NotifierTypeOK, CallInProgress, SendText, MarkSent,
         MarkError, NotifierDies, Notes
<1> USE <1>1 DEF NotifierInv
<1>2. CASE SendText \/ NotifierDies
  BY <1>2
     DEF SendText, NotifierDies, NotifierTypeOK, CallInProgress, MarksAreTrue
<1>3. CASE MarkSent \/ MarkError
  <2>1. NotifierTypeOK'
    BY <1>3 DEF MarkSent, MarkError, NotifierTypeOK
  <2>2. /\ UNCHANGED <<saved, critical, telegram>>
        /\ returned' = returned \cup {saved}
        /\ sending' = "no"
        /\ \A n \in Notes \ {saved} : mark'[n] = mark[n]
        /\ \/ sending = "markSent" /\ mark'[saved] = "sent"
           \/ sending = "markError" /\ mark'[saved] = "error"
    BY <1>3 DEF MarkSent, MarkError, NotifierTypeOK
  <2>3. CallInProgress'
    BY <2>2 DEF CallInProgress
  <2>4. MarksAreTrue'
    BY <2>2 DEF CallInProgress, MarksAreTrue
  <2> QED BY <2>1, <2>3, <2>4
<1> QED BY <1>2, <1>3

LEMMA NotifierInvStep ==
  NotifierInv /\ [NotifierNext]_notifierVars => NotifierInv'
<1>1. NotifierInv /\ (Flush \/ UNCHANGED notifierVars) => NotifierInv'
  BY DEF Flush, notifierVars, NotifierInv, NotifierTypeOK, CallInProgress,
         MarksAreTrue
<1> QED BY <1>1, SavingKeeps, CallKeeps DEF NotifierNext

-----------------------------------------------------------------------------
\* However send_critical ends, the table says of a critical notification what
\* is true of it as far as the process can know.
THEOREM MarksStayTrue == NotifierSpec => []MarksAreTrue
<1>1. NotifierInv => MarksAreTrue
  BY DEF NotifierInv
<1> QED BY <1>1, NotifierInvInit, NotifierInvStep, PTL DEF NotifierSpec

-----------------------------------------------------------------------------
(* The spreadsheet. *)

\* An entity has one row, with the last payload enqueued for it.
RowsAreNewest ==
  /\ \A i, j \in DOMAIN queue : queue[i] = queue[j] => i = j
  /\ \A i \in DOMAIN queue :
       waiting[queue[i]] = newest[queue[i]] /\ waiting[queue[i]] # 0

\* So has a pass, but for the entities whose payload was replaced since, and
\* what the API has taken is the first of them.
PassIsNewest ==
  /\ \A i \in DOMAIN pass :
       pass[i][2] = newest[pass[i][1]] \/ pass[i][1] \in overtaken
  /\ answer # "none" => pass # <<>>
  /\ answer = "taken" => applied[Head(pass)[1]] = Head(pass)[2]

SheetsInv == SheetsTypeOK /\ RowsAreNewest /\ PassIsNewest /\ SheetHasTheNewest

-----------------------------------------------------------------------------
\* What RemoveFirst leaves of a sequence without repetitions.
LEMMA WhatRemains ==
  ASSUME NEW S, NEW s \in Seq(S), NEW e,
         \A i, j \in DOMAIN s : s[i] = s[j] => i = j
  PROVE  LET r == RemoveFirst(s, e) IN
           /\ r \in Seq(S)
           /\ \A i, j \in DOMAIN r : r[i] = r[j] => i = j
           /\ \A i \in DOMAIN r : r[i] # e /\ \E j \in DOMAIN s : s[j] = r[i]
           /\ \A j \in DOMAIN s : s[j] # e => \E i \in DOMAIN r : r[i] = s[j]
<1>1. CASE \E i \in 1 .. Len(s) : s[i] = e
  <2> DEFINE I == {i \in 1 .. Len(s) : s[i] = e}
             m == Min(I)
             r == RemoveAt(s, m)
  <2>1. I \in SUBSET Nat /\ I # {}
    BY <1>1
  <2>2. m \in 1 .. Len(s) /\ s[m] = e
    <3>1. m \in I
      BY <2>1, LeastOfNaturals
    <3> QED BY <3>1
  <2>3. RemoveFirst(s, e) = r
    BY <1>1, <2>1 DEF RemoveFirst, SelectInSeq
  <2> HIDE DEF m
  <2>4. /\ r \in Seq(S) /\ Len(r) = Len(s) - 1
        /\ \A i \in 1 .. Len(r) : r[i] = IF i < m THEN s[i] ELSE s[i + 1]
    <3> DEFINE a == SubSeq(s, 1, m - 1)
               b == SubSeq(s, m + 1, Len(s))
    <3>1. /\ a \in Seq(S) /\ Len(a) = m - 1
          /\ \A i \in 1 .. m - 1 : a[i] = s[i]
      BY <2>2, SubSeqProperties
    <3>2. /\ b \in Seq(S) /\ Len(b) = Len(s) - m
          /\ \A i \in 1 .. Len(s) - m : b[i] = s[m + i]
      <4>1. \A i \in 1 .. Len(s) - (m + 1) + 1 : b[i] = s[m + 1 + i - 1]
        BY <2>2, SubSeqProperties
      <4>2. \A i \in 1 .. Len(s) - m : m + 1 + i - 1 = m + i
        BY <2>2
      <4> QED BY <2>2, <4>1, <4>2, SubSeqProperties
    <3> HIDE DEF a, b
    <3>3. /\ a \o b \in Seq(S) /\ Len(a \o b) = Len(s) - 1
          /\ \A i \in 1 .. Len(a \o b) :
               (a \o b)[i] = IF i < m THEN a[i] ELSE b[i - (m - 1)]
      <4>1. /\ a \o b \in Seq(S) /\ Len(a \o b) = Len(a) + Len(b)
            /\ \A i \in 1 .. Len(a) + Len(b) :
                 (a \o b)[i] = IF i <= Len(a) THEN a[i] ELSE b[i - Len(a)]
        <5>1. a \in Seq(S) /\ b \in Seq(S)
          BY <3>1, <3>2
        <5> QED BY <5>1, ConcatProperties
      <4>2. Len(a) = m - 1 /\ Len(a) + Len(b) = Len(s) - 1
        BY <2>2, <3>1, <3>2
      <4>3. \A i \in Nat : i <= m - 1 <=> i < m
        BY <2>2
      <4> QED BY <4>1, <4>2, <4>3
    <3>4. ASSUME NEW i \in 1 .. Len(s) - 1
          PROVE  (a \o b)[i] = IF i < m THEN s[i] ELSE s[i + 1]
      <4>1. CASE i < m
        BY <2>2, <3>1, <3>3, <4>1
      <4>2. CASE ~(i < m)
        <5>1. i - (m - 1) \in 1 .. Len(s) - m /\ m + (i - (m - 1)) = i + 1
          BY <2>2, <4>2
        <5> QED BY <3>2, <3>3, <4>2, <5>1
      <4> QED BY <4>1, <4>2
    <3>5. r = a \o b
      BY DEF RemoveAt, a, b
    <3> QED BY <3>3, <3>4, <3>5
  <2> HIDE DEF r
  <2>8. \A n \in DOMAIN r : n \in Nat /\ n \in DOMAIN s /\ n + 1 \in DOMAIN s
    BY <2>2, <2>4
  <2>9. \A n \in DOMAIN r : r[n] = IF n < m THEN s[n] ELSE s[n + 1]
    BY <2>4
  <2>5. ASSUME NEW i \in DOMAIN r, NEW j \in DOMAIN r, r[i] = r[j]
        PROVE  i = j
    <3>3. CASE i < m /\ j < m
      BY <2>5, <2>8, <2>9, <3>3
    <3>4. CASE i < m /\ ~(j < m)
      BY <2>2, <2>5, <2>8, <2>9, <3>4
    <3>5. CASE ~(i < m) /\ j < m
      BY <2>2, <2>5, <2>8, <2>9, <3>5
    <3>6. CASE ~(i < m) /\ ~(j < m)
      BY <2>5, <2>8, <2>9, <3>6
    <3> QED BY <3>3, <3>4, <3>5, <3>6
  <2>6. ASSUME NEW i \in DOMAIN r
        PROVE  r[i] # e /\ \E j \in DOMAIN s : s[j] = r[i]
    <3>1. PICK j \in {i, i + 1} : j \in DOMAIN s /\ j # m /\ r[i] = s[j]
      BY <2>2, <2>8, <2>9
    <3> QED BY <2>2, <3>1
  <2>7. ASSUME NEW j \in DOMAIN s, s[j] # e PROVE \E i \in DOMAIN r : r[i] = s[j]
    <3>1. CASE j < m
      BY <2>2, <2>4, <3>1
    <3>2. CASE m < j
      <4>1. j - 1 \in DOMAIN r /\ r[j - 1] = s[j]
        BY <2>2, <2>4, <3>2
      <4> QED BY <4>1
    <3> QED BY <2>2, <2>7, <3>1, <3>2
  <2> QED BY <2>3, <2>4, <2>5, <2>6, <2>7
<1>2. CASE ~ \E i \in 1 .. Len(s) : s[i] = e
  BY <1>2 DEF RemoveFirst
<1> QED BY <1>1, <1>2

LEMMA SheetsInvInit == SheetsInit => SheetsInv
BY SheetsConstants
   DEF SheetsInit, SheetsInv, SheetsTypeOK, RowsAreNewest, PassIsNewest,
       SheetHasTheNewest, Queued, Modes

LEMMA EnqueueSyncKeeps ==
  SheetsInv /\ (\E k \in Entities : EnqueueSync(k)) => SheetsInv'
<1> SUFFICES ASSUME SheetsInv, NEW k \in Entities, EnqueueSync(k)
             PROVE  SheetsInv'
  OBVIOUS
<1> USE SheetsConstants DEF SheetsInv
<1>1. /\ modes' \in Seq(Modes) /\ Len(modes') = Len(modes) + 1
      /\ Len(modes') <= MaxPayloads
  BY DEF EnqueueSync, SheetsTypeOK
<1>2. /\ newest' = [newest EXCEPT ![k] = Len(modes')]
      /\ waiting' = [waiting EXCEPT ![k] = Len(modes')]
      /\ newest'[k] = Len(modes') /\ waiting'[k] = Len(modes')
      /\ \A e \in Entities \ {k} :
           newest'[e] = newest[e] /\ waiting'[e] = waiting[e]
      /\ UNCHANGED <<pass, applied, answer, monthSheet, up>>
  BY DEF EnqueueSync, SheetsTypeOK
<1>3. /\ queue' \in Seq(Entities)
      /\ \A i, j \in DOMAIN queue' : queue'[i] = queue'[j] => i = j
      /\ \A i \in DOMAIN queue' :
           queue'[i] = k \/ \E j \in DOMAIN queue : queue[j] = queue'[i]
      /\ \A j \in DOMAIN queue : \E i \in DOMAIN queue' : queue'[i] = queue[j]
      /\ \E i \in DOMAIN queue' : queue'[i] = k
  <2>1. CASE Queued(k)
    BY <2>1 DEF EnqueueSync, SheetsTypeOK, RowsAreNewest, Queued
  <2>2. CASE ~Queued(k)
    <3>1. /\ queue' \in Seq(Entities) /\ Len(queue') = Len(queue) + 1
          /\ queue'[Len(queue) + 1] = k
          /\ \A i \in 1 .. Len(queue) : queue'[i] = queue[i]
      BY <2>2 DEF EnqueueSync, SheetsTypeOK
    <3>2. \A i \in 1 .. Len(queue) + 1 :
            i \in 1 .. Len(queue) \/ i = Len(queue) + 1
      <4>1. Len(queue) \in Nat
        BY DEF SheetsTypeOK
      <4> QED BY <4>1
    <3>3. \A i \in 1 .. Len(queue) : queue[i] # k
      BY <2>2 DEF Queued, SheetsTypeOK
    <3>4. \A i, j \in 1 .. Len(queue) : queue[i] = queue[j] => i = j
      <4>1. DOMAIN queue = 1 .. Len(queue)
        BY DEF SheetsTypeOK
      <4> QED BY <4>1 DEF RowsAreNewest
    <3>5. DOMAIN queue' = 1 .. Len(queue) + 1 /\ DOMAIN queue = 1 .. Len(queue)
          /\ Len(queue) + 1 \in 1 .. Len(queue) + 1
          /\ \A i \in 1 .. Len(queue) : i \in 1 .. Len(queue) + 1
      BY <3>1 DEF SheetsTypeOK
    <3> QED BY <3>1, <3>2, <3>3, <3>4, <3>5
  <2> QED BY <2>1, <2>2
<1>4. /\ overtaken' \subseteq Entities
      /\ \A e \in Entities \ {k} : e \in overtaken' <=> e \in overtaken
      /\ \A i \in DOMAIN pass : pass[i][1] = k => k \in overtaken'
  BY DEF EnqueueSync, SheetsTypeOK
<1>5. SheetsTypeOK'
  <2>1. /\ Len(modes) \in Nat /\ Len(modes') \in Nat
        /\ Len(modes') = Len(modes) + 1
    BY <1>1 DEF SheetsTypeOK
  <2>2. /\ 0 .. Len(modes) \subseteq 0 .. Len(modes')
        /\ 1 .. Len(modes) \subseteq 1 .. Len(modes')
        /\ Len(modes') \in 0 .. Len(modes')
    BY <2>1
  <2> HIDE SheetsConstants
  <2>3. /\ waiting' \in [Entities -> 0 .. Len(modes')]
        /\ newest' \in [Entities -> 0 .. Len(modes')]
        /\ applied' \in [Entities -> 0 .. Len(modes')]
    BY <1>2, <2>2 DEF SheetsTypeOK
  <2>4. pass' \in Seq(Entities \X (1 .. Len(modes')))
    <3>1. /\ pass \in Seq(Entities \X (1 .. Len(modes)))
          /\ Entities \X (1 .. Len(modes))
               \subseteq Entities \X (1 .. Len(modes'))
      BY <2>2 DEF SheetsTypeOK
    <3>2. \A i \in 1 .. Len(pass) : pass[i] \in Entities \X (1 .. Len(modes'))
      BY <3>1
    <3>3. pass \in Seq(Entities \X (1 .. Len(modes')))
      BY <3>1, <3>2
    <3> QED BY <1>2, <3>3
  <2> QED BY <1>1, <1>2, <1>3, <1>4, <2>3, <2>4 DEF SheetsTypeOK
<1>6. RowsAreNewest'
  <2>1. \A j \in DOMAIN queue : queue[j] \in Entities
    BY DEF SheetsTypeOK
  <2>2. Len(modes') # 0
    BY <1>1 DEF SheetsTypeOK
  <2>3. \A i \in DOMAIN queue' :
          waiting'[queue'[i]] = newest'[queue'[i]] /\ waiting'[queue'[i]] # 0
    BY <1>2, <1>3, <2>1, <2>2 DEF RowsAreNewest
  <2> QED BY <1>3, <2>3 DEF RowsAreNewest
<1>7. PassIsNewest'
  <2>1. \A i \in DOMAIN pass : pass[i][1] \in Entities
    BY DEF SheetsTypeOK
  <2> QED BY <1>2, <1>4, <2>1 DEF PassIsNewest
<1>8. SheetHasTheNewest'
  BY <1>2, <1>3, <1>4 DEF SheetHasTheNewest, Queued
<1> QED BY <1>5, <1>6, <1>7, <1>8

LEMMA ListPendingKeeps == SheetsInv /\ ListPending => SheetsInv'
<1> SUFFICES ASSUME SheetsInv, ListPending PROVE SheetsInv'
  OBVIOUS
<1> USE SheetsConstants DEF SheetsInv
<1> DEFINE n == IF Len(queue) < PassLimit THEN Len(queue) ELSE PassLimit
<1>1. /\ pass' = [i \in 1 .. n |-> <<queue[i], waiting[queue[i]]>>]
      /\ overtaken' = overtaken \ {queue[i] : i \in 1 .. n}
      /\ UNCHANGED <<modes, queue, waiting, newest, applied, answer, monthSheet,
                     up>>
      /\ pass = <<>>
  BY DEF ListPending
<1>2. n \in Nat /\ \A i \in 1 .. n : i \in DOMAIN queue
  BY DEF SheetsTypeOK
<1>3. answer = "none"
  BY <1>1 DEF PassIsNewest
<1> HIDE DEF n
<1>4. \A i \in 1 .. n : /\ queue[i] \in Entities
                        /\ waiting[queue[i]] = newest[queue[i]]
                        /\ waiting[queue[i]] \in 1 .. Len(modes)
  <2>1. \A k \in Entities : waiting[k] \in 0 .. Len(modes)
    BY DEF SheetsTypeOK
  <2>2. \A i \in 1 .. n : queue[i] \in Entities
    BY <1>2 DEF SheetsTypeOK
  <2>3. \A i \in 1 .. n :
          waiting[queue[i]] = newest[queue[i]] /\ waiting[queue[i]] # 0
    BY <1>2 DEF RowsAreNewest
  <2>4. Len(modes) \in Nat
    BY DEF SheetsTypeOK
  <2> QED BY <2>1, <2>2, <2>3, <2>4
<1>5. SheetsTypeOK'
  <2>1. pass' \in Seq(Entities \X (1 .. Len(modes)))
    BY <1>1, <1>2, <1>4
  <2> QED BY <1>1, <2>1 DEF SheetsTypeOK
<1>6. RowsAreNewest'
  BY <1>1 DEF RowsAreNewest
<1>7. PassIsNewest'
  BY <1>1, <1>2, <1>3, <1>4 DEF PassIsNewest
<1>8. SheetHasTheNewest'
  BY <1>1, <1>2 DEF SheetHasTheNewest, Queued
<1> QED BY <1>5, <1>6, <1>7, <1>8

\* Where the payload that is tried goes.
LEMMA TriedPayload ==
  ASSUME SheetsInv, pass # <<>>
  PROVE  /\ Head(pass) = pass[1] /\ 1 \in DOMAIN pass
         /\ Head(pass)[1] \in Entities
         /\ Head(pass)[2] \in 1 .. Len(modes)
         /\ \/ Head(pass)[2] = newest[Head(pass)[1]]
            \/ Head(pass)[1] \in overtaken
<1>1. Head(pass) = pass[1] /\ 1 \in DOMAIN pass
  BY DEF SheetsInv, SheetsTypeOK
<1>2. pass[1] \in Entities \X (1 .. Len(modes))
  BY <1>1 DEF SheetsInv, SheetsTypeOK
<1> QED BY <1>1, <1>2 DEF SheetsInv, PassIsNewest

LEMMA ApplyKeeps == SheetsInv /\ (ApplyPayload \/ ApplyFails) => SheetsInv'
<1> SUFFICES ASSUME SheetsInv, ApplyPayload \/ ApplyFails PROVE SheetsInv'
  OBVIOUS
<1> DEFINE k == Head(pass)[1]
           p == Head(pass)[2]
<1>1. /\ k \in Entities /\ p \in 1 .. Len(modes)
      /\ p = newest[k] \/ k \in overtaken
      /\ pass # <<>>
  BY TriedPayload DEF ApplyPayload, ApplyFails
<1>2. /\ UNCHANGED <<modes, queue, waiting, newest, pass, overtaken, monthSheet,
                     up>>
      /\ \/ applied' = [applied EXCEPT ![k] = p]
         \/ answer' # "taken" /\ applied' = applied
      /\ answer' \in {"taken", "refused"}
  BY DEF ApplyPayload, ApplyFails, Reaches
<1>3. Head(pass)[1] = k /\ Head(pass)[2] = p
  OBVIOUS
<1> HIDE DEF k, p
<1> USE DEF SheetsInv
<1>4. SheetsTypeOK'
  <2>1. 1 .. Len(modes) \subseteq 0 .. Len(modes)
    BY DEF SheetsTypeOK
  <2>2. applied' \in [Entities -> 0 .. Len(modes)]
    BY <1>1, <1>2, <2>1 DEF SheetsTypeOK
  <2> QED BY <1>2, <2>2 DEF SheetsTypeOK
<1>5. RowsAreNewest'
  BY <1>2 DEF RowsAreNewest
<1>6. /\ answer' = "taken" => applied'[k] = p
      /\ \A e \in Entities \ {k} : applied'[e] = applied[e]
      /\ applied'[k] \in {applied[k], p}
  BY <1>1, <1>2 DEF SheetsTypeOK
<1>7. PassIsNewest'
  BY <1>1, <1>2, <1>3, <1>6 DEF PassIsNewest
<1>8. SheetHasTheNewest'
  BY <1>1, <1>2, <1>6 DEF SheetHasTheNewest, Queued
<1> QED BY <1>4, <1>5, <1>7, <1>8

LEMMA MarkAttemptKeeps == SheetsInv /\ MarkAttempt => SheetsInv'
<1> SUFFICES ASSUME SheetsInv, MarkAttempt PROVE SheetsInv'
  OBVIOUS
<1> USE DEF SheetsInv
<1> DEFINE k == Head(pass)[1]
           p == Head(pass)[2]
<1>1. /\ pass # <<>> /\ answer \in {"taken", "refused"}
      /\ pass' = Tail(pass) /\ answer' = "none"
      /\ UNCHANGED <<modes, newest, applied, overtaken, monthSheet, up>>
      /\ answer # "taken" => UNCHANGED <<queue, waiting>>
      /\ answer = "taken" => /\ queue' = RemoveFirst(queue, k)
                             /\ waiting' = [waiting EXCEPT ![k] = 0]
  BY DEF MarkAttempt, RowGoes, PassIsNewest, SheetsTypeOK
<1>2. /\ k \in Entities /\ (p = newest[k] \/ k \in overtaken)
      /\ answer = "taken" => applied[k] = p
  BY <1>1, TriedPayload DEF PassIsNewest
<1> HIDE DEF k, p
<1>3. /\ pass' \in Seq(Entities \X (1 .. Len(modes)))
      /\ \A i \in DOMAIN pass' : i + 1 \in DOMAIN pass /\ pass'[i] = pass[i + 1]
  BY <1>1 DEF SheetsTypeOK
<1>4. PassIsNewest'
  BY <1>1, <1>3 DEF PassIsNewest
<1>5. CASE answer # "taken"
  <2>1. UNCHANGED <<queue, waiting>>
    BY <1>1, <1>5
  <2>2. SheetsTypeOK'
    BY <1>1, <1>3, <2>1 DEF SheetsTypeOK
  <2>3. RowsAreNewest' /\ SheetHasTheNewest'
    BY <1>1, <2>1 DEF RowsAreNewest, SheetHasTheNewest, Queued
  <2> QED BY <1>4, <2>2, <2>3
<1>6. CASE answer = "taken"
  <2>1. /\ queue' \in Seq(Entities)
        /\ \A i, j \in DOMAIN queue' : queue'[i] = queue'[j] => i = j
        /\ \A i \in DOMAIN queue' :
             queue'[i] # k /\ \E j \in DOMAIN queue : queue[j] = queue'[i]
        /\ \A j \in DOMAIN queue :
             queue[j] # k => \E i \in DOMAIN queue' : queue'[i] = queue[j]
    <3>1. /\ queue \in Seq(Entities)
          /\ \A i, j \in DOMAIN queue : queue[i] = queue[j] => i = j
      BY DEF SheetsTypeOK, RowsAreNewest
    <3>2. queue' = RemoveFirst(queue, k)
      BY <1>1, <1>6
    <3> QED BY <3>1, <3>2, WhatRemains
  <2>2. /\ waiting' \in [Entities -> 0 .. Len(modes)]
        /\ \A e \in Entities \ {k} : waiting'[e] = waiting[e]
    <3>1. 0 \in 0 .. Len(modes)
      BY DEF SheetsTypeOK
    <3>2. waiting \in [Entities -> 0 .. Len(modes)]
      BY DEF SheetsTypeOK
    <3> QED BY <1>1, <1>2, <1>6, <3>1, <3>2
  <2>3. SheetsTypeOK'
    BY <1>1, <1>3, <2>1, <2>2 DEF SheetsTypeOK
  <2>4. RowsAreNewest'
    <3>1. \A j \in DOMAIN queue : queue[j] \in Entities
      BY DEF SheetsTypeOK
    <3> QED BY <1>1, <2>1, <2>2, <3>1 DEF RowsAreNewest
  <2>5. SheetHasTheNewest'
    <3> SUFFICES ASSUME NEW e \in Entities, ~Queued(e)'
                 PROVE  applied[e] = newest[e] \/ e \in overtaken
      BY <1>1 DEF SheetHasTheNewest
    <3>1. e = k \/ ~Queued(e)
      BY <2>1 DEF Queued
    <3> QED BY <1>2, <1>6, <3>1 DEF SheetHasTheNewest
  <2> QED BY <1>4, <2>3, <2>4, <2>5
<1> QED BY <1>5, <1>6

LEMMA SheetsInvStep == SheetsInv /\ [SheetsNext]_sheetsVars => SheetsInv'
<1>1. ASSUME SheetsInv,
             PassDies \/ SheetsStart \/ EnsureMonthSheet \/ UNCHANGED sheetsVars
      PROVE  SheetsInv'
  <2>1. /\ UNCHANGED <<modes, queue, waiting, newest, applied, overtaken>>
        /\ \/ pass' = <<>> /\ answer' = "none"
           \/ UNCHANGED <<pass, answer>>
        /\ monthSheet' \in {monthSheet, "bare", "headed"}
        /\ up' \in {up, TRUE, FALSE}
    BY <1>1 DEF PassDies, SheetsStart, EnsureMonthSheet, sheetsVars
  <2>2. SheetsTypeOK'
    <3>1. pass' \in Seq(Entities \X (1 .. Len(modes)))
      <4>1. pass \in Seq(Entities \X (1 .. Len(modes))) /\ modes' = modes
        BY <1>1, <2>1 DEF SheetsInv, SheetsTypeOK
      <4>2. CASE pass' = <<>>
        BY <2>1, <4>2
      <4> QED BY <2>1, <4>1, <4>2
    <3>2. up' \in BOOLEAN /\ answer' \in {"none", "taken", "refused"}
          /\ monthSheet' \in {"absent", "bare", "headed"}
      BY <1>1, <2>1 DEF SheetsInv, SheetsTypeOK
    <3> QED BY <1>1, <2>1, <3>1, <3>2 DEF SheetsInv, SheetsTypeOK
  <2>3. PassIsNewest'
    BY <1>1, <2>1 DEF SheetsInv, PassIsNewest
  <2>4. RowsAreNewest' /\ SheetHasTheNewest'
    BY <1>1, <2>1 DEF SheetsInv, RowsAreNewest, SheetHasTheNewest, Queued
  <2> QED BY <2>2, <2>3, <2>4 DEF SheetsInv
<1> QED
  BY <1>1, EnqueueSyncKeeps, ListPendingKeeps, ApplyKeeps, MarkAttemptKeeps
     DEF SheetsNext

LEMMA SheetsInvAlways == SheetsSpec => []SheetsInv
BY SheetsInvInit, SheetsInvStep, PTL DEF SheetsSpec

-----------------------------------------------------------------------------
\* Wherever the process dies and whatever the API loses, an entity whose row is
\* gone has its newest payload in the sheet, unless that one replaced another
\* while a pass was holding it.
THEOREM SheetKeepsUp == SheetsSpec => []SheetHasTheNewest
BY SheetsInvAlways, PTL DEF SheetsInv
=============================================================================
