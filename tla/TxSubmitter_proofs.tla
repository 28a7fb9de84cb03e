------------------------- MODULE TxSubmitter_proofs -------------------------
(***************************************************************************)
(* The executor's queue: writeTail chains exactly the calls that have not  *)
(* returned, each once, and only the first of them is past the guard.      *)
(* These lemmas say that each thing a caller or the submitter does to the  *)
(* queue keeps it so.                                                      *)
(***************************************************************************)
EXTENDS TxSubmitter, TLAPS

InQueue == {"queued"} \cup InSection

Chained(o) == \E i \in 1 .. Len(writeQueue) : writeQueue[i] = o

QueueOK ==
    /\ \A i, j \in 1 .. Len(writeQueue) : writeQueue[i] = writeQueue[j] => i = j
    /\ \A o \in Ops : Chained(o) <=> wpc[o] \in InQueue
    /\ \A o \in Ops : wpc[o] \in InSection => Running(o)

\* Past the guard, no other transaction is live.
SectionAlone == \A o, p \in Ops : (wpc[o] \in InSection /\ Live(p)) => p = o

\* What a step that concerns o does to the calls, the transactions and the
\* latches of every other operation.
OthersKept(o) ==
    \A p \in Ops \ {o} :
        /\ wpc'[p] = wpc[p] /\ chain'[p] = chain[p]
        /\ sends'[p] = sends[p] /\ expired'[p] = expired[p]
        /\ p \in unknown => p \in unknown'
        /\ latchTx = p => latchTx' = p \/ wpc[o] \in InSection
        /\ wpc[p] = "lost" /\ LostBroadcast \in unknown => LostBroadcast \in unknown'

\* The running call is the first of the queue.
LEMMA RunningIsFirst ==
    ASSUME SubmitterTypeOK, NEW o
    PROVE  Running(o) <=> 1 \in 1 .. Len(writeQueue) /\ writeQueue[1] = o
BY DEF SubmitterTypeOK, Running

\* What is left of the queue when its head returns.
LEMMA TailTyped ==
    ASSUME SubmitterTypeOK, NEW o, Running(o)
    PROVE  Tail(writeQueue) \in Seq(Ops)
BY DEF SubmitterTypeOK, Running

\* Past the guard there is one call at most.
LEMMA OneInSection ==
    ASSUME SubmitterTypeOK, QueueOK, NEW o \in Ops, NEW p \in Ops,
           wpc[o] \in InSection, wpc[p] \in InSection
    PROVE  o = p
BY RunningIsFirst DEF QueueOK

\* A call joins the queue.
LEMMA EnqueueKeepsQueue ==
    ASSUME SubmitterTypeOK, QueueOK, NEW o \in Ops, wpc[o] = "idle",
           wpc' = [wpc EXCEPT ![o] = "queued"],
           writeQueue' = Append(writeQueue, o)
    PROVE  QueueOK'
<1>0. writeQueue \in Seq(Ops) /\ Len(writeQueue) \in Nat /\ wpc \in [Ops -> CallState]
  BY DEF SubmitterTypeOK
<1>1. /\ Len(writeQueue') = Len(writeQueue) + 1
      /\ \A i \in 1 .. Len(writeQueue) : writeQueue'[i] = writeQueue[i]
      /\ writeQueue'[Len(writeQueue) + 1] = o
  BY <1>0
<1>2. ~Chained(o)
  BY DEF QueueOK, InQueue, InSection
<1>3. \A p \in Ops : Chained(p)' <=> p = o \/ Chained(p)
  BY <1>0, <1>1 DEF Chained
<1>4. \A i, j \in 1 .. Len(writeQueue') : writeQueue'[i] = writeQueue'[j] => i = j
  BY <1>0, <1>1, <1>2 DEF QueueOK, Chained
<1>5. \A p \in Ops : Chained(p)' <=> wpc'[p] \in InQueue
  BY <1>0, <1>3 DEF QueueOK, InQueue
<1>6. ASSUME NEW p \in Ops, wpc'[p] \in InSection PROVE Running(p)'
  <2>1. wpc[p] \in InSection /\ Running(p)
    BY <1>0, <1>6 DEF QueueOK, InSection
  <2> QED
    BY <1>0, <1>1, <2>1 DEF Running
<1> QED
  BY <1>4, <1>5, <1>6 DEF QueueOK

\* The first call returns, and the next becomes the first.
LEMMA ReturnKeepsQueue ==
    ASSUME SubmitterTypeOK, QueueOK, NEW o \in Ops, Running(o), wpc[o] \in InQueue,
           NEW s \in Returned, Return(o, s)
    PROVE  QueueOK'
<1>0. writeQueue \in Seq(Ops) /\ Len(writeQueue) \in Nat /\ wpc \in [Ops -> CallState]
  BY DEF SubmitterTypeOK
<1>1. /\ 1 \in 1 .. Len(writeQueue) /\ writeQueue[1] = o
      /\ Len(writeQueue') = Len(writeQueue) - 1
      /\ \A i \in 1 .. Len(writeQueue') : writeQueue'[i] = writeQueue[i + 1]
  BY <1>0, RunningIsFirst DEF Return
<1>2. /\ \A i \in 1 .. Len(writeQueue) : writeQueue[i] = o => i = 1
      /\ \A i, j \in 1 .. Len(writeQueue) : writeQueue[i] = writeQueue[j] => i = j
  BY <1>0, <1>1 DEF QueueOK
<1>3. ASSUME NEW p \in Ops PROVE Chained(p)' <=> p # o /\ Chained(p)
  <2>1. ASSUME p # o, Chained(p) PROVE Chained(p)'
    <3>1. PICK i \in 1 .. Len(writeQueue) : writeQueue[i] = p
      BY <2>1 DEF Chained
    <3>2. i # 1 /\ i - 1 \in 1 .. Len(writeQueue') /\ writeQueue'[i - 1] = p
      BY <1>0, <1>1, <2>1, <3>1
    <3> QED
      BY <3>2 DEF Chained
  <2>2. ASSUME Chained(p)' PROVE p # o /\ Chained(p)
    <3>1. PICK i \in 1 .. Len(writeQueue') : writeQueue'[i] = p
      BY <2>2 DEF Chained
    <3>2. i + 1 \in 1 .. Len(writeQueue) /\ writeQueue[i + 1] = p /\ i + 1 # 1
      BY <1>0, <1>1, <3>1
    <3> QED
      BY <1>2, <3>2 DEF Chained
  <2> QED
    BY <2>1, <2>2
<1>4. \A i, j \in 1 .. Len(writeQueue') : writeQueue'[i] = writeQueue'[j] => i = j
  BY <1>0, <1>1, <1>2
<1>5. /\ wpc'[o] = s /\ s \notin InQueue /\ s \notin InSection
      /\ \A p \in Ops : p # o => wpc'[p] = wpc[p]
  BY <1>0 DEF Return, Returned, InQueue, InSection
<1>6. \A p \in Ops : Chained(p)' <=> wpc'[p] \in InQueue
  BY <1>3, <1>5 DEF QueueOK
<1>7. \A p \in Ops : wpc'[p] \notin InSection
  <2> SUFFICES ASSUME NEW p \in Ops, wpc'[p] \in InSection PROVE FALSE
    OBVIOUS
  <2>1. p # o /\ wpc[p] \in InSection
    BY <1>5
  <2>2. Running(p)
    BY <2>1 DEF QueueOK
  <2> QED
    BY <1>1, <2>1, <2>2, RunningIsFirst
<1> QED
  BY <1>4, <1>6, <1>7 DEF QueueOK

\* The first call goes on, past the guard.
LEMMA AdvanceKeepsQueue ==
    ASSUME SubmitterTypeOK, QueueOK, NEW o \in Ops, Running(o), wpc[o] \in InQueue,
           NEW s \in InSection, wpc' = [wpc EXCEPT ![o] = s], UNCHANGED writeQueue
    PROVE  QueueOK'
<1>1. /\ wpc'[o] = s
      /\ \A p \in Ops : p # o => wpc'[p] = wpc[p]
  BY DEF SubmitterTypeOK
<1>2. \A p \in Ops : Chained(p)' <=> Chained(p)
  BY DEF Chained
<1> QED
  BY <1>1, <1>2 DEF QueueOK, InQueue, Running

\* A returned call is handled, outside the queue.
LEMMA HandledKeepsQueue ==
    ASSUME SubmitterTypeOK, QueueOK, NEW o \in Ops, wpc[o] \in Returned,
           wpc' = [wpc EXCEPT ![o] = "idle"], UNCHANGED writeQueue
    PROVE  QueueOK'
<1>1. /\ wpc'[o] = "idle"
      /\ \A p \in Ops : p # o => wpc'[p] = wpc[p]
  BY DEF SubmitterTypeOK
<1>2. \A p \in Ops : Chained(p)' <=> Chained(p)
  BY DEF Chained
<1> QED
  BY <1>1, <1>2 DEF QueueOK, InQueue, InSection, Returned, Running

\* A step that leaves the calls and the queue alone leaves them in order.
LEMMA SameQueue ==
    ASSUME QueueOK, UNCHANGED <<wpc, writeQueue>>
    PROVE  QueueOK'
BY DEF QueueOK, Chained, Running
=============================================================================
