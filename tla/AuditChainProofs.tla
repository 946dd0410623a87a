-------------------------- MODULE AuditChainProofs --------------------------
(***************************************************************************)
(* Machine-checked theorems about AuditChain, for every set of threads,    *)
(* loggers and events, and every combination of faults.                    *)
(***************************************************************************)
EXTENDS AuditChain, FiniteSetTheorems, TLAPS

LEMMA HashType ==
  ASSUME NEW r \in AuditRecordType, NEW d \in Digests
  PROVE  /\ BodyOf(r) \in Bodies
         /\ HashRecord(BodyOf(r), d) \in Digests
BY DEF AuditRecordType, Bodies, Digests, BodyOf, HashRecord

LEMMA TypeStep == TypeOK /\ [Next]_vars => TypeOK'
<1> SUFFICES ASSUME TypeOK, [Next]_vars PROVE TypeOK'
  OBVIOUS
<1> USE ConstantsOK DEF TypeOK, Publishing
<1>1. ASSUME NEW l \in Loggers, ListKeys(l) PROVE TypeOK'
  <2>1. ListedKeys \subseteq Nat
    BY DEF ListedKeys
  <2>2. Genesis \in Digests
    BY DEF Genesis, Digests
  <2> QED
    BY <1>1, <2>1, <2>2 DEF ListKeys, storeVars, threadVars
<1>2. ASSUME NEW l \in Loggers, ReadTail(l) PROVE TypeOK'
  <2>1. tail[l] \in DOMAIN objects =>
          /\ objects[tail[l]].record_hash \in Digests
          /\ objects[tail[l]].sequence + 1 \in Nat
    BY DEF AuditRecordType
  <2> QED
    BY <1>2, <2>1 DEF ReadTail, ResumeFrom, storeVars, threadVars
<1>3. ASSUME NEW t \in Threads, NEW l \in Loggers, NEW e \in Events,
             Call(t, l, e)
      PROVE  TypeOK'
  <2>1. [sequence |-> seq[l], event |-> e,
         prev_hash |-> Genesis, record_hash |-> Genesis] \in AuditRecordType
    BY DEF AuditRecordType, Genesis, Digests
  <2> QED
    BY <1>3, <2>1 DEF Call, storeVars, loggerVars
<1>4. ASSUME NEW t \in Threads, HashBody(t) PROVE TypeOK'
  <2>1. rec[t] \in AuditRecordType /\ head[using[t]] \in Digests
    BY <1>4 DEF HashBody
  <2>2. [rec[t] EXCEPT !.record_hash =
           HashRecord(BodyOf(rec[t]), head[using[t]])] \in AuditRecordType
    BY <2>1, HashType DEF AuditRecordType
  <2> QED
    BY <1>4, <2>2 DEF HashBody, storeVars, loggerVars
<1>5. ASSUME NEW t \in Threads, LinkPrev(t) PROVE TypeOK'
  <2>1. rec[t] \in AuditRecordType /\ head[using[t]] \in Digests
    BY <1>5 DEF LinkPrev
  <2>2. [rec[t] EXCEPT !.prev_hash = head[using[t]]] \in AuditRecordType
    BY <2>1 DEF AuditRecordType
  <2> QED
    BY <1>5, <2>2 DEF LinkPrev, storeVars, loggerVars
<1>6. ASSUME NEW t \in Threads, pc[t] # "idle"
      PROVE  /\ rec[t] \in AuditRecordType
             /\ rec[t].sequence \in Nat
             /\ using[t] \in Loggers
  BY <1>6 DEF AuditRecordType
<1>7. ASSUME NEW t \in Threads, CreateKey(t) PROVE TypeOK'
  <2>1. CASE KeyTaken(t)
    BY <1>7, <2>1, ZenonT(30) DEF CreateKey, Raise, EndCall, storeVars, loggerVars
  <2>2. CASE ~KeyTaken(t)
    <3>1. rec[t].sequence \in Nat /\ rec[t] # None /\ using[t] # None
      BY <1>6, <1>7 DEF CreateKey
    <3> QED
      BY <1>7, <2>2, <3>1 DEF CreateKey, Raise, EndCall, storeVars, loggerVars
  <2> QED
    BY <2>1, <2>2
<1>8. ASSUME NEW t \in Threads, StoreObject(t), pc[t] # "idle"
      PROVE  /\ keys' \subseteq Nat
             /\ DOMAIN objects' \subseteq keys'
             /\ \A k \in DOMAIN objects' : objects'[k] \in AuditRecordType
  BY <1>6, <1>8 DEF StoreObject
<1>9. ASSUME NEW t \in Threads, WriteObject(t) \/ PutObject(t) PROVE TypeOK'
  BY <1>8, <1>9 DEF WriteObject, PutObject, loggerVars
<1>10. ASSUME NEW t \in Threads, WriteFails(t) PROVE TypeOK'
  BY <1>10 DEF WriteFails, Raise, EndCall, storeVars, loggerVars
<1>11. ASSUME NEW t \in Threads, HeadObject(t) PROVE TypeOK'
  BY <1>11, ZenonT(30) DEF HeadObject, Raise, EndCall, storeVars, loggerVars
<1>12. ASSUME NEW t \in Threads, UploadFails(t) PROVE TypeOK'
  BY <1>8, <1>12 DEF UploadFails, EndCall, storeVars, loggerVars
<1>13. ASSUME NEW t \in Threads, AdvanceHead(t) PROVE TypeOK'
  <2>1. rec[t].record_hash \in Digests
    BY <1>6, <1>13 DEF AdvanceHead, AuditRecordType
  <2> QED
    BY <1>13, <2>1 DEF AdvanceHead, storeVars
<1>14. ASSUME NEW t \in Threads, CountRecord(t) PROVE TypeOK'
  BY <1>6, <1>14 DEF CountRecord, EndCall, storeVars
<1>15. ASSUME NEW l \in Loggers, Stop(l) \/ Crash(l) PROVE TypeOK'
  <2>1. Genesis \in Digests
    BY DEF Genesis, Digests
  <2>2. CASE Stop(l)
    BY <2>1, <2>2 DEF Stop, Forget, storeVars, threadVars
  <2>3. CASE Crash(l)
    BY <2>1, <2>3 DEF Crash, Forget, UsersOf, storeVars
  <2> QED
    BY <1>15, <2>2, <2>3
<1>16. CASE UNCHANGED vars
  BY <1>16 DEF vars, storeVars, loggerVars, threadVars
<1> QED
  BY <1>1, <1>2, <1>3, <1>4, <1>5, <1>7, <1>9, <1>10, <1>11, <1>12, <1>13,
     <1>14, <1>15, <1>16 DEF Next, AppendStep, LoggerStep

(* No thread ever uses a logger or a record it does not have, on either    *)
(* store and under every fault.                                            *)
THEOREM TypeCorrect == Spec => []TypeOK
<1>1. Init => TypeOK
  BY ConstantsOK DEF Init, TypeOK, Publishing, Digests, Genesis
<1> QED
  BY <1>1, TypeStep, PTL DEF Spec

-----------------------------------------------------------------------------
(* The inductive invariant of the local store.  The properties of          *)
(* AuditChain speak of published records only; what keeps them true is     *)
(* what an unfinished call knows, so the invariant follows a record        *)
(* through every step of append.                                           *)

PrevDigest(k) == IF k = 0 THEN Genesis ELSE objects[k - 1].record_hash

WrittenBelow(n) == \A j \in 0..(n - 1) : j \in DOMAIN objects

(* Below any existing key everything is written: only the newest key can   *)
(* be torn.                                                                *)
Contiguous == \A k \in keys : WrittenBelow(k)

Linked ==
  \A k \in DOMAIN objects :
    objects[k].sequence = k /\ Sound(objects[k], PrevDigest(k))

LoggerInv(l) ==
  /\ lstate[l] = "opening" => tail[l] \in keys
  /\ lstate[l] = "open" => WrittenBelow(seq[l])
  /\ lstate[l] = "open" /\ seq[l] \notin keys => head[l] = PrevDigest(seq[l])

(* What a call in progress knows of its record, as long as no other writer *)
(* has taken its number.                                                   *)
CallInv(t) ==
  /\ lstate[using[t]] = "open"
  /\ rec[t].sequence <= seq[using[t]]
  /\ pc[t] = "link" /\ rec[t].sequence \notin keys =>
       rec[t].record_hash = HashRecord(BodyOf(rec[t]), PrevDigest(rec[t].sequence))
  /\ pc[t] = "put" /\ rec[t].sequence \notin keys =>
       Sound(rec[t], PrevDigest(rec[t].sequence))
  /\ pc[t] = "write" =>
       /\ rec[t].sequence \in Torn
       /\ Sound(rec[t], PrevDigest(rec[t].sequence))
  /\ pc[t] \in Publishing =>
       /\ rec[t].sequence \in DOMAIN objects
       /\ objects[rec[t].sequence] = rec[t]
       /\ rec[t].sequence = seq[using[t]]
  /\ pc[t] = "count" => head[using[t]] = rec[t].record_hash
  /\ pc[t] = "upload" =>
       /\ Backend = "s3"
       /\ rec[t].sequence \notin keys
       /\ Sound(rec[t], PrevDigest(rec[t].sequence))

(* One call at most created any given key.                                 *)
OneOwner ==
  \A t, u \in Threads :
    /\ pc[t] \in Owning /\ pc[u] \in Owning
    /\ rec[t].sequence = rec[u].sequence
    => t = u

IInv ==
  /\ TypeOK
  /\ Contiguous
  /\ Linked
  /\ \A l \in Loggers : LoggerInv(l)
  /\ \A t \in Threads : pc[t] # "idle" => CallInv(t)
  /\ OneOwner
  /\ AckedDurable

(***************************************************************************)
(* Frame lemmas: what a step leaves alone it does not disturb.             *)
(***************************************************************************)
LEMMA StoreFrame ==
  ASSUME IInv, UNCHANGED storeVars
  PROVE  /\ Contiguous' /\ Linked'
         /\ \A k \in Nat : PrevDigest(k)' = PrevDigest(k)
         /\ \A k \in Nat : WrittenBelow(k)' = WrittenBelow(k)
BY DEF IInv, storeVars, Contiguous, Linked, PrevDigest, WrittenBelow

LEMMA CallFrame ==
  ASSUME IInv, UNCHANGED storeVars,
         NEW t \in Threads, pc[t] # "idle",
         pc'[t] = pc[t], rec'[t] = rec[t], using'[t] = using[t],
         lstate'[using[t]] = lstate[using[t]],
         seq'[using[t]] = seq[using[t]],
         head'[using[t]] = head[using[t]]
  PROVE  CallInv(t)'
BY DEF IInv, CallInv, storeVars, Torn, PrevDigest

LEMMA LoggerFrame ==
  ASSUME IInv, UNCHANGED storeVars,
         NEW l \in Loggers,
         lstate'[l] = lstate[l], seq'[l] = seq[l],
         head'[l] = head[l], tail'[l] = tail[l]
  PROVE  LoggerInv(l)'
BY DEF IInv, LoggerInv, storeVars, PrevDigest, WrittenBelow

(* A record whose number has not been written yet carries its logger's     *)
(* current number, and everything below it is written.                     *)
LEMMA PendingIsNext ==
  ASSUME IInv, NEW t \in Threads, pc[t] # "idle",
         rec[t].sequence \notin DOMAIN objects
  PROVE  /\ using[t] \in Loggers /\ rec[t] \in AuditRecordType
         /\ rec[t].sequence \in Nat
         /\ rec[t].sequence = seq[using[t]]
         /\ WrittenBelow(rec[t].sequence)
<1>1. using[t] \in Loggers /\ rec[t] \in AuditRecordType
  BY DEF IInv, TypeOK
<1>2. rec[t].sequence \in Nat /\ seq[using[t]] \in Nat
  BY <1>1 DEF IInv, TypeOK, AuditRecordType
<1>3. WrittenBelow(seq[using[t]]) /\ rec[t].sequence <= seq[using[t]]
  BY <1>1 DEF IInv, CallInv, LoggerInv
<1> QED
  BY <1>1, <1>2, <1>3 DEF WrittenBelow

LEMMA CallersOpen ==
  ASSUME IInv, NEW t \in Threads, NEW l \in Loggers, using[t] = l
  PROVE  pc[t] # "idle" /\ lstate[l] = "open"
BY ConstantsOK DEF IInv, TypeOK, CallInv

-----------------------------------------------------------------------------
(* Preservation, action by action.                                         *)

LEMMA ListKeysStep ==
  ASSUME IInv, TypeOK', NEW l \in Loggers, ListKeys(l)
  PROVE  IInv'
<1>1. UNCHANGED <<storeVars, threadVars, acked>>
  BY DEF ListKeys
<1>2. \A m \in Loggers \ {l} :
        /\ lstate'[m] = lstate[m] /\ tail'[m] = tail[m]
        /\ head'[m] = head[m] /\ seq'[m] = seq[m]
  BY DEF ListKeys, IInv, TypeOK
<1>3. lstate[l] # "open"
  BY DEF ListKeys
<1>4. LoggerInv(l)'
  <2>1. ListedKeys \subseteq keys
    BY DEF ListedKeys
  <2>2. CASE lstate'[l] = "open"
    <3>1. seq'[l] = 0 /\ head'[l] = Genesis
      BY DEF ListKeys, IInv, TypeOK
    <3> QED
      BY <2>2, <3>1 DEF LoggerInv, WrittenBelow, PrevDigest
  <2>3. CASE lstate'[l] = "opening"
    <3>1. tail'[l] \in ListedKeys
      BY <2>3 DEF ListKeys, IInv, TypeOK
    <3> QED
      BY <1>1, <2>1, <2>3, <3>1 DEF LoggerInv, storeVars
  <2>4. lstate'[l] \in {"open", "opening"}
    BY DEF ListKeys, IInv, TypeOK
  <2> QED
    BY <2>2, <2>3, <2>4
<1>5. \A m \in Loggers : LoggerInv(m)'
  BY <1>1, <1>2, <1>4, LoggerFrame
<1>6. ASSUME NEW t \in Threads, pc'[t] # "idle" PROVE CallInv(t)'
  <2>1. using[t] \in Loggers \ {l}
    BY <1>1, <1>3, <1>6, CallersOpen DEF IInv, TypeOK, threadVars
  <2> QED
    BY <1>1, <1>2, <1>6, <2>1, CallFrame DEF threadVars
<1>7. OneOwner' /\ AckedDurable'
  BY <1>1 DEF IInv, OneOwner, AckedDurable, threadVars, storeVars
<1> QED
  BY <1>1, <1>5, <1>6, <1>7, StoreFrame DEF IInv

LEMMA ReadTailStep ==
  ASSUME IInv, TypeOK', NEW l \in Loggers, ReadTail(l)
  PROVE  IInv'
<1>1. UNCHANGED <<storeVars, threadVars, acked>>
  BY DEF ReadTail
<1>2. \A m \in Loggers \ {l} :
        /\ lstate'[m] = lstate[m] /\ tail'[m] = tail[m]
        /\ head'[m] = head[m] /\ seq'[m] = seq[m]
  BY DEF ReadTail, ResumeFrom, IInv, TypeOK
<1>3. lstate[l] # "open"
  BY DEF ReadTail
<1>4. LoggerInv(l)'
  <2>1. CASE tail[l] \in DOMAIN objects
    <3>1. /\ tail[l] \in keys /\ tail[l] \in Nat
          /\ objects[tail[l]].sequence = tail[l]
      BY <2>1 DEF IInv, LoggerInv, ReadTail, TypeOK, Linked
    <3>2. WrittenBelow(tail[l] + 1)
      BY <2>1, <3>1 DEF IInv, Contiguous, WrittenBelow
    <3>3. /\ lstate'[l] = "open"
          /\ head'[l] = objects[tail[l]].record_hash
          /\ seq'[l] = tail[l] + 1
      BY <2>1, <3>1 DEF ReadTail, ResumeFrom, IInv, TypeOK
    <3>4. PrevDigest(tail[l] + 1) = objects[tail[l]].record_hash
      BY <3>1 DEF PrevDigest
    <3> QED
      BY <1>1, <3>1, <3>2, <3>3, <3>4, StoreFrame DEF LoggerInv
  <2>2. CASE tail[l] \notin DOMAIN objects
    BY <2>2 DEF ReadTail, IInv, TypeOK, LoggerInv
  <2> QED
    BY <2>1, <2>2
<1>5. \A m \in Loggers : LoggerInv(m)'
  BY <1>1, <1>2, <1>4, LoggerFrame
<1>6. ASSUME NEW t \in Threads, pc'[t] # "idle" PROVE CallInv(t)'
  <2>1. using[t] \in Loggers \ {l}
    BY <1>1, <1>3, <1>6, CallersOpen DEF IInv, TypeOK, threadVars
  <2> QED
    BY <1>1, <1>2, <1>6, <2>1, CallFrame DEF threadVars
<1>7. OneOwner' /\ AckedDurable'
  BY <1>1 DEF IInv, OneOwner, AckedDurable, threadVars, storeVars
<1> QED
  BY <1>1, <1>5, <1>6, <1>7, StoreFrame DEF IInv

LEMMA CallStep ==
  ASSUME IInv, TypeOK', NEW t \in Threads, NEW l \in Loggers, NEW e \in Events,
         Call(t, l, e)
  PROVE  IInv'
<1>1. UNCHANGED <<storeVars, loggerVars, acked>>
  BY DEF Call
<1>2. \A u \in Threads \ {t} :
        pc'[u] = pc[u] /\ using'[u] = using[u] /\ rec'[u] = rec[u]
  BY DEF Call, IInv, TypeOK
<1>3. /\ pc'[t] = "hash" /\ using'[t] = l
      /\ rec'[t].sequence = seq[l]
  BY DEF Call, IInv, TypeOK
<1>4. \A m \in Loggers : LoggerInv(m)'
  BY <1>1, LoggerFrame DEF loggerVars
<1>5. CallInv(t)'
  BY <1>1, <1>3 DEF Call, CallInv, loggerVars, storeVars, Publishing, IInv, TypeOK
<1>6. \A u \in Threads \ {t} : pc'[u] # "idle" => CallInv(u)'
  BY <1>1, <1>2, CallFrame DEF loggerVars
<1>7. OneOwner' /\ AckedDurable'
  BY <1>1, <1>2, <1>3 DEF IInv, OneOwner, AckedDurable, storeVars, Owning, Publishing
<1> QED
  BY <1>1, <1>4, <1>5, <1>6, <1>7, StoreFrame DEF IInv

LEMMA HashBodyStep ==
  ASSUME IInv, TypeOK', NEW t \in Threads, HashBody(t)
  PROVE  IInv'
<1>1. UNCHANGED <<storeVars, loggerVars, using, acked>>
  BY DEF HashBody
<1>2. \A u \in Threads \ {t} : pc'[u] = pc[u] /\ rec'[u] = rec[u]
  BY DEF HashBody, IInv, TypeOK
<1>3. rec[t] \in AuditRecordType /\ pc[t] # "idle" /\ using[t] \in Loggers
  BY DEF HashBody, IInv, TypeOK
<1>4. /\ pc'[t] = "link"
      /\ rec'[t].sequence = rec[t].sequence
      /\ BodyOf(rec'[t]) = BodyOf(rec[t])
      /\ rec'[t].record_hash = HashRecord(BodyOf(rec[t]), head[using[t]])
  BY <1>3 DEF HashBody, IInv, TypeOK, AuditRecordType, BodyOf
<1>5. rec[t].sequence \notin keys =>
        head[using[t]] = PrevDigest(rec[t].sequence)
  BY <1>3, PendingIsNext DEF IInv, LoggerInv, CallInv, TypeOK
<1>6. CallInv(t)'
  <2>1. PrevDigest(rec[t].sequence)' = PrevDigest(rec[t].sequence)
    BY <1>1, <1>4 DEF PrevDigest, storeVars
  <2> QED
    BY <1>1, <1>3, <1>4, <1>5, <2>1 DEF CallInv, IInv, loggerVars, storeVars,
       Publishing, PrevDigest
<1>7. \A m \in Loggers : LoggerInv(m)'
  BY <1>1, LoggerFrame DEF loggerVars
<1>8. \A u \in Threads \ {t} : pc'[u] # "idle" => CallInv(u)'
  BY <1>1, <1>2, CallFrame DEF loggerVars
<1>9. OneOwner' /\ AckedDurable'
  BY <1>1, <1>2, <1>4 DEF IInv, OneOwner, AckedDurable, storeVars, Owning, Publishing
<1> QED
  BY <1>1, <1>6, <1>7, <1>8, <1>9, StoreFrame DEF IInv

LEMMA LinkPrevStep ==
  ASSUME IInv, TypeOK', NEW t \in Threads, LinkPrev(t)
  PROVE  IInv'
<1>1. UNCHANGED <<storeVars, loggerVars, using, acked>>
  BY DEF LinkPrev
<1>2. \A u \in Threads \ {t} : pc'[u] = pc[u] /\ rec'[u] = rec[u]
  BY DEF LinkPrev, IInv, TypeOK
<1>3. rec[t] \in AuditRecordType /\ pc[t] # "idle" /\ using[t] \in Loggers
  BY DEF LinkPrev, IInv, TypeOK
<1>4. /\ pc'[t] = "put"
      /\ rec'[t].sequence = rec[t].sequence
      /\ BodyOf(rec'[t]) = BodyOf(rec[t])
      /\ rec'[t].record_hash = rec[t].record_hash
      /\ rec'[t].prev_hash = head[using[t]]
  BY <1>3 DEF LinkPrev, IInv, TypeOK, AuditRecordType, BodyOf
<1>5. rec[t].sequence \notin keys =>
        /\ head[using[t]] = PrevDigest(rec[t].sequence)
        /\ rec[t].record_hash =
             HashRecord(BodyOf(rec[t]), PrevDigest(rec[t].sequence))
  BY <1>3, PendingIsNext DEF IInv, LoggerInv, CallInv, TypeOK, LinkPrev
<1>6. CallInv(t)'
  <2>1. PrevDigest(rec[t].sequence)' = PrevDigest(rec[t].sequence)
    BY <1>1, <1>4 DEF PrevDigest, storeVars
  <2> QED
    BY <1>1, <1>3, <1>4, <1>5, <2>1 DEF CallInv, IInv, loggerVars, storeVars,
       Publishing, PrevDigest, Sound
<1>7. \A m \in Loggers : LoggerInv(m)'
  BY <1>1, LoggerFrame DEF loggerVars
<1>8. \A u \in Threads \ {t} : pc'[u] # "idle" => CallInv(u)'
  BY <1>1, <1>2, CallFrame DEF loggerVars
<1>9. OneOwner' /\ AckedDurable'
  BY <1>1, <1>2, <1>4 DEF IInv, OneOwner, AckedDurable, storeVars, Owning, Publishing
<1> QED
  BY <1>1, <1>6, <1>7, <1>8, <1>9, StoreFrame DEF IInv

(* A call that ends by an exception leaves store and logger as they were.  *)
LEMMA RaiseStep ==
  ASSUME IInv, TypeOK', NEW t \in Threads, Raise(t)
  PROVE  IInv'
<1>1. UNCHANGED <<storeVars, loggerVars, acked>>
  BY DEF Raise
<1>2. \A u \in Threads \ {t} :
        pc'[u] = pc[u] /\ rec'[u] = rec[u] /\ using'[u] = using[u]
  BY DEF Raise, EndCall, IInv, TypeOK
<1>3. pc'[t] = "idle"
  BY DEF Raise, EndCall, IInv, TypeOK
<1>4. \A m \in Loggers : LoggerInv(m)'
  BY <1>1, LoggerFrame DEF loggerVars
<1>5. \A u \in Threads : pc'[u] # "idle" => CallInv(u)'
  BY <1>1, <1>2, <1>3, CallFrame DEF loggerVars
<1>6. OneOwner' /\ AckedDurable'
  BY <1>1, <1>2, <1>3 DEF IInv, OneOwner, AckedDurable, storeVars, Owning, Publishing
<1> QED
  BY <1>1, <1>4, <1>5, <1>6, StoreFrame DEF IInv

(* Creating the key is where two calls for the same number meet: the one   *)
(* that creates it finds nothing changed since it was next in line.        *)
LEMMA CreateKeyStep ==
  ASSUME IInv, TypeOK', NEW t \in Threads, CreateKey(t)
  PROVE  IInv'
<1>1. CASE KeyTaken(t)
  BY <1>1, RaiseStep DEF CreateKey
<1>2. CASE ~KeyTaken(t)
  <2> DEFINE n == rec[t].sequence
  <2>1. /\ UNCHANGED <<objects, loggerVars, using, rec, acked>>
        /\ keys' = keys \cup {n}
        /\ n \notin keys
    BY <1>2 DEF CreateKey, KeyTaken, Raise
  <2>2. /\ pc[t] = "put" /\ pc'[t] = "write"
        /\ \A u \in Threads \ {t} : pc'[u] = pc[u]
    BY <1>2 DEF CreateKey, IInv, TypeOK
  <2>3. /\ n \notin DOMAIN objects /\ n \in Nat /\ WrittenBelow(n)
        /\ Sound(rec[t], PrevDigest(n))
    BY <2>1, <2>2, PendingIsNext DEF IInv, TypeOK, CallInv
  <2>4. Contiguous'
    BY <2>1, <2>3 DEF IInv, Contiguous, WrittenBelow
  <2>5. Linked'
    BY <2>1 DEF IInv, Linked, PrevDigest
  <2>6. \A m \in Loggers : LoggerInv(m)'
    BY <2>1 DEF IInv, LoggerInv, WrittenBelow, PrevDigest, loggerVars
  <2>7. CallInv(t)'
    BY <2>1, <2>2, <2>3 DEF IInv, CallInv, loggerVars, Torn, PrevDigest, Publishing
  <2>8. \A u \in Threads \ {t} : pc'[u] # "idle" => CallInv(u)'
    <3>1. Backend # "s3"
      BY DEF CreateKey
    <3> QED
      BY <2>1, <2>2, <3>1 DEF IInv, CallInv, loggerVars, Torn, PrevDigest
  <2>9. \A u \in Threads : pc[u] \in Owning => rec[u].sequence \in keys
    BY DEF IInv, CallInv, Owning, Publishing, Torn, TypeOK
  <2>10. OneOwner'
    BY <2>1, <2>2, <2>9 DEF IInv, OneOwner, Owning
  <2>11. AckedDurable'
    BY <2>1 DEF IInv, AckedDurable
  <2> QED
    BY <2>4, <2>5, <2>6, <2>7, <2>8, <2>10, <2>11 DEF IInv
<1> QED
  BY <1>1, <1>2

LEMMA WriteObjectStep ==
  ASSUME IInv, TypeOK', NEW t \in Threads, WriteObject(t)
  PROVE  IInv'
<1> DEFINE n == rec[t].sequence
<1>1. /\ UNCHANGED <<loggerVars, using, rec, acked>>
      /\ pc[t] = "write" /\ pc'[t] = "advance"
      /\ \A u \in Threads \ {t} : pc'[u] = pc[u]
  BY DEF WriteObject, IInv, TypeOK
<1>2. /\ n \in Torn /\ Sound(rec[t], PrevDigest(n))
      /\ n \in Nat /\ WrittenBelow(n) /\ n = seq[using[t]]
      /\ using[t] \in Loggers
  BY <1>1, PendingIsNext DEF IInv, CallInv, Torn
<1>3. /\ keys' = keys
      /\ DOMAIN objects' = DOMAIN objects \cup {n}
      /\ objects'[n] = rec[t]
      /\ \A k \in DOMAIN objects : objects'[k] = objects[k]
      /\ n \notin DOMAIN objects
  BY <1>2 DEF WriteObject, StoreObject, Torn
<1>4. \A k \in Nat : WrittenBelow(k) =>
        WrittenBelow(k)' /\ PrevDigest(k)' = PrevDigest(k)
  BY <1>3 DEF WrittenBelow, PrevDigest
<1>5. Contiguous'
  BY <1>3, <1>4 DEF IInv, Contiguous, TypeOK
<1>6. Linked'
  <2>1. ASSUME NEW k \in DOMAIN objects
        PROVE  /\ objects'[k].sequence = k
               /\ Sound(objects'[k], PrevDigest(k))
               /\ PrevDigest(k)' = PrevDigest(k)
    <3>1. k \in Nat /\ WrittenBelow(k)
      BY DEF IInv, TypeOK, Contiguous
    <3> QED
      BY <1>3, <1>4, <3>1 DEF IInv, Linked
  <2>2. ASSUME NEW k, k = n
        PROVE  /\ objects'[k].sequence = k
               /\ Sound(objects'[k], PrevDigest(k))
               /\ PrevDigest(k)' = PrevDigest(k)
    BY <1>2, <1>3, <1>4, <2>2
  <2>3. \A k \in DOMAIN objects' :
          /\ objects'[k].sequence = k
          /\ Sound(objects'[k], PrevDigest(k))
          /\ PrevDigest(k)' = PrevDigest(k)
    BY <1>3, <2>1, <2>2
  <2> QED
    BY <2>3 DEF Linked, Sound
<1>7. \A m \in Loggers : LoggerInv(m)'
  BY <1>1, <1>3, <1>4 DEF IInv, LoggerInv, loggerVars, TypeOK
<1>8. CallInv(t)'
  BY <1>1, <1>2, <1>3 DEF IInv, CallInv, loggerVars, Publishing
<1>9. ASSUME NEW u \in Threads \ {t}, pc'[u] # "idle" PROVE CallInv(u)'
  <2>1. /\ CallInv(u) /\ pc'[u] = pc[u]
        /\ using[u] \in Loggers /\ rec[u].sequence \in Nat
    BY <1>1, <1>9 DEF IInv, TypeOK, AuditRecordType
  <2>2. WrittenBelow(rec[u].sequence)
    BY <2>1 DEF IInv, CallInv, LoggerInv, WrittenBelow, TypeOK
  <2>3. PrevDigest(rec[u].sequence)' = PrevDigest(rec[u].sequence)
    BY <1>1, <1>4, <2>1, <2>2 DEF PrevDigest
  <2>4. pc[u] = "write" => rec[u].sequence # n
    BY <1>1 DEF IInv, OneOwner, Owning
  <2> QED
    BY <1>1, <1>3, <2>1, <2>3, <2>4 DEF CallInv, loggerVars, Torn, PrevDigest
<1>10. OneOwner'
  BY <1>1 DEF IInv, OneOwner, Owning, Publishing
<1>11. AckedDurable'
  BY <1>1, <1>3 DEF IInv, AckedDurable
<1> QED
  BY <1>5, <1>6, <1>7, <1>8, <1>9, <1>10, <1>11 DEF IInv

(* What head_object said of the key is still so: no other call is open.    *)
LEMMA HeadObjectStep ==
  ASSUME IInv, TypeOK', "head" \notin Faults, NEW t \in Threads, HeadObject(t)
  PROVE  IInv'
<1>1. CASE KeyTaken(t)
  BY <1>1, RaiseStep DEF HeadObject
<1>2. CASE ~KeyTaken(t)
  <2>1. /\ UNCHANGED <<storeVars, loggerVars, using, rec, acked>>
        /\ pc[t] = "put" /\ pc'[t] = "upload"
        /\ \A u \in Threads \ {t} : pc'[u] = pc[u]
    BY <1>2 DEF HeadObject, KeyTaken, Raise, IInv, TypeOK
  <2>2. rec[t].sequence \notin keys /\ Backend = "s3"
    BY <1>2 DEF HeadObject, KeyTaken
  <2>3. CallInv(t)'
    BY <2>1, <2>2 DEF IInv, CallInv, loggerVars, storeVars, Publishing, PrevDigest
  <2>4. \A m \in Loggers : LoggerInv(m)'
    BY <2>1, LoggerFrame DEF loggerVars
  <2>5. \A u \in Threads \ {t} : pc'[u] # "idle" => CallInv(u)'
    BY <2>1, CallFrame DEF loggerVars
  <2>6. OneOwner' /\ AckedDurable'
    BY <2>1 DEF IInv, OneOwner, AckedDurable, storeVars, Owning, Publishing
  <2> QED
    BY <2>1, <2>3, <2>4, <2>5, <2>6, StoreFrame DEF IInv
<1> QED
  BY <1>1, <1>2

(* The object of a lone call is the next of the chain.                     *)
LEMMA ObjectStored ==
  ASSUME IInv, NEW t \in Threads, pc[t] = "upload", StoreObject(t),
         UNCHANGED <<loggerVars, acked>>
  PROVE  /\ Contiguous' /\ Linked' /\ AckedDurable'
         /\ \A m \in Loggers : LoggerInv(m)'
         /\ rec[t].sequence \in DOMAIN objects' /\ objects'[rec[t].sequence] = rec[t]
<1> DEFINE n == rec[t].sequence
<1>1. /\ n \notin keys /\ n \notin DOMAIN objects
      /\ Sound(rec[t], PrevDigest(n))
  BY DEF IInv, CallInv, TypeOK
<1>2. n \in Nat /\ WrittenBelow(n)
  BY <1>1, PendingIsNext
<1>3. /\ keys' = keys \cup {n}
      /\ DOMAIN objects' = DOMAIN objects \cup {n}
      /\ objects'[n] = rec[t]
      /\ \A k \in DOMAIN objects : objects'[k] = objects[k]
  BY <1>1 DEF StoreObject
<1>4. \A k \in Nat : WrittenBelow(k) =>
        WrittenBelow(k)' /\ PrevDigest(k)' = PrevDigest(k)
  BY <1>3 DEF WrittenBelow, PrevDigest
<1>5. Contiguous'
  BY <1>2, <1>3, <1>4 DEF IInv, Contiguous, TypeOK
<1>6. Linked'
  <2>1. ASSUME NEW k \in DOMAIN objects
        PROVE  /\ objects'[k].sequence = k
               /\ Sound(objects'[k], PrevDigest(k))
               /\ PrevDigest(k)' = PrevDigest(k)
    <3>1. k \in Nat /\ WrittenBelow(k)
      BY DEF IInv, TypeOK, Contiguous
    <3> QED
      BY <1>3, <1>4, <3>1 DEF IInv, Linked
  <2>2. ASSUME NEW k, k = n
        PROVE  /\ objects'[k].sequence = k
               /\ Sound(objects'[k], PrevDigest(k))
               /\ PrevDigest(k)' = PrevDigest(k)
    BY <1>1, <1>2, <1>3, <1>4, <2>2
  <2>3. \A k \in DOMAIN objects' :
          /\ objects'[k].sequence = k
          /\ Sound(objects'[k], PrevDigest(k))
          /\ PrevDigest(k)' = PrevDigest(k)
    BY <1>3, <2>1, <2>2
  <2> QED
    BY <2>3 DEF Linked, Sound
<1>7. \A m \in Loggers : LoggerInv(m)'
  BY <1>3, <1>4 DEF IInv, LoggerInv, loggerVars, TypeOK
<1>8. AckedDurable'
  BY <1>1, <1>3 DEF IInv, AckedDurable
<1> QED
  BY <1>3, <1>5, <1>6, <1>7, <1>8

LEMMA PutObjectStep ==
  ASSUME IInv, Serial, TypeOK', NEW t \in Threads, PutObject(t)
  PROVE  IInv'
<1>1. /\ UNCHANGED <<loggerVars, using, rec, acked>> /\ StoreObject(t)
      /\ pc[t] = "upload" /\ pc'[t] = "advance"
      /\ \A u \in Threads \ {t} : pc[u] = "idle" /\ pc'[u] = "idle"
  BY DEF PutObject, IInv, TypeOK, Serial
<1>2. /\ Contiguous' /\ Linked' /\ AckedDurable'
      /\ \A m \in Loggers : LoggerInv(m)'
      /\ rec[t].sequence \in DOMAIN objects' /\ objects'[rec[t].sequence] = rec[t]
  BY <1>1, ObjectStored
<1>3. rec[t].sequence = seq[using[t]]
  <2>1. rec[t].sequence \notin DOMAIN objects
    BY <1>1 DEF IInv, CallInv, TypeOK
  <2> QED
    BY <1>1, <2>1, PendingIsNext
<1>4. CallInv(t)'
  BY <1>1, <1>2, <1>3 DEF IInv, CallInv, loggerVars, Publishing
<1>5. OneOwner'
  BY <1>1 DEF OneOwner, Owning, Publishing
<1> QED
  BY <1>1, <1>2, <1>4, <1>5 DEF IInv

(* The upload of a lone call fails, with or without having stored.         *)
LEMMA UploadFailsStep ==
  ASSUME IInv, Serial, TypeOK', NEW t \in Threads, UploadFails(t)
  PROVE  IInv'
<1>1. CASE UNCHANGED storeVars
  BY <1>1, RaiseStep DEF UploadFails, Raise
<1>2. CASE StoreObject(t)
  <2>1. /\ UNCHANGED <<loggerVars, acked>> /\ pc[t] = "upload"
        /\ \A u \in Threads : pc'[u] = "idle"
    BY DEF UploadFails, EndCall, IInv, TypeOK, Serial
  <2>2. /\ Contiguous' /\ Linked' /\ AckedDurable'
        /\ \A m \in Loggers : LoggerInv(m)'
    BY <1>2, <2>1, ObjectStored
  <2>3. OneOwner'
    BY <2>1 DEF OneOwner, Owning, Publishing
  <2> QED
    BY <2>1, <2>2, <2>3 DEF IInv
<1> QED
  BY <1>1, <1>2 DEF UploadFails

LEMMA AdvanceHeadStep ==
  ASSUME IInv, TypeOK', NEW t \in Threads, AdvanceHead(t)
  PROVE  IInv'
<1>1. /\ UNCHANGED <<storeVars, lstate, seq, tail, using, rec, acked>>
      /\ pc[t] = "advance" /\ pc'[t] = "count"
      /\ \A u \in Threads \ {t} : pc'[u] = pc[u]
  BY DEF AdvanceHead, IInv, TypeOK
<1>2. /\ using[t] \in Loggers
      /\ head'[using[t]] = rec[t].record_hash
      /\ \A m \in Loggers \ {using[t]} : head'[m] = head[m]
  BY <1>1 DEF AdvanceHead, IInv, TypeOK
<1>3. /\ rec[t].sequence \in DOMAIN objects
      /\ objects[rec[t].sequence] = rec[t]
      /\ rec[t].sequence = seq[using[t]]
      /\ lstate[using[t]] = "open"
  BY <1>1 DEF IInv, CallInv, Publishing
<1>4. \A m \in Loggers : LoggerInv(m)'
  <2>1. LoggerInv(using[t])'
    BY <1>1, <1>2, <1>3 DEF IInv, LoggerInv, TypeOK, storeVars, WrittenBelow
  <2> QED
    BY <1>1, <1>2, <2>1, LoggerFrame
<1>5. CallInv(t)'
  BY <1>1, <1>2, <1>3 DEF IInv, CallInv, storeVars, Publishing
<1>6. ASSUME NEW u \in Threads \ {t}, pc'[u] # "idle" PROVE CallInv(u)'
  <2>1. CASE using[u] = using[t]
    <3>1. pc[u] \in Publishing => rec[u].sequence = rec[t].sequence
      BY <1>1, <1>3, <1>6, <2>1 DEF IInv, CallInv, Publishing
    <3>2. pc[u] \notin Publishing
      BY <1>1, <3>1 DEF IInv, OneOwner, Owning, Publishing
    <3> QED
      BY <1>1, <1>6, <3>2 DEF IInv, CallInv, storeVars, Torn, PrevDigest, Publishing
  <2>2. CASE using[u] # using[t]
    BY <1>1, <1>2, <1>6, <2>2, CallFrame DEF IInv, TypeOK
  <2> QED
    BY <2>1, <2>2
<1>7. OneOwner' /\ AckedDurable'
  BY <1>1 DEF IInv, OneOwner, AckedDurable, storeVars, Owning, Publishing
<1> QED
  BY <1>1, <1>4, <1>5, <1>6, <1>7, StoreFrame DEF IInv

LEMMA CountRecordStep ==
  ASSUME IInv, TypeOK', NEW t \in Threads, CountRecord(t)
  PROVE  IInv'
<1> DEFINE n == rec[t].sequence
<1>1. /\ UNCHANGED <<storeVars, lstate, head, tail>>
      /\ pc[t] = "count" /\ pc'[t] = "idle"
      /\ acked' = acked \cup {rec[t]}
      /\ \A u \in Threads \ {t} :
           pc'[u] = pc[u] /\ rec'[u] = rec[u] /\ using'[u] = using[u]
  BY DEF CountRecord, EndCall, IInv, TypeOK
<1>2. /\ using[t] \in Loggers /\ n \in Nat
      /\ seq'[using[t]] = seq[using[t]] + 1
      /\ \A m \in Loggers \ {using[t]} : seq'[m] = seq[m]
  BY <1>1 DEF CountRecord, IInv, TypeOK, AuditRecordType
<1>3. /\ n \in DOMAIN objects
      /\ objects[n] = rec[t]
      /\ n = seq[using[t]]
      /\ head[using[t]] = rec[t].record_hash
      /\ lstate[using[t]] = "open"
      /\ WrittenBelow(n)
  BY <1>1, <1>2 DEF IInv, CallInv, LoggerInv, Publishing
<1>4. \A m \in Loggers : LoggerInv(m)'
  <2>1. ASSUME NEW m \in Loggers, m # using[t] PROVE LoggerInv(m)'
    BY <1>1, <1>2, <2>1, LoggerFrame
  <2>2. ASSUME NEW m \in Loggers, m = using[t] PROVE LoggerInv(m)'
    <3>1. WrittenBelow(n + 1)
      BY <1>2, <1>3 DEF WrittenBelow
    <3>2. PrevDigest(n + 1) = head[m]
      BY <1>2, <1>3, <2>2 DEF PrevDigest
    <3> QED
      BY <1>1, <1>2, <1>3, <2>2, <3>1, <3>2
      DEF LoggerInv, storeVars, WrittenBelow, PrevDigest
  <2> QED
    BY <2>1, <2>2
<1>5. ASSUME NEW u \in Threads \ {t}, pc'[u] # "idle" PROVE CallInv(u)'
  <2>1. CASE using[u] = using[t]
    <3>1. pc[u] \in Publishing => rec[u].sequence = rec[t].sequence
      BY <1>1, <1>3, <1>5, <2>1 DEF IInv, CallInv, Publishing
    <3>2. pc[u] \notin Publishing
      BY <1>1, <3>1 DEF IInv, OneOwner, Owning, Publishing
    <3>3. rec[u].sequence \in Nat /\ seq[using[t]] \in Nat
      BY <1>1, <1>2, <1>5 DEF IInv, TypeOK, AuditRecordType
    <3>4. rec[u].sequence <= seq[using[t]] + 1
      BY <1>1, <1>5, <2>1, <3>3 DEF IInv, CallInv
    <3> QED
      BY <1>1, <1>2, <1>5, <2>1, <3>2, <3>4
      DEF IInv, CallInv, storeVars, Torn, PrevDigest, Publishing
  <2>2. CASE using[u] # using[t]
    BY <1>1, <1>2, <1>5, <2>2, CallFrame DEF IInv, TypeOK
  <2> QED
    BY <2>1, <2>2
<1>6. OneOwner'
  BY <1>1 DEF IInv, OneOwner, Owning, Publishing
<1>7. AckedDurable'
  BY <1>1, <1>3 DEF IInv, AckedDurable, storeVars
<1> QED
  BY <1>1, <1>4, <1>5, <1>6, <1>7, StoreFrame DEF IInv

(* A logger that goes away, between calls or in the middle of some.        *)
LEMMA GoneStep ==
  ASSUME IInv, TypeOK', NEW l \in Loggers, Stop(l) \/ Crash(l)
  PROVE  IInv'
<1>1. UNCHANGED <<storeVars, acked>>
  BY DEF Stop, Crash
<1>2. /\ lstate'[l] = "closed"
      /\ \A m \in Loggers \ {l} :
           /\ lstate'[m] = lstate[m] /\ tail'[m] = tail[m]
           /\ head'[m] = head[m] /\ seq'[m] = seq[m]
  BY DEF Stop, Crash, Forget, IInv, TypeOK
<1>3. \A u \in Threads : pc'[u] # "idle" =>
        /\ pc'[u] = pc[u] /\ rec'[u] = rec[u] /\ using'[u] = using[u]
        /\ using[u] # l
  <2>1. CASE Stop(l)
    BY <2>1 DEF Stop, UsersOf, threadVars, IInv, TypeOK
  <2>2. CASE Crash(l)
    BY <2>2 DEF Crash, UsersOf
  <2> QED
    BY <2>1, <2>2
<1>4. \A m \in Loggers : LoggerInv(m)'
  <2>1. ASSUME NEW m \in Loggers, m # l PROVE LoggerInv(m)'
    BY <1>1, <1>2, <2>1, LoggerFrame
  <2>2. LoggerInv(l)'
    BY <1>2 DEF LoggerInv
  <2> QED
    BY <2>1, <2>2
<1>5. ASSUME NEW u \in Threads, pc'[u] # "idle" PROVE CallInv(u)'
  <2>1. using[u] \in Loggers \ {l}
    BY <1>3, <1>5 DEF IInv, TypeOK
  <2> QED
    BY <1>1, <1>2, <1>3, <1>5, <2>1, CallFrame
<1>6. OneOwner' /\ AckedDurable'
  BY <1>1, <1>3 DEF IInv, OneOwner, AckedDurable, storeVars, Owning, Publishing
<1> QED
  BY <1>1, <1>4, <1>5, <1>6, StoreFrame DEF IInv

(* What the store needs of its callers: a local one nothing, an S3 bucket  *)
(* one call at a time, and that a failing head_object is no missing key.   *)
Guarded == Backend = "local" \/ ("head" \notin Faults /\ Serial)

LEMMA InductiveStep ==
  ASSUME Guarded, IInv, [Next]_vars
  PROVE  IInv'
<1>1. TypeOK'
  BY TypeStep DEF IInv
<1>2. ASSUME NEW t \in Threads, AppendStep(t) PROVE IInv'
  <2>1. PutObject(t) \/ HeadObject(t) \/ UploadFails(t) => "head" \notin Faults /\ Serial
    BY DEF Guarded, IInv, CallInv, PutObject, HeadObject, UploadFails
  <2>2. WriteFails(t) => Raise(t)
    BY DEF WriteFails
  <2>3. CASE PutObject(t) \/ HeadObject(t) \/ UploadFails(t)
    BY <1>1, <2>1, <2>3, PutObjectStep, HeadObjectStep, UploadFailsStep
  <2> QED
    BY <1>1, <1>2, <2>2, <2>3, HashBodyStep, LinkPrevStep, CreateKeyStep,
       WriteObjectStep, RaiseStep, AdvanceHeadStep, CountRecordStep
    DEF AppendStep
<1>3. ASSUME NEW l \in Loggers, LoggerStep(l) PROVE IInv'
  BY <1>1, <1>3, ListKeysStep, ReadTailStep, GoneStep DEF LoggerStep
<1>4. CASE UNCHANGED vars
  <2>1. UNCHANGED <<storeVars, loggerVars, threadVars, acked>>
    BY <1>4 DEF vars
  <2>2. \A m \in Loggers : LoggerInv(m)'
    BY <2>1, LoggerFrame DEF loggerVars
  <2>3. \A u \in Threads : pc'[u] # "idle" => CallInv(u)'
    BY <2>1, CallFrame DEF loggerVars, threadVars
  <2>4. OneOwner' /\ AckedDurable'
    BY <2>1 DEF IInv, OneOwner, AckedDurable, storeVars, threadVars
  <2> QED
    BY <1>1, <2>1, <2>2, <2>3, <2>4, StoreFrame DEF IInv
<1> QED
  BY <1>1, <1>2, <1>3, <1>4, CallStep DEF Next

LEMMA GuardedHolds == Spec /\ []Guarded => []IInv
<1>1. Init => IInv
  <2> SUFFICES ASSUME Init PROVE IInv
    OBVIOUS
  <2>1. TypeOK
    BY ConstantsOK DEF Init, TypeOK, Publishing, Digests, Genesis
  <2> QED
    BY <2>1 DEF Init, IInv, Contiguous, Linked, LoggerInv, OneOwner,
       Owning, Publishing, AckedDurable
<1>2. Guarded /\ IInv /\ [Next]_vars => IInv'
  BY InductiveStep
<1> QED
  BY <1>1, <1>2, PTL DEF Spec

LEMMA LocalIsGuarded ==
  ASSUME Backend = "local"
  PROVE  Guarded
BY DEF Guarded

LEMMA InvariantHolds ==
  ASSUME Backend = "local"
  PROVE  Spec => []IInv
BY GuardedHolds, LocalIsGuarded, PTL

(* The written keys are an initial segment of the naturals.                *)
Dense == \E n \in Nat : DOMAIN objects = 0..(n - 1)

(* The contents of the store change by one complete record.                *)
Stores(t) == pc[t] \in {"write", "upload"} /\ StoreObject(t) /\ acked' = acked

LEMMA ObjectsChange ==
  ASSUME IInv, [Next]_vars
  PROVE  objects' = objects \/ \E t \in Threads : Stores(t)
<1> SUFFICES ASSUME NEW t \in Threads, AppendStep(t)
             PROVE  objects' = objects \/ Stores(t)
  BY DEF Next, vars, storeVars, threadVars, LoggerStep, ListKeys, ReadTail,
     Stop, Crash, Call
<1>1. CASE WriteObject(t) \/ PutObject(t) \/ UploadFails(t)
  BY <1>1 DEF WriteObject, PutObject, UploadFails, Stores, storeVars
<1> QED
  BY <1>1 DEF AppendStep, HashBody, HeadObject, LinkPrev, CreateKey, WriteFails, Raise,
     AdvanceHead, CountRecord, storeVars

LEMMA WriteExtends ==
  ASSUME IInv, NEW n \in Nat, DOMAIN objects = 0..(n - 1),
         NEW t \in Threads, Stores(t)
  PROVE  /\ rec[t].sequence = n
         /\ objects' = [k \in 0..n |-> IF k = n THEN rec[t] ELSE objects[k]]
<1>1. pc[t] # "idle" /\ rec[t].sequence \notin DOMAIN objects
  BY DEF Stores, IInv, CallInv, TypeOK, Torn
<1>2. rec[t].sequence \in Nat /\ WrittenBelow(rec[t].sequence)
  BY <1>1, PendingIsNext
<1>3. rec[t].sequence = n
  <2>1. rec[t].sequence \notin 0..(n - 1)
    BY <1>1
  <2>2. rec[t].sequence > n => n \in DOMAIN objects
    BY <1>2 DEF WrittenBelow
  <2> QED
    BY <1>2, <2>1, <2>2
<1>4. DOMAIN objects \cup {n} = 0..n
  OBVIOUS
<1> QED
  BY <1>3, <1>4 DEF Stores, StoreObject

LEMMA DenseHolds == Spec /\ []Guarded => []Dense
<1>1. Init => Dense
  <2>1. 0..(0 - 1) = {}
    OBVIOUS
  <2> QED
    BY <2>1 DEF Init, Dense
<1>2. ASSUME IInv, Dense, [Next]_vars PROVE Dense'
  <2>1. PICK n \in Nat : DOMAIN objects = 0..(n - 1)
    BY <1>2 DEF Dense
  <2>2. CASE objects' = objects
    BY <1>2, <2>2 DEF Dense
  <2>3. ASSUME NEW t \in Threads, Stores(t) PROVE Dense'
    <3>1. DOMAIN objects' = 0..((n + 1) - 1)
      BY <1>2, <2>1, <2>3, WriteExtends
    <3> QED
      BY <3>1 DEF Dense
  <2> QED
    BY <1>2, <2>2, <2>3, ObjectsChange
<1> QED
  BY <1>1, <1>2, GuardedHolds, PTL DEF Spec

-----------------------------------------------------------------------------
(* Theorems                                                                *)

(* On the file store an acknowledged record is never lost, replaced or     *)
(* renumbered, whatever threads, stale loggers and crashes do.             *)
THEOREM AckedRecordsDurable ==
  ASSUME Backend = "local"
  PROVE  Spec => []AckedDurable
BY InvariantHolds, PTL DEF IInv

(* The exclusive create serialises the two unlocked assignments of append. *)
THEOREM PublishersExclusive ==
  ASSUME Backend = "local"
  PROVE  Spec => []PublisherAlone
<1>1. IInv => PublisherAlone
  <2> SUFFICES ASSUME IInv, NEW t \in Threads, NEW u \in Threads,
                      pc[t] \in Publishing, pc[u] \in Publishing,
                      using[t] = using[u]
               PROVE  t = u
    BY DEF PublisherAlone
  <2>1. rec[t].sequence = rec[u].sequence
    BY DEF IInv, CallInv, Publishing
  <2> QED
    BY <2>1 DEF IInv, OneOwner, Owning
<1> QED
  BY <1>1, InvariantHolds, PTL

(* A logger that can still win its next put links to the true tail.        *)
THEOREM HeadsNeverFork ==
  ASSUME Backend = "local"
  PROVE  Spec => []NextLinksToTail
<1>1. IInv => NextLinksToTail
  <2> SUFFICES ASSUME IInv, NEW l \in Loggers, lstate[l] = "open",
                      seq[l] \notin keys
               PROVE  IF seq[l] = 0
                      THEN head[l] = Genesis
                      ELSE /\ seq[l] - 1 \in DOMAIN objects
                           /\ head[l] = objects[seq[l] - 1].record_hash
    BY DEF NextLinksToTail
  <2>1. seq[l] \in Nat /\ WrittenBelow(seq[l]) /\ head[l] = PrevDigest(seq[l])
    BY DEF IInv, TypeOK, LoggerInv
  <2> QED
    BY <2>1 DEF WrittenBelow, PrevDigest
<1> QED
  BY <1>1, InvariantHolds, PTL

LEMMA SortedInterval ==
  ASSUME NEW n \in Nat
  PROVE  /\ Cardinality(0..(n - 1)) = n
         /\ \A i \in 1..n : SortedKeys(0..(n - 1))[i] = i - 1
<1>1. Cardinality(0..(n - 1)) = n
  BY FS_Interval
<1>2. ASSUME NEW k \in 0..(n - 1)
      PROVE  Cardinality({j \in 0..(n - 1) : j < k}) = k
  <2>1. {j \in 0..(n - 1) : j < k} = 0..(k - 1)
    OBVIOUS
  <2>2. 0 \in Int /\ k - 1 \in Int
    OBVIOUS
  <2>3. Cardinality(0..(k - 1)) = IF 0 > k - 1 THEN 0 ELSE (k - 1) - 0 + 1
    BY <2>2, FS_Interval
  <2>4. Cardinality(0..(k - 1)) = k
    BY <2>3
  <2> QED
    BY <2>1, <2>4
<1>3. ASSUME NEW i \in 1..n
      PROVE  (CHOOSE k \in 0..(n - 1) :
                Cardinality({j \in 0..(n - 1) : j < k}) = i - 1) = i - 1
  <2>1. i - 1 \in 0..(n - 1)
    OBVIOUS
  <2> QED
    BY <1>2, <2>1
<1> QED
  BY <1>1, <1>3 DEF SortedKeys

LEMMA ChainVerifies == Spec /\ []Guarded => []WrittenChainVerifies
<1>1. IInv /\ Dense => WrittenChainVerifies
  <2> SUFFICES ASSUME IInv, Dense PROVE WrittenChainVerifies
    OBVIOUS
  <2>1. PICK n \in Nat : DOMAIN objects = 0..(n - 1)
    BY DEF Dense
  <2> DEFINE chain == ChainOf(DOMAIN objects, objects)
  <2>2. chain = [i \in 1..n |-> objects[i - 1]]
    BY <2>1, SortedInterval DEF ChainOf
  <2>3. Len(chain) = n
    BY <2>2
  <2>4. ASSUME NEW i \in 1..n PROVE Sound(chain[i], ExpectedPrev(chain, i))
    <3>1. i - 1 \in DOMAIN objects /\ chain[i] = objects[i - 1]
      BY <2>1, <2>2
    <3>2. ExpectedPrev(chain, i) = PrevDigest(i - 1)
      BY <2>2 DEF ExpectedPrev, PrevDigest
    <3> HIDE DEF chain
    <3> QED
      BY <3>1, <3>2 DEF IInv, Linked
  <2> QED
    BY <2>3, <2>4 DEF WrittenChainVerifies, Verified, Breaks
<1> QED
  BY <1>1, GuardedHolds, DenseHolds, PTL

(* Whatever has been written verifies, in every reachable state.           *)
THEOREM WrittenChainAlwaysVerifies ==
  ASSUME Backend = "local"
  PROVE  Spec => []WrittenChainVerifies
BY ChainVerifies, LocalIsGuarded, PTL

LEMMA StaleStaysOut == Spec /\ []Guarded => StaleUntilReopened
<1>1. ASSUME IInv, [Next]_vars, NEW l \in Loggers, Stale(l)
      PROVE  Stale(l)' \/ lstate'[l] = "closed"
  <2>1. /\ lstate[l] = "open" /\ seq[l] \in keys
        /\ \A t \in Threads : pc[t] \in Owning => using[t] # l
    BY <1>1 DEF Stale
  <2>2. ASSUME NEW t \in Threads, AppendStep(t) PROVE Stale(l)'
    <3>1. /\ lstate' = lstate /\ keys \subseteq keys'
          /\ \A u \in Threads \ {t} : pc'[u] = pc[u] /\ using'[u] = using[u]
      BY <1>1, <2>2 DEF IInv, TypeOK, AppendStep, HashBody, LinkPrev, CreateKey,
         WriteObject, WriteFails, HeadObject, PutObject, UploadFails, AdvanceHead,
         CountRecord, Raise, EndCall, StoreObject, storeVars, loggerVars
    <3>2. seq'[l] = seq[l]
      <4>1. CASE CountRecord(t)
        <5>1. using[t] # l /\ using[t] \in Loggers
          BY <1>1, <2>1, <4>1 DEF CountRecord, Owning, Publishing, IInv, TypeOK
        <5> QED
          BY <1>1, <4>1, <5>1 DEF CountRecord, IInv, TypeOK
      <4>2. CASE ~CountRecord(t)
        BY <2>2, <4>2 DEF AppendStep, HashBody, LinkPrev, CreateKey,
           WriteObject, WriteFails, HeadObject, PutObject, UploadFails,
           AdvanceHead, Raise, loggerVars
      <4> QED
        BY <4>1, <4>2
    <3>3. pc'[t] \in Owning => using'[t] # l
      <4>1. CASE CreateKey(t) /\ ~KeyTaken(t)
        <5>1. using[t] # l
          BY <1>1, <2>1, <4>1, PendingIsNext DEF CreateKey, KeyTaken, IInv, TypeOK
        <5> QED
          BY <4>1, <5>1 DEF CreateKey, Raise, KeyTaken
      <4>2. CASE Raise(t) \/ CountRecord(t) \/ UploadFails(t)
        BY <1>1, <4>2 DEF Raise, CountRecord, UploadFails, EndCall, Owning,
           Publishing, IInv, TypeOK
      <4>3. CASE HashBody(t) \/ LinkPrev(t) \/ HeadObject(t)
        BY <1>1, <4>2, <4>3 DEF HashBody, LinkPrev, HeadObject, Owning,
           Publishing, IInv, TypeOK
      <4>4. CASE WriteObject(t) \/ AdvanceHead(t)
        BY <1>1, <2>1, <4>4 DEF WriteObject, AdvanceHead, Owning, Publishing
      <4>5. CASE PutObject(t)
        <5>1. pc[t] = "upload" /\ rec[t].sequence \notin keys /\ using' = using
          BY <1>1, <4>5 DEF PutObject, IInv, CallInv
        <5>2. rec[t].sequence = seq[using[t]]
          BY <1>1, <5>1, PendingIsNext DEF IInv, TypeOK
        <5> QED
          BY <2>1, <5>1, <5>2
      <4> QED
        BY <2>2, <4>1, <4>2, <4>3, <4>4, <4>5
        DEF AppendStep, CreateKey, WriteFails
    <3> QED
      BY <2>1, <3>1, <3>2, <3>3 DEF Stale
  <2>3. ASSUME NEW t \in Threads, NEW m \in Loggers, NEW e \in Events,
               Call(t, m, e)
        PROVE  Stale(l)'
    BY <1>1, <2>1, <2>3 DEF Call, Stale, storeVars, loggerVars, Owning,
       Publishing, IInv, TypeOK
  <2>4. ASSUME NEW m \in Loggers, LoggerStep(m)
        PROVE  Stale(l)' \/ lstate'[l] = "closed"
    <3>1. CASE m = l
      BY <1>1, <2>1, <2>4, <3>1 DEF LoggerStep, ListKeys, ReadTail, Stop, Crash,
         Forget, IInv, TypeOK
    <3>2. CASE m # l
      <4>1. lstate'[l] = lstate[l] /\ seq'[l] = seq[l] /\ keys' = keys
        BY <1>1, <2>4, <3>2 DEF LoggerStep, ListKeys, ReadTail, ResumeFrom,
           Stop, Crash, Forget, storeVars, IInv, TypeOK
      <4>2. \A t \in Threads :
              pc'[t] \in Owning => pc[t] = pc'[t] /\ using'[t] = using[t]
        BY <2>4 DEF LoggerStep, ListKeys, ReadTail, Stop, Crash, threadVars,
           Owning, Publishing
      <4> QED
        BY <2>1, <4>1, <4>2 DEF Stale
    <3> QED
      BY <3>1, <3>2
  <2>5. CASE UNCHANGED vars
    BY <2>1, <2>5 DEF Stale, vars, storeVars, loggerVars, threadVars
  <2> QED
    BY <1>1, <2>2, <2>3, <2>4, <2>5 DEF Next
<1>2. IInv /\ [Next]_vars =>
        [\A l \in Loggers : Stale(l) => Stale(l)' \/ lstate'[l] = "closed"]_vars
  BY <1>1
<1> QED
  BY <1>2, GuardedHolds, PTL DEF Spec, StaleUntilReopened

(* A logger that lost its number appends nothing more until it is          *)
(* constructed again.                                                      *)
THEOREM StaleLoggersStayOut ==
  ASSUME Backend = "local"
  PROVE  Spec => StaleUntilReopened
BY StaleStaysOut, LocalIsGuarded, PTL

LEMMA ImplementsTheLog == Spec /\ []Guarded => ImplementsLog
<1> DEFINE log == [k \in DOMAIN objects |-> objects[k].event]
           told == {<<r.sequence, r.event>> : r \in acked}
<1>1. Init => Log!Init
  BY DEF Init, Log!Init
<1>2. ASSUME IInv, Dense, [Next]_vars
      PROVE  [Log!Next]_(Log!vars)
  <2>1. PICK n \in Nat : DOMAIN objects = 0..(n - 1)
    BY <1>2 DEF Dense
  <2>2. ASSUME NEW t \in Threads, Stores(t) PROVE Log!Next
    <3>1. /\ acked' = acked
          /\ rec[t].event \in Events
          /\ objects' = [k \in 0..n |-> IF k = n THEN rec[t] ELSE objects[k]]
      <4>1. rec[t] \in AuditRecordType
        BY <1>2, <2>2 DEF Stores, IInv, TypeOK
      <4>2. rec[t].event \in Events
        BY <4>1 DEF AuditRecordType
      <4> QED
        BY <1>2, <2>1, <2>2, <4>2, WriteExtends DEF Stores
    <3>2. DOMAIN log = 0..(n - 1)
      BY <2>1
    <3>3. n \in Log!Ends
      <4>1. n \notin DOMAIN log
        BY <3>2
      <4>2. n = 0 \/ \E i \in DOMAIN log : n = i + 1
        <5>1. n # 0 => n - 1 \in DOMAIN log /\ n = (n - 1) + 1
          BY <3>2
        <5> QED
          BY <5>1
      <4> QED
        BY <4>1, <4>2 DEF Log!Ends
    <3>4. log' = [k \in DOMAIN log \cup {n} |->
                    IF k = n THEN rec[t].event ELSE log[k]]
      BY <2>1, <3>1
    <3>5. told' = told
      BY <3>1
    <3>6. Log!Record(rec[t].event)
      BY <3>3, <3>4, <3>5 DEF Log!Record
    <3> QED
      BY <3>1, <3>6 DEF Log!Next, Log!Record
  <2>3. ASSUME NEW t \in Threads, CountRecord(t) PROVE Log!Next
    <3>1. /\ objects' = objects
          /\ acked' = acked \cup {rec[t]}
          /\ rec[t].sequence \in DOMAIN objects
          /\ objects[rec[t].sequence] = rec[t]
      BY <1>2, <2>3 DEF CountRecord, storeVars, IInv, CallInv, Publishing
    <3>2. told' = told \cup {<<rec[t].sequence, log[rec[t].sequence]>>}
      BY <3>1
    <3>3. Log!Answer(rec[t].sequence)
      BY <3>1, <3>2 DEF Log!Answer
    <3> QED
      BY <3>1, <3>3 DEF Log!Next, Log!Answer
  <2>4. \/ UNCHANGED <<objects, acked>>
        \/ \E t \in Threads : Stores(t) \/ CountRecord(t)
    <3>1. acked' = acked \/ \E t \in Threads : CountRecord(t)
      BY <1>2 DEF Next, vars, LoggerStep, ListKeys, ReadTail, Stop, Crash, Call,
         AppendStep, HashBody, LinkPrev, CreateKey, WriteObject, WriteFails,
         HeadObject, PutObject, UploadFails, AdvanceHead, Raise
    <3> QED
      BY <1>2, <3>1, ObjectsChange
  <2>5. CASE UNCHANGED <<objects, acked>>
    BY <2>5 DEF Log!vars
  <2> QED
    BY <2>2, <2>3, <2>4, <2>5
<1> QED
  BY <1>1, <1>2, GuardedHolds, DenseHolds, PTL DEF Spec, ImplementsLog, Log!Spec

(* The file store, the unlocked loggers and the digests implement the      *)
(* grow-only log, whose callers are answered only after the fact.          *)
THEOREM RefinesLog ==
  ASSUME Backend = "local"
  PROVE  Spec => ImplementsLog
BY ImplementsTheLog, LocalIsGuarded, PTL

(* S3ObjectLockStore.put asks and then writes, two requests with nothing   *)
(* between them that a second caller could not slip through.  While one    *)
(* call of append at a time is open in all processes, and head_object      *)
(* fails only for a missing key, a bucket keeps the same promises: crashes *)
(* and uploads whose answer is lost included.                              *)
THEOREM LoneCallerOnS3 ==
  ASSUME Backend = "s3", "head" \notin Faults
  PROVE  Spec /\ []Serial => /\ []AckedDurable
                             /\ []WrittenChainVerifies
                             /\ StaleUntilReopened
                             /\ ImplementsLog
<1>1. Serial => Guarded
  BY DEF Guarded
<1>2. IInv => AckedDurable
  BY DEF IInv
<1> QED
  BY <1>1, <1>2, GuardedHolds, ChainVerifies, StaleStaysOut, ImplementsTheLog, PTL
=============================================================================
