----------------------------- MODULE AuditChain -----------------------------
(***************************************************************************)
(* AuditLogger (chapters/ch12/audit_logger.py) over the two stores of      *)
(* chapters/ch12/append_only_store.py.                                     *)
(*                                                                         *)
(* Any number of AuditLogger objects, each in a process of its own, append *)
(* to one store, and the threads of a process share its logger: nothing in *)
(* the class takes a lock.  A step is one read or write of the logger's    *)
(* attributes or one call on the store, so threads interleave between any  *)
(* two of them.                                                            *)
(*                                                                         *)
(* A bucket with Object Lock keeps the versions a put hides.  They are not *)
(* modelled: `objects' is what get_object answers, the newest version, and *)
(* that is all the repository reads.                                       *)
(***************************************************************************)
EXTENDS AuditRecords

CONSTANTS
  Threads,     \* threads that call append
  Loggers,     \* AuditLogger objects
  Backend,     \* "local" (O_EXCL file store) or "s3" (head, then put)
  PageSize,    \* the most keys one list_objects_v2 answers (1000 on S3)
  Faults,      \* what may go wrong: "crash", "write", "head", "upload"
  None         \* the logger and the record of a thread that is in no call

ASSUME ConstantsOK ==
  /\ Backend \in {"local", "s3"}
  /\ PageSize \in Nat \ {0}
  /\ Faults \subseteq {"crash", "write", "head", "upload"}
  /\ None \notin Loggers
  /\ None \notin AuditRecordType

VARIABLES
  keys,        \* names present in the store
  objects,     \* contents of the completely written ones; a key in keys but
               \* not in DOMAIN objects is an empty or partly written file
  lstate,      \* life of each logger object
  head,        \* AuditLogger._head
  seq,         \* AuditLogger._sequence
  tail,        \* the key _resume is about to read
  pc,          \* where each thread is in append
  using,       \* the logger it called
  rec,         \* the AuditRecord it is building
  issued,      \* events already handed to append
  acked        \* records append has returned to a caller

storeVars == <<keys, objects>>
loggerVars == <<lstate, head, seq, tail>>
threadVars == <<pc, using, rec>>
vars == <<storeVars, loggerVars, threadVars, issued, acked>>

Torn == keys \ DOMAIN objects

Init ==
  /\ keys = {}
  /\ objects = [k \in {} |-> k]
  /\ lstate = [l \in Loggers |-> "closed"]
  /\ head = [l \in Loggers |-> Genesis]
  /\ seq = [l \in Loggers |-> 0]
  /\ tail = [l \in Loggers |-> 0]
  /\ pc = [t \in Threads |-> "idle"]
  /\ using = [t \in Threads |-> None]
  /\ rec = [t \in Threads |-> None]
  /\ issued = {}
  /\ acked = {}

-----------------------------------------------------------------------------
(* AuditLogger.__init__ and _resume                                        *)

(***************************************************************************)
(* What list_keys answers.  The local store lists its whole directory; the *)
(* S3 store makes one list_objects_v2 call and never asks for the next     *)
(* page, so it sees the PageSize smallest keys.                            *)
(***************************************************************************)
ListedKeys ==
  IF Backend = "local"
  THEN keys
  ELSE {k \in keys : Cardinality({j \in keys : j < k}) < PageSize}

ListKeys(l) ==
  /\ lstate[l] \in {"closed", "broken"}
  /\ \/ /\ ListedKeys = {}
        /\ lstate' = [lstate EXCEPT ![l] = "open"]
        /\ tail' = tail
     \/ \E k \in ListedKeys :
          /\ \A j \in ListedKeys : j <= k
          /\ lstate' = [lstate EXCEPT ![l] = "opening"]
          /\ tail' = [tail EXCEPT ![l] = k]
  /\ head' = [head EXCEPT ![l] = Genesis]
  /\ seq' = [seq EXCEPT ![l] = 0]
  /\ UNCHANGED <<storeVars, threadVars, issued, acked>>

ResumeFrom(l) ==
  /\ head' = [head EXCEPT ![l] = objects[tail[l]].record_hash]
  /\ seq' = [seq EXCEPT ![l] = objects[tail[l]].sequence + 1]

(* json.loads raises on a torn file, and with it the constructor.          *)
ReadTail(l) ==
  /\ lstate[l] = "opening"
  /\ \/ /\ tail[l] \in DOMAIN objects
        /\ ResumeFrom(l)
        /\ lstate' = [lstate EXCEPT ![l] = "open"]
     \/ /\ tail[l] \notin DOMAIN objects
        /\ lstate' = [lstate EXCEPT ![l] = "broken"]
        /\ UNCHANGED <<head, seq>>
  /\ tail' = [tail EXCEPT ![l] = 0]
  /\ UNCHANGED <<storeVars, threadVars, issued, acked>>

-----------------------------------------------------------------------------
(* AuditLogger.append                                                      *)

(* The call reads self._sequence into the record body and stamps it.       *)
Call(t, l, e) ==
  /\ pc[t] = "idle"
  /\ lstate[l] = "open"
  /\ e \notin issued
  /\ issued' = issued \cup {e}
  /\ pc' = [pc EXCEPT ![t] = "hash"]
  /\ using' = [using EXCEPT ![t] = l]
  /\ rec' = [rec EXCEPT ![t] = [sequence |-> seq[l], event |-> e,
                                prev_hash |-> Genesis, record_hash |-> Genesis]]
  /\ UNCHANGED <<storeVars, loggerVars, acked>>

(* record_hash = hash_record(record_body, self._head)                      *)
HashBody(t) ==
  /\ pc[t] = "hash"
  /\ pc' = [pc EXCEPT ![t] = "link"]
  /\ rec' = [rec EXCEPT ![t].record_hash =
                 HashRecord(BodyOf(rec[t]), head[using[t]])]
  /\ UNCHANGED <<storeVars, loggerVars, using, issued, acked>>

\* Mutant: the head moves before the store has accepted the record.
LinkAndAdvance(t) ==
  /\ pc[t] = "link"
  /\ pc' = [pc EXCEPT ![t] = "put"]
  /\ rec' = [rec EXCEPT ![t].prev_hash = head[using[t]]]
  /\ head' = [head EXCEPT ![using[t]] = rec[t].record_hash]
  /\ UNCHANGED <<storeVars, lstate, seq, tail, using, issued, acked>>

(* AuditRecord(..., prev_hash=self._head, ...) reads the head again.       *)
LinkPrev(t) ==
  /\ pc[t] = "link"
  /\ pc' = [pc EXCEPT ![t] = "put"]
  /\ rec' = [rec EXCEPT ![t].prev_hash = head[using[t]]]
  /\ UNCHANGED <<storeVars, loggerVars, using, issued, acked>>

EndCall(t) ==
  /\ pc' = [pc EXCEPT ![t] = "idle"]
  /\ using' = [using EXCEPT ![t] = None]
  /\ rec' = [rec EXCEPT ![t] = None]

\* Mutant: a duplicate key is answered by skipping to the next number.
RaiseAndSkip(t) ==
  /\ EndCall(t)
  /\ seq' = [seq EXCEPT ![using[t]] = @ + 1]
  /\ UNCHANGED <<storeVars, lstate, head, tail, issued, acked>>

(* An exception leaves append with head and sequence as they were.         *)
Raise(t) ==
  /\ EndCall(t)
  /\ UNCHANGED <<storeVars, loggerVars, issued, acked>>

\* Mutant: the store does not check for an existing key.
KeyNeverTaken(t) == FALSE

KeyTaken(t) == rec[t].sequence \in keys

StoreObject(t) ==
  /\ keys' = keys \cup {rec[t].sequence}
  /\ objects' = [k \in DOMAIN objects \cup {rec[t].sequence} |->
                   IF k = rec[t].sequence THEN rec[t] ELSE objects[k]]

(***************************************************************************)
(* LocalFilesystemStore.put: open(O_CREAT | O_EXCL) creates the name or    *)
(* fails in one system call, the payload is written by a later one.        *)
(***************************************************************************)
CreateKey(t) ==
  /\ Backend = "local"
  /\ pc[t] = "put"
  /\ \/ /\ KeyTaken(t)
        /\ Raise(t)
     \/ /\ ~KeyTaken(t)
        /\ keys' = keys \cup {rec[t].sequence}
        /\ pc' = [pc EXCEPT ![t] = "write"]
        /\ UNCHANGED <<objects, loggerVars, using, rec, issued, acked>>

WriteObject(t) ==
  /\ pc[t] = "write"
  /\ StoreObject(t)
  /\ pc' = [pc EXCEPT ![t] = "advance"]
  /\ UNCHANGED <<loggerVars, using, rec, issued, acked>>

\* Mutant: an error of write is taken for success.
WriteErrorSwallowed(t) ==
  /\ "write" \in Faults
  /\ pc[t] = "write"
  /\ pc' = [pc EXCEPT ![t] = "advance"]
  /\ UNCHANGED <<storeVars, loggerVars, using, rec, issued, acked>>

(* write raises (a full disk): the name stays, without its contents.       *)
WriteFails(t) ==
  /\ "write" \in Faults
  /\ pc[t] = "write"
  /\ Raise(t)

(***************************************************************************)
(* S3ObjectLockStore.put: head_object, then put_object.  _exists answers   *)
(* False to every exception, a missing key and a failed request alike, and *)
(* put_object over an existing key adds a version that get then returns.   *)
(***************************************************************************)
HeadObject(t) ==
  /\ Backend = "s3"
  /\ pc[t] = "put"
  /\ \/ /\ KeyTaken(t)
        /\ Raise(t)
     \/ /\ ~KeyTaken(t) \/ "head" \in Faults
        /\ pc' = [pc EXCEPT ![t] = "upload"]
        /\ UNCHANGED <<storeVars, loggerVars, using, rec, issued, acked>>

PutObject(t) ==
  /\ pc[t] = "upload"
  /\ StoreObject(t)
  /\ pc' = [pc EXCEPT ![t] = "advance"]
  /\ UNCHANGED <<loggerVars, using, rec, issued, acked>>

(* put_object raises: the object may have been stored and the answer lost. *)
UploadFails(t) ==
  /\ "upload" \in Faults
  /\ pc[t] = "upload"
  /\ StoreObject(t) \/ UNCHANGED storeVars
  /\ EndCall(t)
  /\ UNCHANGED <<loggerVars, issued, acked>>

(* self._head = record_hash                                                *)
AdvanceHead(t) ==
  /\ pc[t] = "advance"
  /\ head' = [head EXCEPT ![using[t]] = rec[t].record_hash]
  /\ pc' = [pc EXCEPT ![t] = "count"]
  /\ UNCHANGED <<storeVars, lstate, seq, tail, using, rec, issued, acked>>

(* self._sequence += 1; return record                                      *)
CountRecord(t) ==
  /\ pc[t] = "count"
  /\ seq' = [seq EXCEPT ![using[t]] = @ + 1]
  /\ acked' = acked \cup {rec[t]}
  /\ EndCall(t)
  /\ UNCHANGED <<storeVars, lstate, head, tail, issued>>

-----------------------------------------------------------------------------
(* Processes end, and new ones resume the chain.                           *)

UsersOf(l) == {t \in Threads : using[t] = l}

Forget(l) ==
  /\ lstate' = [lstate EXCEPT ![l] = "closed"]
  /\ head' = [head EXCEPT ![l] = Genesis]
  /\ seq' = [seq EXCEPT ![l] = 0]
  /\ tail' = [tail EXCEPT ![l] = 0]

(* The logger is dropped between calls.                                    *)
Stop(l) ==
  /\ lstate[l] = "open"
  /\ UsersOf(l) = {}
  /\ Forget(l)
  /\ UNCHANGED <<storeVars, threadVars, issued, acked>>

(* The process dies with calls in progress; the store keeps what it has.   *)
Crash(l) ==
  /\ "crash" \in Faults
  /\ UsersOf(l) # {}
  /\ Forget(l)
  /\ pc' = [t \in Threads |-> IF t \in UsersOf(l) THEN "idle" ELSE pc[t]]
  /\ using' = [t \in Threads |-> IF t \in UsersOf(l) THEN None ELSE using[t]]
  /\ rec' = [t \in Threads |-> IF t \in UsersOf(l) THEN None ELSE rec[t]]
  /\ UNCHANGED <<storeVars, issued, acked>>

AppendStep(t) ==
  \/ HashBody(t)
  \/ LinkPrev(t)
  \/ CreateKey(t)
  \/ WriteObject(t)
  \/ WriteFails(t)
  \/ HeadObject(t)
  \/ PutObject(t)
  \/ UploadFails(t)
  \/ AdvanceHead(t)
  \/ CountRecord(t)

LoggerStep(l) ==
  \/ ListKeys(l)
  \/ ReadTail(l)
  \/ Stop(l)
  \/ Crash(l)

Next ==
  \/ \E t \in Threads, l \in Loggers, e \in Events : Call(t, l, e)
  \/ \E t \in Threads : AppendStep(t)
  \/ \E l \in Loggers : LoggerStep(l)

Spec == Init /\ [][Next]_vars

-----------------------------------------------------------------------------
(* Properties                                                              *)

Publishing == {"advance", "count"}       \* between put's return and append's
Owning == {"write"} \cup Publishing      \* holding the key this call created

(* Every variable has its type, a thread has a logger and a record exactly *)
(* while it is in a call, and what is written is listed.                   *)
TypeOK ==
  /\ keys \subseteq Nat
  /\ DOMAIN objects \subseteq keys
  /\ \A k \in DOMAIN objects : objects[k] \in AuditRecordType
  /\ lstate \in [Loggers -> {"closed", "opening", "open", "broken"}]
  /\ head \in [Loggers -> Digests]
  /\ seq \in [Loggers -> Nat]
  /\ tail \in [Loggers -> Nat]
  /\ pc \in [Threads -> {"idle", "hash", "link", "put", "write", "upload"}
                        \cup Publishing]
  /\ using \in [Threads -> Loggers \cup {None}]
  /\ rec \in [Threads -> AuditRecordType \cup {None}]
  /\ \A t \in Threads : IF pc[t] = "idle"
                        THEN using[t] = None /\ rec[t] = None
                        ELSE using[t] # None /\ rec[t] # None
  /\ issued \subseteq Events
  /\ acked \subseteq AuditRecordType

(* One call of append at a time in all processes: what the S3 store, whose *)
(* head and put are two requests, needs of its callers.                    *)
Serial == \A t, u \in Threads : pc[t] # "idle" /\ pc[u] # "idle" => t = u

(* Whatever the interleaving, the crashes and the failed writes, the       *)
(* records completely written so far pass verify_chain: a record is never  *)
(* linked to a digest that is not its predecessor's.                       *)
WrittenChainVerifies == Verified(ChainOf(DOMAIN objects, objects))

(* A record append returned to its caller is the one a reader finds under  *)
(* its key from then on ("Append-only means append-only").                 *)
AckedDurable ==
  \A r \in acked : r.sequence \in DOMAIN objects /\ objects[r.sequence] = r

(* _head and _sequence are assigned by two statements with no lock, yet no *)
(* two threads are ever between their put and those assignments on the     *)
(* same logger: the store's put-if-absent is the lock.                     *)
PublisherAlone ==
  \A t, u \in Threads :
    pc[t] \in Publishing /\ pc[u] \in Publishing /\ using[t] = using[u] => t = u

(* A logger whose next number is still free holds the digest of the record *)
(* just before it: what it appends next cannot fork the chain.             *)
NextLinksToTail ==
  \A l \in Loggers :
    lstate[l] = "open" /\ seq[l] \notin keys =>
      IF seq[l] = 0
      THEN head[l] = Genesis
      ELSE /\ seq[l] - 1 \in DOMAIN objects
           /\ head[l] = objects[seq[l] - 1].record_hash

(* A logger whose number was taken by another writer, or by its own failed *)
(* write, and which no call in progress is about to move, stays so until   *)
(* it is constructed again: every append on it raises DuplicateKeyError.   *)
Stale(l) ==
  /\ lstate[l] = "open"
  /\ seq[l] \in keys
  /\ \A t \in Threads : pc[t] \in Owning => using[t] # l

StaleUntilReopened ==
  [][\A l \in Loggers : Stale(l) => Stale(l)' \/ lstate'[l] = "closed"]_vars

(* The store, its keys and its digests implement the log of AuditLog: the  *)
(* written events, and the positions callers were told about.              *)
Log == INSTANCE AuditLog WITH
         log <- [k \in DOMAIN objects |-> objects[k].event],
         acked <- {<<r.sequence, r.event>> : r \in acked}

ImplementsLog == Log!Spec

(* A logger constructed when no call is in progress picks up the chain     *)
(* where the previous process left it: the constructor does not raise and  *)
(* the number it will use next is free.                                    *)
ResumePicksUpChain ==
  [][\A l \in Loggers :
       /\ lstate[l] = "opening" /\ lstate'[l] # "opening"
       /\ \A t \in Threads : pc[t] = "idle"
       => lstate'[l] = "open" /\ seq'[l] \notin keys]_vars
=============================================================================
