------------------------- MODULE AuditReadersProofs -------------------------
(***************************************************************************)
(* What reading the Chapter 12 chain back is worth, for every number of    *)
(* writers, readers, records and changes: a dossier assembled beside the   *)
(* writers of the file store, and the verdict of verify_chain over a chain *)
(* that was changed at rest.                                               *)
(***************************************************************************)
EXTENDS AuditDossier, ChainIntegrity, AuditChainProofs

-----------------------------------------------------------------------------
(* assemble_dossier on the file store                                      *)

Stored(x) == x.sequence \in DOMAIN objects /\ objects[x.sequence] = x

(* What a reader has is in the store, and what it must find it has read or *)
(* will read: its listing answers at least the keys that were there when   *)
(* it began.                                                               *)
ReaderInv(r) ==
  /\ \A i \in 1..Len(chain[r]) : Stored(chain[r][i])
  /\ \A x \in known[r] : Stored(x)
  /\ stage[r] = "listing" => \A x \in known[r] : x.sequence \in floor[r]
  /\ stage[r] = "reading" =>
       \A x \in known[r] : x.sequence \in todo[r] \/ x \in Range1(chain[r])
  /\ stage[r] = "done" => known[r] \subseteq Range1(chain[r])

ReadersTypeOK ==
  /\ stage \in [Readers -> {"idle", "listing", "reading", "done", "failed"}]
  /\ known \in [Readers -> SUBSET AuditRecordType]
  /\ floor \in [Readers -> SUBSET Nat]
  /\ todo \in [Readers -> SUBSET Nat]
  /\ chain \in [Readers -> Seq(AuditRecordType)]

ReadersInv == ReadersTypeOK /\ \A r \in Readers : ReaderInv(r)

(* A bucket whose every key is in the one list answer that list_keys asks  *)
(* for; a directory always is.                                             *)
OnePage == ListedKeys = keys

(* A record that was written stays as it was written.                      *)
LEMMA StoredStays ==
  ASSUME IInv, [Next]_vars, NEW x, Stored(x)
  PROVE  Stored(x)'
<1>1. CASE objects' = objects
      BY <1>1 DEF Stored
<1>2. ASSUME NEW t \in Threads, Stores(t) PROVE Stored(x)'
  <2>1. rec[t].sequence \notin DOMAIN objects
        BY <1>2 DEF Stores, IInv, CallInv, TypeOK, Torn
  <2>2. /\ DOMAIN objects \subseteq DOMAIN objects'
        /\ \A k \in DOMAIN objects : objects'[k] = objects[k]
        BY <1>2, <2>1 DEF Stores, StoreObject
  <2> QED BY <2>2 DEF Stored
<1> QED BY <1>1, <1>2, ObjectsChange

LEMMA WritersSpec == DossierSpec => Spec
<1>1. DossierInit => Init
      BY DEF DossierInit
<1>2. [DossierNext]_dossierVars => [Next]_vars
      BY DEF DossierNext, dossierVars, BeginRecords, ListRecords, ReadRecord
<1> QED BY <1>1, <1>2, PTL DEF DossierSpec, Spec

(* The readers left alone by a step of the writers, or of another reader.  *)
LEMMA ReaderFrame ==
  ASSUME IInv, [Next]_vars, NEW r \in Readers, ReaderInv(r),
         stage'[r] = stage[r], known'[r] = known[r], floor'[r] = floor[r],
         todo'[r] = todo[r], chain'[r] = chain[r]
  PROVE  ReaderInv(r)'
<1>1. \A x : Stored(x) => Stored(x)'
      BY StoredStays
<1> QED BY <1>1 DEF ReaderInv, Range1

LEMMA BeginStep ==
  ASSUME IInv, ReadersInv, NEW r \in Readers, BeginRecords(r)
  PROVE  ReaderInv(r)'
<1>1. /\ stage'[r] = "listing"
      /\ known'[r] = acked
      /\ floor'[r] = keys
      /\ chain'[r] = chain[r]
      /\ objects' = objects
      BY DEF BeginRecords, ReadersInv, ReadersTypeOK, vars, storeVars
<1>2. \A x \in acked : Stored(x) /\ x.sequence \in keys
      BY DEF IInv, AckedDurable, Stored, TypeOK
<1>3. ReaderInv(r)
      BY DEF ReadersInv
<1> QED BY <1>1, <1>2, <1>3 DEF ReaderInv, Stored

LEMMA ListStep ==
  ASSUME OnePage, IInv, ReadersInv, NEW r \in Readers, ListRecords(r)
  PROVE  ReaderInv(r)'
<1>1. PICK listing \in PossibleListings(r) :
        /\ todo' = [todo EXCEPT ![r] = listing]
        /\ stage' = [stage EXCEPT ![r] = IF listing = {} THEN "done" ELSE "reading"]
      BY DEF ListRecords
<1>2. floor[r] \subseteq listing \/ listing = keys
      BY <1>1 DEF PossibleListings, OnePage
<1>3. /\ todo'[r] = listing
      /\ stage'[r] = IF listing = {} THEN "done" ELSE "reading"
      /\ known'[r] = known[r]
      /\ chain'[r] = chain[r]
      /\ objects' = objects
      BY <1>1 DEF ListRecords, ReadersInv, ReadersTypeOK, vars, storeVars
<1>4. ReaderInv(r) /\ stage[r] = "listing"
      BY DEF ReadersInv, ListRecords
<1>5. \A x \in known[r] : x.sequence \in listing
      BY <1>2, <1>4 DEF ReaderInv, Stored, IInv, TypeOK
<1> QED BY <1>3, <1>4, <1>5 DEF ReaderInv, Stored, Range1

LEMMA ReadStep ==
  ASSUME IInv, ReadersInv, NEW r \in Readers, ReadRecord(r)
  PROVE  ReaderInv(r)'
<1>1. ReaderInv(r) /\ stage[r] = "reading"
      BY DEF ReadersInv, ReadRecord
<1>2. known'[r] = known[r] /\ objects' = objects
      BY DEF ReadRecord, vars, storeVars
<1>3. PICK k \in todo[r] :
        \/ /\ k \in DOMAIN objects
           /\ chain' = [chain EXCEPT ![r] = Append(@, objects[k])]
           /\ todo' = [todo EXCEPT ![r] = @ \ {k}]
           /\ stage' = [stage EXCEPT ![r] = IF todo[r] = {k} THEN "done" ELSE @]
        \/ /\ k \notin DOMAIN objects
           /\ RaiseUnreadable(r, k)
      BY DEF ReadRecord
<1>4. CASE k \notin DOMAIN objects
  <2>1. stage'[r] = "failed" /\ chain'[r] = chain[r]
        BY <1>3, <1>4 DEF RaiseUnreadable, ReadersInv,
                  ReadersTypeOK
  <2> QED BY <1>1, <1>2, <2>1 DEF ReaderInv, Stored
<1>5. CASE k \in DOMAIN objects
  <2>1. /\ chain'[r] = Append(chain[r], objects[k])
        /\ todo'[r] = todo[r] \ {k}
        /\ stage'[r] = IF todo[r] = {k} THEN "done" ELSE "reading"
        BY <1>1, <1>3, <1>5 DEF ReadersInv, ReadersTypeOK
  <2>2. /\ chain[r] \in Seq(AuditRecordType)
        /\ objects[k] \in AuditRecordType
        /\ objects[k].sequence = k
        BY <1>1, <1>5 DEF ReadersInv, ReadersTypeOK, ReaderInv, IInv, TypeOK,
                          Linked
  <2>3. /\ chain'[r] \in Seq(AuditRecordType)
        /\ Len(chain'[r]) = Len(chain[r]) + 1
        /\ chain'[r][Len(chain[r]) + 1] = objects[k]
        /\ \A i \in 1..Len(chain[r]) : chain'[r][i] = chain[r][i]
        /\ Len(chain[r]) \in Nat
        BY <2>1, <2>2
  <2>4. /\ Range1(chain[r]) \subseteq Range1(chain'[r])
        /\ objects[k] \in Range1(chain'[r])
        BY <2>3 DEF Range1
  <2>5. \A i \in 1..Len(chain'[r]) : Stored(chain[r][i])'
    <3> SUFFICES ASSUME NEW i \in 1..Len(chain'[r])
                 PROVE  /\ chain'[r][i].sequence \in DOMAIN objects
                        /\ objects[chain'[r][i].sequence] = chain'[r][i]
        BY <1>2 DEF Stored
    <3>1. CASE i = Len(chain[r]) + 1
          BY <1>5, <2>2, <2>3, <3>1
    <3>2. CASE i \in 1..Len(chain[r])
          BY <1>1, <2>3, <3>2 DEF ReaderInv, Stored
    <3> QED BY <2>3, <3>1, <3>2
  <2>6. \A x \in known[r] : x.sequence \in todo[r] \ {k} \/ x \in Range1(chain'[r])
        BY <1>1, <2>4 DEF ReaderInv, Stored
  <2>7. \A x \in known[r] : Stored(x)'
        BY <1>1, <1>2 DEF ReaderInv, Stored
  <2>8. CASE todo[r] = {k}
    <3>1. stage'[r] = "done" /\ known'[r] \subseteq Range1(chain'[r])
          BY <1>2, <2>1, <2>6, <2>8
    <3> QED BY <1>2, <2>3, <2>5, <2>7, <3>1 DEF ReaderInv, Range1
  <2>9. CASE todo[r] # {k}
    <3>1. /\ stage'[r] = "reading"
          /\ \A x \in known'[r] :
               x.sequence \in todo'[r] \/ x \in Range1(chain'[r])
          BY <1>2, <2>1, <2>6, <2>9
    <3> QED BY <1>2, <2>3, <2>5, <2>7, <3>1 DEF ReaderInv, Range1
  <2> QED BY <2>8, <2>9
<1> QED BY <1>4, <1>5

LEMMA ReadersTypeStep ==
  ASSUME IInv, ReadersTypeOK, NEW r \in Readers,
         BeginRecords(r) \/ ListRecords(r) \/ ReadRecord(r)
  PROVE  ReadersTypeOK'
<1> USE DEF ReadersTypeOK
<1>1. /\ keys \subseteq Nat /\ acked \subseteq AuditRecordType
      /\ \A k \in DOMAIN objects : objects[k] \in AuditRecordType
      BY DEF IInv, TypeOK
<1>2. CASE BeginRecords(r)
      BY <1>1, <1>2 DEF BeginRecords
<1>3. CASE ListRecords(r)
  <2>1. \A listing \in PossibleListings(r) : listing \in SUBSET Nat
        BY <1>1 DEF PossibleListings, ListedKeys
  <2> QED BY <1>3, <2>1 DEF ListRecords
<1>4. CASE ReadRecord(r)
  <2>1. /\ known' = known /\ floor' = floor
        /\ stage' \in [Readers -> {"idle", "listing", "reading", "done", "failed"}]
        /\ todo' \in [Readers -> SUBSET Nat]
        BY <1>4, ZenonT(30) DEF ReadRecord, RaiseUnreadable
  <2>2. PICK k \in todo[r] :
          \/ k \in DOMAIN objects /\ chain' = [chain EXCEPT ![r] = Append(@, objects[k])]
          \/ chain' = chain
        BY <1>4 DEF ReadRecord, RaiseUnreadable
  <2>3. chain' \in [Readers -> Seq(AuditRecordType)]
    <3>1. CASE chain' = chain
          BY <3>1
    <3>2. CASE k \in DOMAIN objects /\ chain' = [chain EXCEPT ![r] = Append(@, objects[k])]
      <4>1. Append(chain[r], objects[k]) \in Seq(AuditRecordType)
            BY <1>1, <3>2
      <4> QED BY <3>2, <4>1
    <3> QED BY <2>2, <3>1, <3>2
  <2> QED BY <2>1, <2>3
<1> QED BY <1>2, <1>3, <1>4

LEMMA ReadersNext ==
  ASSUME OnePage, IInv, ReadersInv, [DossierNext]_dossierVars
  PROVE  ReadersInv'
<1>1. [Next]_vars
      BY DEF DossierNext, dossierVars, BeginRecords, ListRecords, ReadRecord
<1>2. ASSUME NEW b \in Readers, BeginRecords(b) \/ ListRecords(b) \/ ReadRecord(b)
      PROVE  ReadersInv'
  <2>1. ReaderInv(b)'
        BY <1>2, BeginStep, ListStep, ReadStep
  <2>2. ASSUME NEW r \in Readers \ {b} PROVE ReaderInv(r)'
    <3>1. /\ stage'[r] = stage[r] /\ known'[r] = known[r]
          /\ floor'[r] = floor[r] /\ todo'[r] = todo[r] /\ chain'[r] = chain[r]
          BY <1>2 DEF BeginRecords, ListRecords, ReadRecord, RaiseUnreadable,
                      ReadersInv, ReadersTypeOK
    <3>2. ReaderInv(r)
          BY DEF ReadersInv
    <3> QED BY <1>1, <3>1, <3>2, ReaderFrame
  <2>3. \A r \in Readers : ReaderInv(r)'
        BY <2>1, <2>2
  <2> QED BY <1>2, <2>3, ReadersTypeStep DEF ReadersInv
<1>3. CASE UNCHANGED readerVars
  <2>1. UNCHANGED <<stage, known, floor, todo, chain>>
        BY <1>3 DEF readerVars
  <2>2. ASSUME NEW r \in Readers PROVE ReaderInv(r)'
    <3>1. ReaderInv(r)
          BY DEF ReadersInv
    <3> QED BY <1>1, <2>1, <3>1, ReaderFrame
  <2> QED BY <2>1, <2>2 DEF ReadersInv, ReadersTypeOK
<1> QED BY <1>2, <1>3 DEF DossierNext, dossierVars

LEMMA ReadersHold == DossierSpec /\ []Guarded /\ []OnePage => [](IInv /\ ReadersInv)
<1>1. DossierInit => ReadersInv
      BY DEF DossierInit, ReadersInv, ReadersTypeOK, ReaderInv
<1>2. OnePage /\ IInv /\ ReadersInv /\ [DossierNext]_dossierVars => ReadersInv'
      BY ReadersNext
<1> QED BY <1>1, <1>2, GuardedHolds, WritersSpec, PTL DEF DossierSpec

LEMMA LocalReadersHold ==
  ASSUME Backend = "local"
  PROVE  DossierSpec => [](IInv /\ ReadersInv)
<1>1. OnePage
      BY DEF OnePage, ListedKeys
<1> QED BY <1>1, LocalIsGuarded, ReadersHold, PTL

LEMMA ReadIsComplete ==
  ASSUME ReadersInv
  PROVE  DefensibleIsComplete
BY DEF ReadersInv, ReaderInv, DefensibleIsComplete, Defensible

LEMMA ReadVerifies ==
  ASSUME IInv, ReadersInv
  PROVE  HonestDossierVerifies
<1> SUFFICES ASSUME NEW r \in Readers, stage[r] = "done",
                    \A i \in 1..Len(chain[r]) : chain[r][i].sequence = i - 1,
                    NEW i \in 1..Len(chain[r])
             PROVE  Sound(chain[r][i], ExpectedPrev(chain[r], i))
    BY DEF HonestDossierVerifies, Defensible, Verified, Breaks
<1>1. ReaderInv(r) /\ Len(chain[r]) \in Nat
      BY DEF ReadersInv, ReadersTypeOK
<1>2. \A j \in 1..Len(chain[r]) :
        j - 1 \in DOMAIN objects /\ objects[j - 1] = chain[r][j]
      BY <1>1 DEF ReaderInv, Stored
<1>3. Sound(objects[i - 1], PrevDigest(i - 1))
      BY <1>2 DEF IInv, Linked
<1>4. PrevDigest(i - 1) = ExpectedPrev(chain[r], i)
  <2>1. CASE i = 1
        BY <2>1 DEF PrevDigest, ExpectedPrev
  <2>2. CASE i # 1
    <3>1. i - 1 \in 1..Len(chain[r]) /\ i - 1 # 0 /\ (i - 1) - 1 \in Nat
          BY <1>1, <2>2
    <3>2. objects[(i - 1) - 1] = chain[r][i - 1]
          BY <1>2, <3>1
    <3> QED BY <2>2, <3>1, <3>2 DEF PrevDigest, ExpectedPrev
  <2> QED BY <2>1, <2>2
<1> QED BY <1>2, <1>3, <1>4

(* A defensible dossier of the file store saw every record acknowledged    *)
(* before it began, whatever writers, crashes and other readers did while  *)
(* it listed and read (assemble_dossier, AuditLogger.records).             *)
THEOREM DefensibleDossiersComplete ==
  ASSUME Backend = "local"
  PROVE  DossierSpec => []DefensibleIsComplete
BY LocalReadersHold, ReadIsComplete, PTL

(* A dossier that raised nothing and has every number up to its last       *)
(* verifies: beside honest writers only a skipped key makes one            *)
(* indefensible.                                                           *)
THEOREM HonestDossiersVerify ==
  ASSUME Backend = "local"
  PROVE  DossierSpec => []HonestDossierVerifies
BY LocalReadersHold, ReadVerifies, PTL

(* On S3 both hold while the bucket fits the one page that list_keys asks  *)
(* for, beside callers of append that take turns; a second page is what    *)
(* makes a dossier defensible and incomplete.                              *)
THEOREM SmallBucketDossiers ==
  ASSUME Backend = "s3", "head" \notin Faults
  PROVE  DossierSpec /\ []Serial /\ []OnePage
           => []DefensibleIsComplete /\ []HonestDossierVerifies
<1>1. Serial => Guarded
      BY DEF Guarded
<1> QED BY <1>1, ReadersHold, ReadIsComplete, ReadVerifies, PTL

-----------------------------------------------------------------------------
(* verify_chain over a chain that was changed at rest                      *)

(* What the logger wrote: record m carries a digest of m bodies, so that a *)
(* digest tells the position it was made for.                              *)
WrittenSound ==
  \A m \in 1..Len(written) :
    /\ Sound(written[m], ExpectedPrev(written, m))
    /\ Len(ExpectedPrev(written, m)) = m - 1
    /\ Len(written[m].record_hash) = m

(* Changes edit payloads and move records; no record has a digest that was *)
(* not written with it.                                                    *)
StoredWasWritten ==
  \A i \in 1..Len(stored) : \E m \in 1..Len(written) :
    /\ stored[i].record_hash = written[m].record_hash
    /\ stored[i].prev_hash = written[m].prev_hash
    /\ stored[i].sequence = written[m].sequence

(* Up to where the scan is everything is as it was written, and it expects *)
(* the digest that was written there.                                      *)
ScanOnTrack ==
  /\ index \in 1..Len(stored) + 1
  /\ \A i \in 1..(index - 1) : stored[i] = written[i]
  /\ expected = ExpectedPrev(stored, index)
  /\ unverifiable = << >>

IntegrityInv ==
  /\ written \in Seq(AuditRecordType)
  /\ stored \in Seq(AuditRecordType)
  /\ Len(stored) <= Len(written)
  /\ WrittenSound
  /\ StoredWasWritten
  /\ phase \in {"writing", "scanning", "done"}
  /\ phase = "writing" => index = 1 /\ expected = Genesis /\ unverifiable = << >>
  /\ phase = "scanning" => ScanOnTrack
  /\ CascadeFromFirstChange

(* A digest is made for one position and one body: a record verifies where *)
(* its predecessors do exactly when it is the one that was written there.  *)
LEMMA SoundIsWritten ==
  ASSUME IntegrityInv, NEW i \in 1..Len(stored)
  PROVE  /\ i \in 1..Len(written)
         /\ Sound(stored[i], ExpectedPrev(written, i)) <=> stored[i] = written[i]
<1> DEFINE prev == ExpectedPrev(written, i)
<1>1. /\ i \in 1..Len(written)
      /\ stored[i] \in AuditRecordType
      /\ written[i] \in AuditRecordType
      BY DEF IntegrityInv
<1>2. /\ Sound(written[i], prev)
      /\ Len(prev) = i - 1
      BY <1>1 DEF IntegrityInv, WrittenSound
<1>3. ASSUME Sound(stored[i], prev)
      PROVE  stored[i] = written[i]
  <2>1. PICK m \in 1..Len(written) : stored[i].record_hash = written[m].record_hash
        BY DEF IntegrityInv, StoredWasWritten
  <2>2. prev \in Digests
    <3>1. prev = written[i].prev_hash
          BY <1>2 DEF Sound
    <3> QED BY <1>1, <3>1 DEF AuditRecordType
  <2>3. /\ stored[i].record_hash = Append(prev, BodyOf(stored[i]))
        /\ written[i].record_hash = Append(prev, BodyOf(written[i]))
        BY <1>2, <1>3 DEF Sound, HashRecord
  <2>4. BodyOf(stored[i]) \in Bodies /\ BodyOf(written[i]) \in Bodies
        BY <1>1 DEF BodyOf, Bodies, AuditRecordType
  <2>5. Len(stored[i].record_hash) = i
        BY <1>1, <1>2, <2>2, <2>3, <2>4 DEF Digests
  <2>6. m = i
        BY <2>1, <2>5 DEF IntegrityInv, WrittenSound
  <2>7. BodyOf(stored[i]) = BodyOf(written[i])
    <3>1. /\ Append(prev, BodyOf(stored[i]))[i] = BodyOf(stored[i])
          /\ Append(prev, BodyOf(written[i]))[i] = BodyOf(written[i])
          BY <1>1, <1>2, <2>2, <2>4 DEF Digests
    <3> QED BY <2>1, <2>3, <2>6, <3>1
  <2>8. stored[i].prev_hash = written[i].prev_hash
        BY <1>2, <1>3 DEF Sound
  <2> QED BY <1>1, <2>1, <2>6, <2>7, <2>8 DEF BodyOf, AuditRecordType
<1> QED BY <1>1, <1>2, <1>3

LEMMA IntegrityInitInv == IntegrityInit => IntegrityInv
<1> SUFFICES ASSUME IntegrityInit PROVE IntegrityInv
    OBVIOUS
<1>1. Len(written) = 0 /\ Len(stored) = 0
      BY DEF IntegrityInit
<1>2. WrittenSound /\ StoredWasWritten
      BY <1>1 DEF WrittenSound, StoredWasWritten
<1> QED BY <1>1, <1>2 DEF IntegrityInit, IntegrityInv, CascadeFromFirstChange

LEMMA AppendRecordStep ==
  ASSUME IntegrityInv, NEW e \in Events, AppendRecord(e)
  PROVE  IntegrityInv'
<1> DEFINE n == Len(written)
           prev == ExpectedPrev(written, n + 1)
           body == [sequence |-> n, event |-> e]
           record == [sequence |-> n, event |-> e, prev_hash |-> prev,
                      record_hash |-> HashRecord(body, prev)]
<1>1. /\ written' = Append(written, record)
      /\ stored' = written'
      /\ UNCHANGED <<index, expected, unverifiable>>
      /\ phase = "writing" /\ phase' = "writing"
      BY DEF AppendRecord, scanVars
<1>2. n \in Nat /\ written \in Seq(AuditRecordType)
      BY DEF IntegrityInv
<1>3. prev \in Digests /\ Len(prev) = n
  <2>1. CASE n = 0
        BY <2>1 DEF ExpectedPrev, Genesis, Digests
  <2>2. CASE n # 0
    <3>1. n \in 1..n /\ (n + 1) - 1 = n /\ n + 1 # 1
          BY <1>2, <2>2
    <3>2. written[n] \in AuditRecordType /\ prev = written[n].record_hash
          BY <1>2, <3>1 DEF ExpectedPrev
    <3> QED BY <3>1, <3>2 DEF AuditRecordType, IntegrityInv, WrittenSound
  <2> QED BY <2>1, <2>2
<1>4. /\ BodyOf(record) = body
      /\ body \in Bodies
      /\ HashRecord(body, prev) \in Digests
      /\ Len(HashRecord(body, prev)) = n + 1
      /\ record \in AuditRecordType
      BY <1>2, <1>3 DEF BodyOf, Bodies, Digests, HashRecord, AuditRecordType
<1> HIDE DEF prev
<1>5. /\ record.prev_hash = prev
      /\ record.record_hash = HashRecord(body, prev)
      OBVIOUS
<1>6. Sound(record, prev) /\ Len(record.record_hash) = n + 1
      BY <1>4, <1>5 DEF Sound
<1> HIDE DEF record, body
<1>7. /\ written' \in Seq(AuditRecordType)
      /\ Len(written') = n + 1
      /\ written'[n + 1] = record
      /\ \A m \in 1..n : written'[m] = written[m]
      BY <1>1, <1>2, <1>4
<1>8. \A m \in 1..(n + 1) : ExpectedPrev(written', m) = ExpectedPrev(written, m)
      BY <1>2, <1>7 DEF ExpectedPrev
<1>9. WrittenSound'
  <2> SUFFICES ASSUME NEW m \in 1..(n + 1)
               PROVE  /\ Sound(written'[m], ExpectedPrev(written', m))
                      /\ Len(ExpectedPrev(written', m)) = m - 1
                      /\ Len(written'[m].record_hash) = m
      BY <1>7 DEF WrittenSound
  <2>1. CASE m = n + 1
        BY <1>2, <1>3, <1>6, <1>7, <1>8, <2>1 DEF prev
  <2>2. CASE m \in 1..n
        BY <1>7, <1>8, <2>2 DEF IntegrityInv, WrittenSound
  <2> QED BY <1>2, <2>1, <2>2
<1>10. StoredWasWritten'
       BY <1>1 DEF StoredWasWritten
<1> QED BY <1>1, <1>7, <1>9, <1>10 DEF IntegrityInv, CascadeFromFirstChange

LEMMA Removed ==
  ASSUME NEW D, NEW s \in Seq(D), NEW i \in 1..Len(s)
  PROVE  /\ RemoveAt(s, i) \in Seq(D)
         /\ Len(RemoveAt(s, i)) = Len(s) - 1
         /\ \A k \in 1..Len(RemoveAt(s, i)) : \E j \in 1..Len(s) : RemoveAt(s, i)[k] = s[j]
<1> DEFINE left == SubSeq(s, 1, i - 1)
           right == SubSeq(s, i + 1, Len(s))
<1>1. Len(s) \in Nat /\ i \in Nat /\ i <= Len(s) /\ i >= 1
      OBVIOUS
<1>2. /\ left \in Seq(D) /\ Len(left) = i - 1
      /\ \A k \in 1..(i - 1) : left[k] = s[k]
  <2>1. \A k \in 1..(i - 1) : s[k] \in D
        BY <1>1
  <2>2. left = [k \in 1..(i - 1) |-> s[k]]
        BY <1>1
  <2> QED BY <1>1, <2>1, <2>2
<1>3. /\ right \in Seq(D) /\ Len(right) = Len(s) - i
      /\ \A k \in 1..(Len(s) - i) : right[k] = s[i + k]
  <2>1. \A k \in 1..(Len(s) - i) : s[i + k] \in D
        BY <1>1
  <2>2. right = [k \in 1..(Len(s) - i) |-> s[i + k]]
        BY <1>1
  <2> QED BY <1>1, <2>1, <2>2
<1> HIDE DEF left, right
<1>4. RemoveAt(s, i) = left \o right
      BY DEF RemoveAt, left, right
<1>5. /\ left \o right \in Seq(D)
      /\ Len(left \o right) = Len(s) - 1
      /\ \A k \in 1..(i - 1) : (left \o right)[k] = s[k]
      /\ \A k \in i..(Len(s) - 1) : (left \o right)[k] = s[k + 1]
  <2>1. /\ left \o right \in Seq(D)
        /\ Len(left \o right) = Len(left) + Len(right)
        /\ \A k \in 1..Len(left) : (left \o right)[k] = left[k]
        /\ \A k \in 1..Len(right) : (left \o right)[Len(left) + k] = right[k]
    <3>1. left \in Seq(D) /\ right \in Seq(D)
          BY <1>2, <1>3
    <3>2. /\ left \o right \in Seq(D)
          /\ Len(left \o right) = Len(left) + Len(right)
          BY <3>1
    <3>3. \A k \in 1..Len(left) : (left \o right)[k] = left[k]
          BY <3>1
    <3>4. \A k \in 1..Len(right) : (left \o right)[Len(left) + k] = right[k]
          BY <3>1
    <3> QED BY <3>2, <3>3, <3>4
  <2>2. ASSUME NEW k \in i..(Len(s) - 1)
        PROVE  (left \o right)[k] = s[k + 1]
    <3> DEFINE j == k - (i - 1)
    <3>1. j \in 1..(Len(s) - i) /\ (i - 1) + j = k /\ i + j = k + 1
          BY <1>1
    <3> HIDE DEF j
    <3>2. (left \o right)[(i - 1) + j] = right[j] /\ right[j] = s[i + j]
          BY <1>2, <1>3, <2>1, <3>1
    <3> QED BY <3>1, <3>2
  <2>3. Len(left) + Len(right) = Len(s) - 1
        BY <1>1, <1>2, <1>3
  <2> QED BY <1>2, <2>1, <2>2, <2>3
<1>6. ASSUME NEW k \in 1..(Len(s) - 1)
      PROVE  \E j \in 1..Len(s) : (left \o right)[k] = s[j]
  <2>1. CASE k \in 1..(i - 1)
    <3>1. k \in 1..Len(s)
          BY <1>1, <2>1
    <3>2. (left \o right)[k] = s[k]
          BY <1>5, <2>1
    <3> QED BY <3>1, <3>2
  <2>2. CASE k \in i..(Len(s) - 1)
    <3>1. k + 1 \in 1..Len(s)
          BY <1>1, <2>2
    <3>2. (left \o right)[k] = s[k + 1]
          BY <1>5, <2>2
    <3> QED BY <3>1, <3>2
  <2>3. k \in 1..(i - 1) \/ k \in i..(Len(s) - 1)
        BY <1>1
  <2> QED BY <2>1, <2>2, <2>3
<1> QED BY <1>4, <1>5, <1>6

(* Every record of the new chain is one of the old, but for its payload.   *)
Shuffled(new, old) ==
  /\ new \in Seq(AuditRecordType)
  /\ Len(new) <= Len(old)
  /\ \A k \in 1..Len(new) : \E j \in 1..Len(old) :
       /\ new[k].record_hash = old[j].record_hash
       /\ new[k].prev_hash = old[j].prev_hash
       /\ new[k].sequence = old[j].sequence

LEMMA ChangeShuffles ==
  ASSUME stored \in Seq(AuditRecordType), Change
  PROVE  Shuffled(stored', stored)
<1>1. PICK i \in 1..Len(stored) :
        \/ \E e \in Events \ {stored[i].event} : stored' = Edited(i, e)
        \/ \E j \in 1..Len(stored) \ {i} : stored' = Exchanged(i, j)
        \/ stored' = RemoveAt(stored, i)
      BY DEF Change
<1>2. ASSUME NEW e \in Events, stored' = Edited(i, e)
      PROVE  Shuffled(stored', stored)
  <2> DEFINE edited == [stored[i] EXCEPT !.event = e]
  <2>1. stored[i] \in AuditRecordType
        OBVIOUS
  <2>2. /\ edited \in AuditRecordType
        /\ edited.record_hash = stored[i].record_hash
        /\ edited.prev_hash = stored[i].prev_hash
        /\ edited.sequence = stored[i].sequence
        BY <2>1 DEF AuditRecordType
  <2>3. stored' = [stored EXCEPT ![i] = edited]
        BY <1>2 DEF Edited
  <2> HIDE DEF edited
  <2>4. /\ stored' \in Seq(AuditRecordType)
        /\ Len(stored') = Len(stored)
        /\ \A k \in 1..Len(stored) :
             stored'[k] = IF k = i THEN edited ELSE stored[k]
        BY <2>2, <2>3
  <2> QED BY <2>2, <2>4 DEF Shuffled
<1>3. ASSUME NEW j \in 1..Len(stored) \ {i}, stored' = Exchanged(i, j)
      PROVE  Shuffled(stored', stored)
  <2>1. stored[i] \in AuditRecordType /\ stored[j] \in AuditRecordType
        OBVIOUS
  <2>2. /\ stored' \in Seq(AuditRecordType)
        /\ Len(stored') = Len(stored)
        /\ \A k \in 1..Len(stored) :
             stored'[k] = stored[IF k = i THEN j ELSE IF k = j THEN i ELSE k]
        BY <1>3, <2>1 DEF Exchanged
  <2>3. ASSUME NEW k \in 1..Len(stored)
        PROVE  \E m \in 1..Len(stored) : stored'[k] = stored[m]
    <3>1. (IF k = i THEN j ELSE IF k = j THEN i ELSE k) \in 1..Len(stored)
          OBVIOUS
    <3> QED BY <2>2, <3>1
  <2>4. Len(stored') <= Len(stored)
        BY <2>2
  <2> QED BY <2>2, <2>3, <2>4 DEF Shuffled
<1>4. ASSUME stored' = RemoveAt(stored, i)
      PROVE  Shuffled(stored', stored)
  <2>1. /\ stored' \in Seq(AuditRecordType)
        /\ Len(stored') = Len(stored) - 1
        /\ \A k \in 1..Len(stored') : \E j \in 1..Len(stored) : stored'[k] = stored[j]
    <3>1. PICK less : less = RemoveAt(stored, i)
          OBVIOUS
    <3>2. /\ less \in Seq(AuditRecordType) /\ Len(less) = Len(stored) - 1
          /\ \A k \in 1..Len(less) : \E j \in 1..Len(stored) : less[k] = stored[j]
          BY <3>1, Removed
    <3>3. stored' = less
          BY <1>4, <3>1
    <3> QED BY <3>2, <3>3
  <2>2. Len(stored') <= Len(stored)
        BY <2>1
  <2> QED BY <2>1, <2>2 DEF Shuffled
<1> QED BY <1>1, <1>2, <1>3, <1>4

LEMMA ChangeStep == ASSUME IntegrityInv, Change PROVE IntegrityInv'
<1>1. /\ UNCHANGED <<written, phase, index, expected, unverifiable>>
      /\ phase = "writing"
      BY DEF Change, scanVars
<1>2. /\ stored \in Seq(AuditRecordType) /\ Len(stored) \in Nat
      /\ Len(written) \in Nat /\ Len(stored) <= Len(written)
      BY DEF IntegrityInv
<1>3. Shuffled(stored', stored)
      BY <1>2, ChangeShuffles
<1>4. stored' \in Seq(AuditRecordType) /\ Len(stored') <= Len(written)
      BY <1>2, <1>3 DEF Shuffled
<1>5. StoredWasWritten'
      BY <1>1, <1>3 DEF IntegrityInv, StoredWasWritten, Shuffled
<1>6. WrittenSound'
      BY <1>1 DEF IntegrityInv, WrittenSound
<1> QED BY <1>1, <1>4, <1>5, <1>6 DEF IntegrityInv, CascadeFromFirstChange

LEMMA BeginScanStep == ASSUME IntegrityInv, BeginScan PROVE IntegrityInv'
<1>1. /\ UNCHANGED <<written, stored, index, expected, unverifiable>>
      /\ index = 1 /\ expected = Genesis /\ unverifiable = << >>
      /\ phase' = "scanning"
      BY DEF BeginScan, IntegrityInv
<1>2. ScanOnTrack'
      BY <1>1 DEF ScanOnTrack, ExpectedPrev, IntegrityInv
<1>3. WrittenSound' /\ StoredWasWritten'
      BY <1>1 DEF IntegrityInv, WrittenSound, StoredWasWritten
<1> QED BY <1>1, <1>2, <1>3 DEF IntegrityInv, CascadeFromFirstChange

LEMMA ScanStep == ASSUME IntegrityInv, ScanRecord PROVE IntegrityInv'
<1>1. /\ UNCHANGED <<written, stored>>
      /\ phase = "scanning" /\ ScanOnTrack
      /\ Len(stored) \in Nat
      BY DEF ScanRecord, IntegrityInv
<1>2. /\ WrittenSound' /\ StoredWasWritten'
      /\ written' \in Seq(AuditRecordType) /\ stored' \in Seq(AuditRecordType)
      /\ Len(stored') <= Len(written')
      BY <1>1 DEF IntegrityInv, WrittenSound, StoredWasWritten
<1>3. CASE index > Len(stored)
  <2>1. index \in Nat /\ phase' = "done" /\ unverifiable' = << >>
        BY <1>1, <1>3 DEF ScanRecord, ScanOnTrack
  <2>2. \A i \in 1..Len(stored) : stored[i] = written[i]
        BY <1>1, <1>3, <2>1 DEF ScanOnTrack
  <2>3. Changed' = {}
        BY <1>1, <2>2 DEF Changed
  <2> QED BY <1>2, <2>1, <2>3 DEF IntegrityInv, CascadeFromFirstChange
<1>4. CASE index <= Len(stored)
  <2>1. /\ index \in 1..Len(stored)
        /\ \A i \in 1..(index - 1) : stored[i] = written[i]
        BY <1>1, <1>4 DEF ScanOnTrack
  <2>2. expected = ExpectedPrev(written, index)
    <3>1. index # 1 => index - 1 \in 1..(index - 1)
          BY <2>1
    <3> QED BY <1>1, <2>1, <3>1 DEF ScanOnTrack, ExpectedPrev
  <2>3. RecordVerifies(stored[index], expected) <=> stored[index] = written[index]
        BY <2>1, <2>2, SoundIsWritten DEF RecordVerifies
  <2>4. CASE stored[index] = written[index]
    <3>1. /\ phase' = "scanning" /\ unverifiable' = << >>
          /\ index' = index + 1
          /\ expected' = stored[index].record_hash
          BY <1>1, <1>4, <2>1, <2>3, <2>4 DEF ScanRecord, ScanOnTrack
    <3>2. /\ index' \in 1..Len(stored) + 1
          /\ \A i \in 1..(index' - 1) : stored[i] = written[i]
          BY <1>1, <2>1, <2>4, <3>1
    <3>3. expected' = ExpectedPrev(stored, index')
          BY <2>1, <3>1 DEF ExpectedPrev
    <3>4. ScanOnTrack'
          BY <1>1, <3>1, <3>2, <3>3 DEF ScanOnTrack
    <3> QED BY <1>2, <3>1, <3>4 DEF IntegrityInv, CascadeFromFirstChange
  <2>5. CASE stored[index] # written[index]
    <3>1. phase' = "done" /\ unverifiable' = Cascade(index)
          BY <1>1, <1>4, <2>1, <2>3, <2>5 DEF ScanRecord
    <3>2. index \in Changed /\ \A i \in Changed : index <= i
          BY <1>1, <2>1, <2>5 DEF Changed
    <3>3. CascadeFromFirstChange'
          BY <1>1, <3>1, <3>2 DEF CascadeFromFirstChange, Changed, Cascade
    <3> QED BY <1>2, <3>1, <3>3 DEF IntegrityInv
  <2> QED BY <2>4, <2>5
<1>5. index \in Nat
      BY <1>1 DEF ScanOnTrack
<1> QED BY <1>1, <1>3, <1>4, <1>5

(* Whatever payloads were edited and whatever records were exchanged or    *)
(* lost at rest, the digests staying as they were written, verify_chain    *)
(* reports exactly the records from the first position that is not as it   *)
(* was written, for chains of any length and any number of such changes.   *)
(* Somebody who recomputes the digests behind an edit has a chain that     *)
(* verifies, as append_only_store.py says; that is not among the changes.  *)
THEOREM TamperingCascades == IntegritySpec => []CascadeFromFirstChange
<1>1. IntegrityInv /\ [IntegrityNext]_integrityVars => IntegrityInv'
  <2> SUFFICES ASSUME IntegrityInv, [IntegrityNext]_integrityVars
               PROVE  IntegrityInv'
      OBVIOUS
  <2>1. CASE UNCHANGED integrityVars
    <3>1. UNCHANGED <<written, stored, phase, index, expected, unverifiable>>
          BY <2>1 DEF integrityVars
    <3>2. WrittenSound' /\ StoredWasWritten'
          BY <3>1 DEF IntegrityInv, WrittenSound, StoredWasWritten
    <3>3. phase = "scanning" => ScanOnTrack'
          BY <3>1 DEF IntegrityInv, ScanOnTrack
    <3>4. Changed' = Changed
          BY <3>1 DEF Changed
    <3>5. CascadeFromFirstChange'
          BY <3>1, <3>4 DEF IntegrityInv, CascadeFromFirstChange
    <3> QED BY <3>1, <3>2, <3>3, <3>5 DEF IntegrityInv
  <2> QED BY <2>1, AppendRecordStep, ChangeStep, BeginScanStep, ScanStep
          DEF IntegrityNext
<1>2. IntegrityInv => CascadeFromFirstChange
      BY DEF IntegrityInv
<1> QED BY <1>1, <1>2, IntegrityInitInv, PTL DEF IntegritySpec
=============================================================================
