---------------------------- MODULE AuditDossier ----------------------------
(***************************************************************************)
(* assemble_dossier (chapters/ch12/audit_queries.py) running beside the    *)
(* writers of AuditChain: AuditLogger.records() lists the keys, then gets  *)
(* and parses one object after the other, and verify_chain judges what was *)
(* read.  The store may change between any two of these.                   *)
(***************************************************************************)
EXTENDS AuditChain

CONSTANT Readers        \* calls of assemble_dossier

VARIABLES
  stage,     \* "idle", "listing", "reading", "done" or "failed"
  known,     \* records acknowledged before the reader began
  floor,     \* keys that existed before the reader began
  todo,      \* listed keys not read yet
  chain      \* records read so far, in key order

readerVars == <<stage, known, floor, todo, chain>>
dossierVars == <<vars, readerVars>>

DossierInit ==
  /\ Init
  /\ stage = [r \in Readers |-> "idle"]
  /\ known = [r \in Readers |-> {}]
  /\ floor = [r \in Readers |-> {}]
  /\ todo = [r \in Readers |-> {}]
  /\ chain = [r \in Readers |-> << >>]

BeginRecords(r) ==
  /\ stage[r] = "idle"
  /\ stage' = [stage EXCEPT ![r] = "listing"]
  /\ known' = [known EXCEPT ![r] = acked]
  /\ floor' = [floor EXCEPT ![r] = keys]
  /\ UNCHANGED <<vars, todo, chain>>

\* Mutant: the newest key is left out, in case it is still being written.
AllButNewest(r) == {{k \in ListedKeys : \E j \in ListedKeys : k < j}}

(* The directory scan takes several getdents calls: it answers every file  *)
(* that was there when it began and any of those created since.  A listing *)
(* of S3 is a snapshot of one page.                                        *)
PossibleListings(r) ==
  IF Backend = "local"
  THEN {floor[r] \cup recent : recent \in SUBSET (keys \ floor[r])}
  ELSE {ListedKeys}

ListRecords(r) ==
  /\ stage[r] = "listing"
  /\ \E listing \in PossibleListings(r) :
       /\ todo' = [todo EXCEPT ![r] = listing]
       /\ stage' = [stage EXCEPT ![r] = IF listing = {} THEN "done" ELSE "reading"]
  /\ UNCHANGED <<vars, known, floor, chain>>

(* json.loads raises on an empty or partly written file.                   *)
RaiseUnreadable(r, k) ==
  /\ stage' = [stage EXCEPT ![r] = "failed"]
  /\ UNCHANGED <<todo, chain>>

ReadRecord(r) ==
  /\ stage[r] = "reading"
  /\ \E k \in todo[r] :
       /\ \A j \in todo[r] : k <= j
       /\ \/ /\ k \in DOMAIN objects
             /\ chain' = [chain EXCEPT ![r] = Append(@, objects[k])]
             /\ todo' = [todo EXCEPT ![r] = @ \ {k}]
             /\ stage' = [stage EXCEPT ![r] = IF todo[r] = {k} THEN "done" ELSE @]
          \/ /\ k \notin DOMAIN objects
             /\ RaiseUnreadable(r, k)
  /\ UNCHANGED <<vars, known, floor>>

DossierNext ==
  \/ Next /\ UNCHANGED readerVars
  \/ \E r \in Readers : BeginRecords(r) \/ ListRecords(r) \/ ReadRecord(r)

DossierSpec == DossierInit /\ [][DossierNext]_dossierVars

-----------------------------------------------------------------------------
(* Properties                                                              *)

Range1(s) == {s[i] : i \in 1..Len(s)}

(* Dossier.defensible of a dossier that was assembled at all.              *)
Defensible(r) == stage[r] = "done" /\ Verified(chain[r])

(* Verification runs over the whole chain: a defensible dossier saw every  *)
(* record acknowledged before it began, however writers interleave with    *)
(* its listing and its reads.                                              *)
DefensibleIsComplete ==
  \A r \in Readers : Defensible(r) => known[r] \subseteq Range1(chain[r])

(* A dossier is indefensible over an honest store only when the directory *)
(* scan skipped a key: whatever is written while records are read, a       *)
(* reader that raised nothing and has every number up to its last holds a  *)
(* chain that verifies.                                                    *)
HonestDossierVerifies ==
  \A r \in Readers :
    /\ stage[r] = "done"
    /\ \A i \in 1..Len(chain[r]) : chain[r][i].sequence = i - 1
    => Defensible(r)
=============================================================================
