---------------------------- MODULE AuditRecords ----------------------------
(***************************************************************************)
(* The data of the Chapter 12 audit chain: the record, its digest and the  *)
(* verifier.  chapters/ch12/audit_logger.py and verify_chain.py.           *)
(*                                                                         *)
(* SHA-256 is modelled as a collision-free digest: a digest IS the         *)
(* sequence of record bodies it covers, so two digests are equal exactly   *)
(* when they cover the same bodies in the same order.  The body of a       *)
(* record is its sequence number and an event; an event stands for the     *)
(* payload together with the timestamp the logger's clock gave it, so no   *)
(* two calls of append produce the same event.                             *)
(***************************************************************************)
EXTENDS Naturals, Sequences, FiniteSets

CONSTANT Events      \* what callers append: a payload stamped by the clock

Bodies == [sequence : Nat, event : Events]
Digests == Seq(Bodies)
AuditRecordType ==
  [sequence : Nat, event : Events, prev_hash : Digests, record_hash : Digests]

Genesis == << >>

HashRecord(body, prev) == Append(prev, body)

BodyOf(r) == [sequence |-> r.sequence, event |-> r.event]

(***************************************************************************)
(* verify_chain: the digest the verifier expects before position i is      *)
(* Genesis or the previous record's own digest; the first position whose   *)
(* link or recomputed digest differs ends the scan, and that record and    *)
(* every later one are reported.                                           *)
(***************************************************************************)
ExpectedPrev(chain, i) == IF i = 1 THEN Genesis ELSE chain[i - 1].record_hash

Sound(r, prev) ==
  /\ r.prev_hash = prev
  /\ r.record_hash = HashRecord(BodyOf(r), prev)

Breaks(chain) == {i \in 1..Len(chain) : ~Sound(chain[i], ExpectedPrev(chain, i))}

Verified(chain) == Breaks(chain) = {}

(* Keys are zero-padded sequence numbers, so sorted() puts them in number  *)
(* order: position i of the listing has i - 1 smaller keys.                *)
SortedKeys(K) ==
  [i \in 1..Cardinality(K) |->
     CHOOSE k \in K : Cardinality({j \in K : j < k}) = i - 1]

(* records(): the objects behind the listed keys, in key order.            *)
ChainOf(K, contents) == [i \in 1..Cardinality(K) |-> contents[SortedKeys(K)[i]]]
=============================================================================
