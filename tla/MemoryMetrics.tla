---------------------------- MODULE MemoryMetrics ----------------------------
(***************************************************************************)
(* chapters/ch16/memory_metrics.py: a vector store that is searched while  *)
(* it fills, the outcome each retrieval is counted as, and what was        *)
(* dropped to fit a window.  An item is its similarity to each query, in   *)
(* percent.                                                                *)
(***************************************************************************)
EXTENDS Integers, Sequences, FiniteSets, FiniteSetsExt, Functions, StableSort

CONSTANTS
  Queries,
  Memories,        \* items that may be stored: functions of the query
  TopK,         \* top_k of a search
  Drops,        \* `dropped' of a call: sequences of [kind, count]
  MaxItems, MaxObserved  \* bounds on the store, and on what is recorded

Relevance == 60

DroppableKinds == {"retrieval", "tool_results", "history"}

ASSUME MemoryOK ==
  /\ Memories \subseteq [Queries -> 0..100]
  /\ TopK \subseteq Nat
  /\ Drops \subseteq Seq([kind : STRING, count : Nat])

VARIABLES
  store,        \* LocalVectorStore.items
  retrieved,    \* MemoryMetrics.outcomes
  retrievals,   \* every retrieval, with the size of the store by then
  utilizations, \* number of utilizations observed
  truncations,  \* ContextMetrics.truncations
  offered       \* what calls wanted dropped: those that returned, and raised

memoryVars == <<store, retrieved, retrievals, utilizations, truncations, offered>>

NoDrops == [k \in DroppableKinds |-> 0]

MemoryInit ==
  /\ store = << >>
  /\ retrieved = [o \in {"empty", "miss", "hit"} |-> 0]
  /\ retrievals = << >>
  /\ utilizations = 0
  /\ truncations = NoDrops
  /\ offered = [e \in {"returned", "raised"} |-> [calls |-> 0, drops |-> NoDrops]]

-----------------------------------------------------------------------------
AddItem(item) ==
  /\ Len(store) < MaxItems
  /\ store' = Append(store, item)
  /\ UNCHANGED <<retrieved, retrievals, utilizations, truncations, offered>>

\* Mutant: the first items are taken, not the nearest.
SearchUnsorted(query, top_k) == SubSeq(store, 1, Min({top_k, Len(store)}))

Search(query, top_k) ==
  LET I == DOMAIN store
      order == Ordered(I, {p \in I \X I : store[p[1]][query] > store[p[2]][query]})
  IN  [k \in 1..Min({top_k, Len(store)}) |-> store[order[k]]]

OutcomeOf(query, results) ==
  IF results = << >> THEN "empty"
  ELSE IF Max({results[i][query] : i \in DOMAIN results}) >= Relevance THEN "hit" ELSE "miss"

RecordMemoryRetrieval(query, top_k) ==
  /\ Len(retrievals) < MaxObserved
  /\ LET outcome == OutcomeOf(query, Search(query, top_k)) IN
       /\ retrieved' = [retrieved EXCEPT ![outcome] = @ + 1]
       /\ retrievals' = Append(retrievals, [query |-> query, top_k |-> top_k,
                                            known |-> Len(store), outcome |-> outcome])
  /\ UNCHANGED <<store, utilizations, truncations, offered>>

DroppedOf(dropped, kind) ==
  SumFunctionOnSet([i \in DOMAIN dropped |-> dropped[i].count],
                   {i \in DOMAIN dropped : dropped[i].kind = kind})

AddDrops(counts, dropped) == [k \in DroppableKinds |-> counts[k] + DroppedOf(dropped, k)]

(* An unknown kind raises when its turn comes: by then the utilization is  *)
(* observed and the kinds before it are counted.                           *)
RecordContext(dropped) ==
  /\ utilizations < MaxObserved
  /\ utilizations' = utilizations + 1
  /\ LET unknown == {i \in DOMAIN dropped : dropped[i].kind \notin DroppableKinds}
         counted == IF unknown = {} THEN dropped ELSE SubSeq(dropped, 1, Min(unknown) - 1)
         end == IF unknown = {} THEN "returned" ELSE "raised"
     IN  /\ truncations' = AddDrops(truncations, counted)
         /\ offered' = [offered EXCEPT ![end] = [calls |-> @.calls + 1,
                                                  drops |-> AddDrops(@.drops, dropped)]]
  /\ UNCHANGED <<store, retrieved, retrievals>>

MemoryNext ==
  \/ \E item \in Memories : AddItem(item)
  \/ \E q \in Queries, k \in TopK : RecordMemoryRetrieval(q, k)
  \/ \E d \in Drops : RecordContext(d)

MemorySpec == MemoryInit /\ [][MemoryNext]_memoryVars

-----------------------------------------------------------------------------
(* Properties                                                              *)

(* "empty" is a cold start and nothing else, and the cut at top_k hides no *)
(* relevant memory: a retrieval is a hit exactly if the store by then held *)
(* an item above the bar, so that it is never answered worse as the store  *)
(* grows; every retrieval is counted once; and the truncations hold all    *)
(* that calls which returned dropped, and of those that raised no more     *)
(* than they wanted, while their utilizations are all in the mean.         *)
RetrievalsTold ==
  /\ \A i \in DOMAIN retrievals : LET r == retrievals[i] IN r.top_k > 0 =>
       /\ r.outcome = "empty" <=> r.known = 0
       /\ r.outcome = "hit" <=> \E j \in 1..r.known : store[j][r.query] >= Relevance
  /\ retrieved["empty"] + retrieved["miss"] + retrieved["hit"] = Len(retrievals)
  /\ utilizations = offered["returned"].calls + offered["raised"].calls
  /\ \A k \in DroppableKinds :
       truncations[k] - offered["returned"].drops[k] \in 0..offered["raised"].drops[k]
=============================================================================
