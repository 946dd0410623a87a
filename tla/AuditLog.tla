------------------------------ MODULE AuditLog ------------------------------
(***************************************************************************)
(* What Chapter 12 promises its callers, with no store, no digest and no   *)
(* thread in it: one log that only ever grows at its end, and callers who  *)
(* are told that their event is in it only when it is, and where.          *)
(***************************************************************************)
EXTENDS Naturals

CONSTANT Events

VARIABLES
  log,     \* the events recorded so far, a function on an initial
           \* segment of the naturals
  acked    \* <<position, event>> of every append whose caller was answered

vars == <<log, acked>>

Init ==
  /\ log = [i \in {} |-> i]
  /\ acked = {}

(* The only free position next to the ones in use.                        *)
Ends == ({0} \cup {i + 1 : i \in DOMAIN log}) \ DOMAIN log

Record(e) ==
  /\ \E n \in Ends :
       log' = [i \in DOMAIN log \cup {n} |-> IF i = n THEN e ELSE log[i]]
  /\ UNCHANGED acked

Answer(i) ==
  /\ acked' = acked \cup {<<i, log[i]>>}
  /\ UNCHANGED log

Next ==
  \/ \E e \in Events : Record(e)
  \/ \E i \in DOMAIN log : Answer(i)

Spec == Init /\ [][Next]_vars
=============================================================================
