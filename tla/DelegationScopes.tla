--------------------------- MODULE DelegationScopes ---------------------------
(***************************************************************************)
(* chapters/ch17/responsibility_chain.py across threads and tasks, and the *)
(* record ch17/decision_record.py makes of a chain.  The chain lives in a  *)
(* ContextVar: a thread starts with none, an asyncio task with a copy of   *)
(* its creator's, and a scope keeps a token to put back what it replaced,  *)
(* good once and in its own context.                                       *)
(***************************************************************************)
EXTENDS Integers, Sequences, FiniteSets, SequencesExt, FiniteSetsExt

CONSTANTS
  Threads,     \* threads, and tasks that run in a context of their own
  People,      \* principals somebody names
  MaxTokens,   \* bound on scopes entered and snapshots applied
  MaxHops      \* bound on the hops of a chain

ASSUME ScopesOK == MaxTokens \in Nat /\ MaxHops \in Nat

VARIABLES
  chain,       \* _chain, per context
  tokens,      \* [context, old, hops, used], in the order they were made
  snapshot,    \* what carry_context last returned
  born,        \* the chain a context began with
  orderly,     \* the context has left its scopes in reverse order so far
  decision     \* the latest decision record: [principal, chain]

scopeVars == <<chain, tokens, snapshot, born, orderly, decision>>

ScopesInit ==
  /\ chain = [c \in Threads |-> << >>]
  /\ tokens = << >>
  /\ snapshot = << >>
  /\ born = chain
  /\ orderly = [c \in Threads |-> TRUE]
  /\ decision = [principal |-> "none", chain |-> << >>]

\* A hop, with the scope that opened its chain.
Hop(principal, run) == [principal |-> principal, run |-> run]

OpenTokens(c) == {t \in DOMAIN tokens : tokens[t].context = c /\ ~tokens[t].used}

-----------------------------------------------------------------------------
Set(c, hops) ==
  /\ Len(tokens) < MaxTokens
  /\ tokens' = Append(tokens, [context |-> c, old |-> chain[c], hops |-> hops, used |-> FALSE])
  /\ chain' = [chain EXCEPT ![c] = hops]
  /\ UNCHANGED <<snapshot, born, orderly, decision>>

StartChain(c, principal) == Set(c, <<Hop(principal, Len(tokens) + 1)>>)

ApplyContext(c) == Set(c, snapshot)

\* Mutant: leaving a scope clears the chain.
PutBackNothing(t) == << >>

PutBack(t) == tokens[t].old

(* _ChainScope.__exit__ and release_context.  reset() refuses a token that *)
(* was used, or was made in another context, and changes nothing.          *)
ResetToken(c, t) ==
  /\ t \in OpenTokens(c)
  /\ tokens' = [tokens EXCEPT ![t].used = TRUE]
  /\ chain' = [chain EXCEPT ![c] = PutBack(t)]
  /\ orderly' = [orderly EXCEPT ![c] = @ /\ t = Max(OpenTokens(c))]
  /\ UNCHANGED <<snapshot, born, decision>>

(* delegate raises without a chain.  An empty delegated_by is none.        *)
Delegate(c, delegated_by) ==
  /\ chain[c] # << >> /\ Len(chain[c]) < MaxHops
  /\ LET last == Last(chain[c]) IN
       chain' = [chain EXCEPT ![c] =
         Append(@, Hop(IF delegated_by = "" THEN last.principal ELSE delegated_by, last.run))]
  /\ UNCHANGED <<tokens, snapshot, born, orderly, decision>>

CarryContext(c) ==
  /\ snapshot' = chain[c]
  /\ UNCHANGED <<chain, tokens, born, orderly, decision>>

(* A task begins in a copy of the context that creates it.                 *)
CreateTask(c, d) ==
  /\ c # d /\ chain[d] = << >> /\ \A t \in DOMAIN tokens : tokens[t].context # d
  /\ chain' = [chain EXCEPT ![d] = chain[c]]
  /\ born' = [born EXCEPT ![d] = chain[c]]
  /\ UNCHANGED <<tokens, snapshot, orderly, decision>>

(* assemble_decision_record raises on an empty chain.                      *)
AssembleDecisionRecord(c) ==
  /\ chain[c] # << >>
  /\ decision' = [principal |-> Last(chain[c]).principal, chain |-> chain[c]]
  /\ UNCHANGED <<chain, tokens, snapshot, born, orderly>>

ScopesNext ==
  \E c \in Threads :
    \/ \E p \in People : StartChain(c, p)
    \/ ApplyContext(c)
    \/ \E t \in DOMAIN tokens : ResetToken(c, t)
    \/ \E by \in People \cup {""} : Delegate(c, by)
    \/ CarryContext(c)
    \/ \E d \in Threads : CreateTask(c, d)
    \/ AssembleDecisionRecord(c)

ScopesSpec == ScopesInit /\ [][ScopesNext]_scopeVars

-----------------------------------------------------------------------------
(* Properties                                                              *)

(* However threads and tasks interleave, hand chains over and delegate,    *)
(* a chain holds the hops of one scope, so that a decision record names a  *)
(* principal of the run it belongs to; and in a context that leaves its    *)
(* scopes in reverse order the chain continues the one its innermost open  *)
(* scope set, or, with none open, the one the context began with: a scope  *)
(* that ended lends its authority to nothing after it.                     *)
ScopesNest ==
  /\ \A hops \in Range(chain) \cup {snapshot, decision.chain} :
       \A i \in DOMAIN hops : hops[i].run = hops[1].run
  /\ \A c \in Threads : orderly[c] =>
       IsPrefix(IF OpenTokens(c) = {} THEN born[c] ELSE tokens[Max(OpenTokens(c))].hops, chain[c])
         /\ (OpenTokens(c) = {} /\ born[c] = << >> => chain[c] = << >>)

(* "An agent cannot grant itself an authority the chain never gave it"     *)
(* (responsibility_chain.py:88).                                           *)
AuthorityComesFromChain ==
  \A c \in Threads : \A i \in DOMAIN chain[c] :
    i > 1 => \E j \in 1..(i - 1) : chain[c][j].principal = chain[c][i].principal
=============================================================================
