---------------------------- MODULE LoopBreaker ----------------------------
(***************************************************************************)
(* LoopSignatureBreaker (Chapter 16, loop_breaker.py): opens when a full   *)
(* window of recent calls are near-duplicates.  A text is the set of its   *)
(* tokens, which is all that text_similarity looks at.                     *)
(***************************************************************************)
EXTENDS Naturals, Sequences, FiniteSets

CONSTANTS
  Texts,             \* the token sets of the calls an agent makes
  Window,            \* window
  Threshold,         \* threshold, as a fraction <<numerator, denominator>>
  MaxSeen            \* bound on the calls between two resets

ASSUME LoopConstantsOK ==
  /\ \A text \in Texts : IsFiniteSet(text)
  /\ Window \in Nat /\ Window >= 2
  /\ Threshold \in Nat \X (Nat \ {0})
  /\ MaxSeen \in Nat

VARIABLES
  recent,  \* the deque
  opened,  \* "yes": the breaker is open
  seen     \* the calls observed since the last reset, in order

loopVars == <<recent, opened, seen>>

LoopInit ==
  /\ recent = << >>
  /\ opened = "no"
  /\ seen = << >>

(* text_similarity(left, right) >= threshold: the Jaccard ratio, 1 for two *)
(* texts without a token and 0 for one of them.                            *)
Similar(left, right) ==
  LET both == Cardinality(left \cap right)
      all == Cardinality(left \cup right)
  IN  IF all = 0 THEN Threshold[1] <= Threshold[2]
                 ELSE both * Threshold[2] >= Threshold[1] * all

\* Mutant: each call is compared with the one before it.
ConsecutiveSimilar(items) ==
  \A i \in 1..Len(items) - 1 : Similar(items[i], items[i + 1])

AllSimilar(items) ==
  \A i \in DOMAIN items : \A j \in i + 1..Len(items) : Similar(items[i], items[j])

(* deque(maxlen=window).append                                             *)
Pushed(text) ==
  IF Len(recent) < Window THEN Append(recent, text) ELSE Append(Tail(recent), text)

Verdict(items) ==
  IF Len(items) < Window THEN opened
  ELSE IF AllSimilar(items) THEN "yes" ELSE "no"

Observe(text) ==
  /\ Len(seen) < MaxSeen
  /\ recent' = Pushed(text)
  /\ opened' = Verdict(recent')
  /\ seen' = Append(seen, text)

ResetLoop ==
  /\ recent' = << >>
  /\ opened' = "no"
  /\ seen' = << >>

LoopNext ==
  \/ \E text \in Texts : Observe(text)
  \/ ResetLoop

LoopSpec == LoopInit /\ [][LoopNext]_loopVars

-----------------------------------------------------------------------------
(* Properties                                                              *)

(* Every variable has its type, and the deque is no longer than the window.*)
LoopTypeOK ==
  /\ recent \in Seq(Texts)
  /\ Len(recent) <= Window
  /\ opened \in {"yes", "no"}
  /\ seen \in Seq(Texts)

(* What the code does: the breaker is open exactly while the last window   *)
(* calls since the reset are near-duplicates of each other, every pair of  *)
(* them: similarity is not transitive, so a drift of small steps does not  *)
(* open it, and a window that slid over one different call closes it.      *)
(* Two phrasings in turn need not open it (OscillationOpens).              *)
OpenIffLooping ==
  opened = "yes"
    <=> /\ Len(seen) >= Window
        /\ \A i, j \in Len(seen) - Window + 1 .. Len(seen) :
             i = j \/ Similar(seen[i], seen[j])

(* What the comment above the loop over the pairs promises: a window of    *)
(* calls that alternate between two phrasings has similar pairs at         *)
(* distance two, which a check of consecutive calls only would miss.       *)
(* The code asks for every pair, the consecutive ones included: it opens   *)
(* on fewer windows than that check and not on more, and an alternation of *)
(* two phrasings that are not alike never opens it.                        *)
Alternates(calls) == \A i \in 1..Len(calls) - 2 : calls[i] = calls[i + 2]

OscillationOpens ==
  LET calls == SubSeq(seen, Len(seen) - Window + 1, Len(seen))
  IN  Len(seen) >= Window /\ {} \notin {calls[i] : i \in DOMAIN calls} /\ Alternates(calls)
        => opened = "yes"
=============================================================================
