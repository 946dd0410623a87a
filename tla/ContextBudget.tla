---------------------------- MODULE ContextBudget ----------------------------
(***************************************************************************)
(* chapters/ch08/token_budget.py over the counter of ch08/model_router.py: *)
(* retrieval is trimmed, then the history summarized, until the parts fit. *)
(* Every test counts again, and a count asks the provider's API, or counts *)
(* words when there is no key or the call failed, timed out or made no     *)
(* sense.  A text is its words, a word the tokens the API counts for it.   *)
(***************************************************************************)
EXTENDS Integers, Sequences, SequencesExt, FiniteSetsExt

CONSTANTS
  Texts,         \* texts that may be a part of a context, or a summary
  BudgetTokens,  \* budgets
  Longest        \* COMPLEXITY_TOKEN_THRESHOLD of the router

ASSUME ContextOK ==
  /\ BudgetTokens \subseteq Nat \ {0} /\ Longest \in Nat
  /\ \A t \in Texts : t \in Seq(Nat \ {0})

VARIABLES
  counter,    \* "local", "provider", or "failing" at times
  context,    \* what was asked for: the four parts and budget_tokens
  callAt,     \* where the call is
  words,      \* the text _trim_to_token_limit has left
  limit,      \* its token_limit
  history,    \* current_history
  retrieval,  \* current_retrieval
  reported,   \* total_tokens of the BudgetedContext
  route       \* RoutingDecision.model for the question

fitted == <<history, retrieval>>
trimming == <<words, limit>>
contextVars == <<counter, context, callAt, words, limit, history, retrieval, reported, route>>

-----------------------------------------------------------------------------
(* count_tokens                                                            *)

Answers == CASE counter = "local" -> {FALSE}
             [] counter = "provider" -> {TRUE}
             [] OTHER -> BOOLEAN

CountTokens(text, answered) ==
  IF answered THEN SumFunction(text) ELSE Len(text)

(* Four calls of the counter, each with an answer of its own.              *)
FourAnswers == [{"system", "question", "history", "retrieval"} -> Answers]

FixedTokens(a) ==
  CountTokens(context.system, a["system"]) + CountTokens(context.question, a["question"])

\* Mutant: the question is free.
TotalWithoutQuestion(h, r, a) ==
  CountTokens(context.system, a["system"]) + CountTokens(h, a["history"]) + CountTokens(r, a["retrieval"])

TotalTokens(h, r, a) ==
  FixedTokens(a) + CountTokens(h, a["history"]) + CountTokens(r, a["retrieval"])

ContextInit ==
  /\ counter \in {"local", "provider", "failing"}
  /\ context \in [system : Texts, question : Texts, history : Texts, retrieval : Texts,
                  budget : BudgetTokens]
  /\ callAt = "start"
  /\ words = << >> /\ limit = 0
  /\ history = context.history /\ retrieval = context.retrieval
  /\ reported = 0
  /\ route = "none"

-----------------------------------------------------------------------------
(* fit_context_to_budget                                                   *)

(* A test that passes returns, and counts once more for the record.        *)
Return(a) ==
  /\ TotalTokens(history, retrieval, a) <= context.budget
  /\ \E again \in FourAnswers : reported' = TotalTokens(history, retrieval, again)
  /\ callAt' = "returned"
  /\ UNCHANGED <<counter, context, fitted, trimming, route>>

(* _trim_to_token_limit gives up a text that has no room at once.          *)
BeginTrim(text, tokens, next) ==
  /\ limit' = tokens
  /\ words' = IF tokens <= 0 THEN << >> ELSE text
  /\ callAt' = next

FirstCheck(a) ==
  /\ callAt = "start"
  /\ \/ Return(a)
     \/ /\ TotalTokens(history, retrieval, a) > context.budget
        /\ \E b \in FourAnswers :
             BeginTrim(retrieval,
               context.budget - FixedTokens(b) - CountTokens(history, b["history"]), "retrieval")
        /\ UNCHANGED <<counter, context, fitted, reported, route>>

\* Mutant: a text that just fits loses a word.
TrimmedBelow(answered) == words = << >> \/ CountTokens(words, answered) < limit

Trimmed(answered) == words = << >> \/ CountTokens(words, answered) <= limit

PopWord(answered) ==
  /\ callAt \in {"retrieval", "summary", "history"}
  /\ ~Trimmed(answered)
  /\ words' = Front(words)
  /\ UNCHANGED <<counter, context, callAt, limit, fitted, reported, route>>

RetrievalTrimmed(answered) ==
  /\ callAt = "retrieval"
  /\ Trimmed(answered)
  /\ retrieval' = words
  /\ callAt' = "trimmed"
  /\ UNCHANGED <<counter, context, trimming, history, reported, route>>

(* summarize_history: nothing to summarize, or no room for anything, or    *)
(* what the model made of it.                                              *)
Summarize(tokens) ==
  \E summary \in Texts :
    BeginTrim(IF history = << >> THEN << >> ELSE summary, tokens,
              IF history = << >> \/ tokens = 0 THEN "summarized" ELSE "summary")

SecondCheck(a) ==
  /\ callAt = "trimmed"
  /\ \/ Return(a)
     \/ /\ TotalTokens(history, retrieval, a) > context.budget
        /\ \E b \in FourAnswers :
             Summarize(Max({0, context.budget - FixedTokens(b) - CountTokens(retrieval, b["retrieval"])}))
        /\ UNCHANGED <<counter, context, fitted, reported, route>>

(* A summary that is empty or no shorter gives way to the history itself,  *)
(* cut to the limit.                                                       *)
SummaryTrimmed(answered, own, whole) ==
  /\ callAt = "summary"
  /\ Trimmed(answered)
  /\ IF words # << >> /\ CountTokens(words, own) < CountTokens(history, whole)
     THEN callAt' = "summarized" /\ UNCHANGED trimming
     ELSE BeginTrim(history, limit, "history")
  /\ UNCHANGED <<counter, context, fitted, reported, route>>

HistoryTrimmed(answered) ==
  /\ callAt = "history"
  /\ Trimmed(answered)
  /\ callAt' = "summarized"
  /\ UNCHANGED <<counter, context, trimming, fitted, reported, route>>

Summarized ==
  /\ callAt = "summarized"
  /\ history' = words
  /\ callAt' = IF words # history THEN "last" ELSE "raised"
  /\ UNCHANGED <<counter, context, trimming, retrieval, reported, route>>

LastCheck(a) ==
  /\ callAt = "last"
  /\ \/ Return(a)
     \/ /\ TotalTokens(history, retrieval, a) > context.budget
        /\ callAt' = "raised"
        /\ UNCHANGED <<counter, context, trimming, fitted, reported, route>>

(* route_model counts the prompt once.                                     *)
RouteModel(answered, force_large) ==
  /\ callAt = "returned" /\ route = "none"
  /\ route' = IF ~force_large /\ CountTokens(context.question, answered) < Longest
              THEN "small" ELSE "large"
  /\ UNCHANGED <<counter, context, callAt, trimming, fitted, reported>>

ContextNext ==
  \/ \E a \in FourAnswers : FirstCheck(a) \/ SecondCheck(a) \/ LastCheck(a)
  \/ \E x \in Answers : PopWord(x) \/ RetrievalTrimmed(x) \/ HistoryTrimmed(x)
  \/ \E x, y, z \in Answers : SummaryTrimmed(x, y, z)
  \/ Summarized
  \/ \E x \in Answers, force \in BOOLEAN : RouteModel(x, force)

ContextSpec == ContextInit /\ [][ContextNext]_contextVars

-----------------------------------------------------------------------------
(* Properties                                                              *)

Steady == [p \in {"system", "question", "history", "retrieval"} |-> counter = "provider"]

Fits(h, r) == TotalTokens(h, r, Steady) <= context.budget

(* However often the API fails between one count and the next, a context   *)
(* that is returned is no longer in words than its budget and keeps a      *)
(* prefix of its retrieval, and a long question is not routed to the small *)
(* model.                                                                  *)
ReturnedFitsInWords ==
  /\ callAt = "returned" =>
       /\ Len(context.system) + Len(context.question) + Len(history) + Len(retrieval)
            <= context.budget
       /\ IsPrefix(retrieval, context.retrieval)
  /\ route = "small" => Len(context.question) < Longest

(* With a counter that does not change its mind the call does what it says *)
(* (token_budget.py:76): what is returned fits and so does its total; it   *)
(* gives up as few words of the retrieval as it can, touches the history   *)
(* only when no retrieval is left, and fails only when the history as it   *)
(* is fits with no retrieval at all, nor its summary.                      *)
TrimsThenSummarizes ==
  counter # "failing" =>
    /\ callAt = "returned" => Fits(history, retrieval) /\ reported <= context.budget
    /\ callAt = "returned" /\ retrieval # context.retrieval /\ history = context.history =>
         ~Fits(history, SubSeq(context.retrieval, 1, Len(retrieval) + 1))
    /\ history # context.history =>
         retrieval = << >> /\ ~Fits(context.history, << >>)
    /\ callAt = "raised" =>
         ~Fits(context.history, << >>) /\ ~Fits(history, << >>)

(* Both: in words under any failures, in tokens under a steady counter.    *)
ContextFits == ReturnedFitsInWords /\ TrimsThenSummarizes
=============================================================================
