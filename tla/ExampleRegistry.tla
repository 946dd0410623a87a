--------------------------- MODULE ExampleRegistry ---------------------------
(***************************************************************************)
(* chapters/registry.py: @example fills one registry while the chapter     *)
(* modules are imported, discover imports what is not imported yet, and    *)
(* select and coverage read the registry.                                  *)
(***************************************************************************)
EXTENDS Integers, Sequences, FiniteSets, StableSort

CONSTANTS
  Declares,    \* Declares[m]: the examples the m-th module declares, in order
  Needs,       \* Needs[m]: the modules m imports before it declares any
  AskedChapters, AskedKeys, AskedPillars,  \* the filters of select
  MaxFailures  \* bound on the imports that raise

LastChapter == 17

ASSUME RegistryOK ==
  /\ Declares \in Seq(Seq([chapter : Int, key : Int, pillar : STRING]))
  /\ DOMAIN Needs = DOMAIN Declares
  /\ \A m \in DOMAIN Needs : \A n \in Needs[m] : n < m

VARIABLES
  registered,  \* _EXAMPLES: the ids, and the spec of each
  imported,    \* the chapter modules in sys.modules
  failed,      \* the imports that raised, with how many examples were kept
  answers      \* what the last successful discover left, and how it was asked

registryVars == <<registered, imported, failed, answers>>

RegistryInit ==
  /\ registered = << >>
  /\ imported = {}
  /\ failed = << >>
  /\ answers = << >>

Id(spec) == <<spec.chapter, spec.key>>
Ids(specs) == {Id(specs[i]) : i \in DOMAIN specs}

\* Mutant: a second registration of an id replaces the first.
RunsToReplacing(declared, stop, taken) ==
  IF stop \in DOMAIN declared THEN stop - 1 ELSE Len(declared)

(* The body of a module up to `stop', the example whose code raises (one   *)
(* past the last when none does): a chapter out of 1-17 and an id that is  *)
(* registered raise too, and what was registered before that stays.        *)
RunsTo(declared, stop, taken) ==
  LET bad(i) == \/ i = stop
                \/ declared[i].chapter \notin 1..LastChapter
                \/ Id(declared[i]) \in taken \cup Ids(SubSeq(declared, 1, i - 1))
      stops == {i \in DOMAIN declared : bad(i)}
  IN  IF stops = {} THEN Len(declared) ELSE (CHOOSE i \in stops : \A j \in stops : i <= j) - 1

(* One import: the modules m needs first, then its own body.  A module     *)
(* whose body raised is not in sys.modules, so a retry runs it again from  *)
(* its top.                                                                *)
Import(m, stop) ==
  LET kept == RunsTo(Declares[m], stop, Ids(registered))
      done == kept = Len(Declares[m]) /\ stop > kept
  IN  /\ m \notin imported
      /\ Needs[m] \subseteq imported
      /\ registered' = registered \o SubSeq(Declares[m], 1, kept)
      /\ imported' = IF done THEN imported \cup {m} ELSE imported
      /\ failed' = IF done THEN failed
                   ELSE Append(failed, [module |-> m, kept |-> kept])

(* discover raises at the first import that does, whoever started it; a    *)
(* module may also be imported on its own, by a test.                      *)
ImportModule(m, stop) ==
  /\ Len(failed) < MaxFailures
  /\ Import(m, stop)
  /\ UNCHANGED answers

Chapters(specs) == {specs[i].chapter : i \in DOMAIN specs}

Before(a, b) ==
  a.chapter < b.chapter \/ (a.chapter = b.chapter /\ a.key < b.key)

(* all_examples, then the filters of select: a chapter (0 for any), the    *)
(* ids or keys wanted ({} for any) and a pillar ("" for any).              *)
Asked(s, chapter, wanted, pillar) ==
  /\ chapter \in {0, s.chapter}
  /\ wanted = {} \/ s.key \in wanted
  /\ pillar \in {"", s.pillar}

Select(chapter, wanted, pillar) ==
  LET I == {i \in DOMAIN registered : Asked(registered[i], chapter, wanted, pillar)}
      order == Ordered(I, {p \in I \X I : Before(registered[p[1]], registered[p[2]])})
  IN  [k \in DOMAIN order |-> registered[order[k]]]

(* It reads the registry once every chapter module is imported.            *)
Ask(chapter, wanted, pillar) ==
  /\ imported = DOMAIN Declares
  /\ answers' = [chapter |-> chapter, wanted |-> wanted, pillar |-> pillar,
                 specs |-> Select(chapter, wanted, pillar),
                 uncovered |-> (1..LastChapter) \ Chapters(registered)]
  /\ UNCHANGED <<registered, imported, failed>>

RegistryNext ==
  \/ \E m \in DOMAIN Declares : \E stop \in 1..(Len(Declares[m]) + 1) : ImportModule(m, stop)
  \/ \E chapter \in AskedChapters, wanted \in AskedKeys, pillar \in AskedPillars :
       Ask(chapter, wanted, pillar)

RegistrySpec == RegistryInit /\ [][RegistryNext]_registryVars

-----------------------------------------------------------------------------
(* Properties                                                              *)

Declared == UNION {{Declares[m][i] : i \in DOMAIN Declares[m]} : m \in DOMAIN Declares}

(* An answer is never short: whatever imports failed and were retried on   *)
(* the way, a caller that gets an answer gets every example any chapter    *)
(* module declares that it asked for, each once and in order; and the      *)
(* chapters it calls uncovered are those that declare none.  A module      *)
(* whose import failed after it had registered an example is never         *)
(* imported again (its retry raises DuplicateExampleError), so that no     *)
(* answer is given at all.                                                 *)
SelectComplete ==
  /\ answers # << >> =>
       LET wanted == {s \in Declared :
                        Asked(s, answers.chapter, answers.wanted, answers.pillar)}
       IN  /\ {answers.specs[i] : i \in DOMAIN answers.specs} = wanted
           /\ Len(answers.specs) = Cardinality(wanted)
           /\ \A i \in 1..(Len(answers.specs) - 1) :
                Before(answers.specs[i], answers.specs[i + 1])
           /\ answers.uncovered = (1..LastChapter) \ {s.chapter : s \in Declared}
  /\ \A i \in DOMAIN failed : failed[i].kept > 0 => failed[i].module \notin imported
=============================================================================
