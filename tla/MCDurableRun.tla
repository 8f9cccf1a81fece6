---------------------------- MODULE MCDurableRun ----------------------------
(* DurableRun for TLC: workflows of three steps that between them have every *)
(* kind of step, a branch with and without `else`, a reference to a step     *)
(* that routing may skip, and steps that issue the same request.             *)
EXTENDS DurableRun

CONSTANTS x, y,          \* what contracts ask for
          quoted, padded \* y in quotes, x within blanks

StripBlanks == [n \in Noisy |-> IF n = padded THEN x ELSE n]
FoldNoise   == [n \in Noisy |-> IF n = padded THEN x ELSE y]

LOCAL Def(kind, prompt, refs, next) ==
  [kind |-> kind, prompt |-> prompt, refs |-> refs, next |-> next,
   arms |-> [l \in {} |-> 0], otherwise |-> 0]

LOCAL Route(labels, otherwise) ==
  [kind |-> "route", prompt |-> 1, refs |-> {}, next |-> 2,
   arms |-> [l \in labels |-> IF l = x THEN 2 ELSE 3], otherwise |-> otherwise]

\* llm -> one_of -> agent -> emit llm
Pipeline == <<Def("llm", 1, {}, 2), Def("one_of", 2, {1}, 3), Def("agent", 3, {2}, 4),
              Def("emit_llm", 4, {3}, 5)>>

\* route without else -> expect | agent -> emit text
Branch == <<Route({x, y}, 0), Def("expect", 2, {1}, 4), Def("agent", 3, {}, 4),
            Def("emit_text", 4, {1}, 5)>>

\* route with one arm and an else past step 2, which step 3 must render
Detour == <<Route({x}, 3), Def("llm", 2, {1}, 3), Def("expect", 3, {2}, 4),
            Def("emit_llm", 4, {}, 5)>>

\* two steps that send the model the same request
Twins == <<Def("llm", 1, {}, 2), Def("llm", 1, {}, 3), Def("one_of", 2, {1, 2}, 4),
           Def("emit_text", 4, {3}, 5)>>

AllPrograms == {Pipeline, Branch, Detour, Twins}
OneTwins    == {Twins}
OneBranch   == {Branch}
=============================================================================
