------------------------------ MODULE PlanReview ------------------------------
(***************************************************************************)
(* internal/planreview/planreview.go: which operations of a plan a human   *)
(* is asked about, and what an answer means for the operation and for the  *)
(* rest of the run.  A session is [mode, skipAll]; its steps are operators *)
(* so that any process applying a plan can keep one.                       *)
(***************************************************************************)
PromptModes == {"required", "all", "none"}
Decisions   == {"accept", "skip", "accept_all", "skip_all"}
Session     == [mode : PromptModes, skipAll : BOOLEAN]

\* --prompts must name a mode; NewSession alone takes an empty one for "required".
ValidatePromptMode(mode) == mode \in PromptModes
NewSession(mode) == [mode |-> IF mode = "" THEN "required" ELSE mode, skipAll |-> FALSE]

\* NormalizeDecision, after lower-casing and turning "-" and " " into "_".
Spellings(d) == CASE d = "accept"     -> {"a", "accept"}
                  [] d = "skip"       -> {"s", "skip"}
                  [] d = "accept_all" -> {"aa", "all", "accept_all", "acceptall"}
                  [] d = "skip_all"   -> {"ss", "sa", "skip_all", "skipall"}
Means(text, d) == d \in Decisions /\ text \in Spellings(d)

ShouldPrompt(s, o) == \/ s.mode = "all"
                      \/ s.mode = "required" /\ o.risk = "requires_approval"

(***************************************************************************)
(* Session.Decide: what happens without asking, and after an answer d.     *)
(***************************************************************************)
Asks(s, o)      == ~s.skipAll /\ ShouldPrompt(s, o)
SkipsUnasked(s) == s.skipAll
Accepts(d)      == d \in {"accept", "accept_all"}

AfterMistyped(s, d) == [mode    |-> IF d = "accept_all" THEN d ELSE s.mode,
                        skipAll |-> s.skipAll \/ d = "skip_all"]
AfterForgetting(s, d) == [mode    |-> IF d = "accept_all" THEN "none" ELSE s.mode,
                          skipAll |-> s.skipAll]
After(s, d) == [mode    |-> IF d = "accept_all" THEN "none" ELSE s.mode,
                skipAll |-> s.skipAll \/ d = "skip_all"]
==============================================================================
