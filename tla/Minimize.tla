------------------------------ MODULE Minimize ------------------------------
(***************************************************************************)
(* Reducing a schedule of faults that makes a run fail: minimize_schedule  *)
(* of chirps-mock (delta debugging, then one rule, then one effect at a    *)
(* time), minimize_steps of the harness (one step at a time), and the run  *)
(* command of the harness, which reduces with whole runs as the test and   *)
(* then writes the artifact that replay later checks.                      *)
(*                                                                         *)
(* A schedule is a sequence of rules, a rule a record [id, effects].       *)
(***************************************************************************)
EXTENDS Harness

CONSTANTS
  Schedules,     \* what minimize_schedule and minimize_steps are given
  FailureSets,   \* the tests: sets of shapes that still fail
  RunSchedules,  \* what the run command meets
  RunVotes       \* the votes of its scenario

VARIABLES
  job,           \* "schedule", "steps" or "run"
  original, current,
  failing,       \* the test of a "schedule" or "steps" job
  phase,         \* "chunks", "rules", "effects", "recheck", "done", "aborted"
  granularity, start,
  index, effect  \* where the loop over rules and effects is

minVars == <<job, original, current, failing, phase, granularity, start, index, effect>>

(* What distinguishes a schedule from its reductions. *)
Shape(s) ==
  UNION {{<<s[i].id>>} \union {<<s[i].id, e>> : e \in ToSet(s[i].effects)} : i \in DOMAIN s}

AsRules(s) ==
  {[link |-> VoteLink, occurrence |-> s[i].id, effects |-> s[i].effects] : i \in DOMAIN s}

ensure_fault_coverage(s) ==
  {"Delay", "Drop", "Duplicate", "Reorder"}
    \subseteq UNION {{e.kind : e \in ToSet(s[i].effects)} : i \in DOMAIN s}

(* The run command reduces what failed, to what fails with the same         *)
(* signature; the one failure a run that ends well can have is the injected *)
(* one.                                                                     *)
Test(s) ==
  IF job = "run"
  THEN CASE Verdict(AsRules(s), RunVotes) = "error" -> "error"
         [] Verdict(AsRules(s), RunVotes) = "duplicate"
              /\ Verdict(AsRules(original), RunVotes) = "duplicate" -> "fails"
         [] OTHER -> "passes"
  ELSE IF Shape(s) \in failing THEN "fails" ELSE "passes"

MinimizeInit ==
  /\ job \in {"schedule", "steps", "run"}
  /\ original \in IF job = "run" THEN {s \in RunSchedules : ensure_fault_coverage(s)} ELSE Schedules
  /\ failing \in IF job = "run" THEN {{}} ELSE FailureSets
  /\ current = original
  /\ phase = CASE job = "steps" -> "rules"
               [] Test(original) = "passes" -> "done"
               [] job = "schedule" -> "chunks"
               [] OTHER -> "rules"
  /\ granularity = 2 /\ start = 0 /\ index = 1 /\ effect = 1

MinimizeIdle ==
  /\ job = "steps" /\ original = <<>> /\ failing = {} /\ current = <<>> /\ phase = "done"
  /\ granularity = 2 /\ start = 0 /\ index = 1 /\ effect = 1

----------------------------------------------------------------------------
WithoutEffect(s, i, e) == [s EXCEPT ![i].effects = RemoveAt(@, e)]
Up(a, b) == (a + b - 1) \div b       \* div_ceil

(* The chunk from start on is left out if the rest still fails; when no     *)
(* chunk could be left out the chunks get smaller, down to single rules.    *)
TryChunk ==
  /\ phase = "chunks" /\ Len(current) >= 2
  /\ LET len  == Len(current)
         end  == IF start + Up(len, granularity) < len THEN start + Up(len, granularity) ELSE len
         rest == SubSeq(current, 1, start) \o SubSeq(current, end + 1, len)
     IN CASE Test(rest) = "fails" ->
               /\ current' = rest /\ start' = 0
               /\ granularity' = IF granularity > 3 THEN granularity - 1 ELSE 2
               /\ UNCHANGED phase
          [] Test(rest) # "fails" /\ end < len ->
               start' = end /\ UNCHANGED <<current, granularity, phase>>
          [] OTHER ->
               /\ start' = 0
               /\ phase' = IF granularity >= len THEN "rules" ELSE phase
               /\ granularity' = IF granularity >= len \/ 2 * granularity < len
                                 THEN (IF granularity >= len THEN granularity ELSE 2 * granularity)
                                 ELSE len
               /\ UNCHANGED current
  /\ UNCHANGED <<job, original, failing, index, effect>>

ChunksEnd ==
  /\ phase = "chunks" /\ Len(current) < 2
  /\ phase' = "rules"
  /\ UNCHANGED <<job, original, current, failing, granularity, start, index, effect>>

AfterRules == IF job = "steps" THEN "done" ELSE "effects"
AfterEffects == IF job = "run" THEN "recheck" ELSE "done"

(* One rule less, starting over whenever one could go.  A run that does not *)
(* end well ends the command with its error.                                *)
TryRule ==
  /\ phase = "rules"
  /\ IF index > Len(current)
     THEN phase' = AfterRules /\ index' = 1 /\ UNCHANGED current
     ELSE LET candidate == RemoveAt(current, index)
          IN CASE Test(candidate) = "fails" ->
                    current' = candidate /\ index' = 1 /\ UNCHANGED phase
               [] Test(candidate) = "error" -> phase' = "aborted" /\ UNCHANGED <<current, index>>
               [] OTHER -> index' = index + 1 /\ UNCHANGED <<current, phase>>
  /\ UNCHANGED <<job, original, failing, granularity, start, effect>>

(* One effect less. *)
TryEffect ==
  /\ phase = "effects"
  /\ CASE index > Len(current) ->
            phase' = AfterEffects /\ UNCHANGED <<current, index, effect>>
       [] index <= Len(current) /\ effect > Len(current[index].effects) ->
            index' = index + 1 /\ effect' = 1 /\ UNCHANGED <<phase, current>>
       [] OTHER ->
            LET candidate == WithoutEffect(current, index, effect)
            IN CASE Test(candidate) = "fails" ->
                      current' = candidate /\ index' = 1 /\ effect' = 1 /\ UNCHANGED phase
                 [] Test(candidate) = "error" -> phase' = "aborted" /\ UNCHANGED <<current, index, effect>>
                 [] OTHER -> effect' = effect + 1 /\ UNCHANGED <<phase, current, index>>
  /\ UNCHANGED <<job, original, failing, granularity, start>>

(* The run command runs the reduced schedule once more for its digest, and  *)
(* writes the artifact.                                                     *)
Recheck ==
  /\ phase = "recheck"
  /\ phase' = IF Test(current) = "error" THEN "aborted" ELSE "done"
  /\ UNCHANGED <<job, original, current, failing, granularity, start, index, effect>>

(* A worker dies in one of the runs: the command ends without an artifact. *)
RunBreaks ==
  /\ job = "run" /\ phase \in {"rules", "effects", "recheck"}
  /\ phase' = "aborted"
  /\ UNCHANGED <<job, original, current, failing, granularity, start, index, effect>>

MinimizeNext == TryChunk \/ ChunksEnd \/ TryRule \/ TryEffect \/ Recheck \/ RunBreaks

----------------------------------------------------------------------------
Reductions == UNION FailureSets

(* More faults never make a failing run pass. *)
Monotone == \A f \in failing, g \in Reductions : f \subseteq g => g \in failing

OneMinimalEffects ==
  \A i \in DOMAIN current : \A e \in DOMAIN current[i].effects :
    Test(WithoutEffect(current, i, e)) = "passes"

OneMinimalRules == \A i \in DOMAIN current : Test(RemoveAt(current, i)) = "passes"

(* The reduction is part of the original and still fails, if the original   *)
(* did, and no single effect can go.  No single rule can go either, when    *)
(* the job is one of rules only, when more faults never make a failing run  *)
(* pass, or when it is the harness's own test: so the check that replay     *)
(* makes of a stored artifact succeeds.                                     *)
MinimizedIsMinimal ==
  phase = "done" =>
    /\ Shape(current) \subseteq Shape(original)
    /\ Test(original) = "fails" => Test(current) = "fails"
    /\ job # "steps" /\ Test(original) = "fails" => OneMinimalEffects
    /\ (job \in {"steps", "run"} \/ Monotone) /\ Test(original) = "fails" => OneMinimalRules
=============================================================================
