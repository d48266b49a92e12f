------------------------------- MODULE MCNode -------------------------------
(***************************************************************************)
(* What a node keeps, side by side: its Raft log on disk, and the memory   *)
(* for messages and cached log entries; and the harness that runs whole    *)
(* nodes over a seeded network.  They share no state: in a behaviour one   *)
(* of them runs and the others stay as they started.                       *)
(***************************************************************************)
EXTENDS WalStorage, Memory, Minimize, TLC

MCWorkloads ==
  {[MessageBuffer |-> 30, RaftLogCache |-> 20, ConnectionPool |-> 10, BlockCache |-> 40],
   [MessageBuffer |-> 10, RaftLogCache |-> 60, ConnectionPool |-> 10, BlockCache |-> 20]}

MCFault(kind, n) == [kind |-> kind, n |-> n]
MCFaults ==      \* what from_seed draws
  {<<>>, <<MCFault("Delay", 1)>>, <<MCFault("Drop", 0)>>, <<MCFault("Duplicate", 2)>>,
   <<MCFault("Reorder", 2)>>, <<MCFault("Delay", 1), MCFault("Duplicate", 2)>>}
MCRules(effects) ==
  {[link |-> VoteLink, occurrence |-> k, effects |-> effects[k]] :
     k \in {j \in DOMAIN effects : effects[j] # <<>>}}
MCNetLinks == {VoteLink}
MCGenerations == <<2, 2>>
MCFaultSchedules ==
  {MCRules((0 :> <<>>) @@ (1 :> <<>>)), MCRules((0 :> <<MCFault("Delay", 2)>>) @@ (1 :> <<>>)),
   MCRules((0 :> <<MCFault("Delay", 1), MCFault("Duplicate", 2)>>) @@ (1 :> <<MCFault("Drop", 0)>>))}
MCHarnessSchedules == {MCRules(f) : f \in [0..Votes - 1 -> MCFaults]}
MCRunSchedules ==
  {SelectSeq([i \in 1..RunVotes |-> [id |-> i - 1, effects |-> f[i]]], LAMBDA r : r.effects # <<>>) :
     f \in [1..RunVotes -> MCFaults]}

(* Three rules of one, two and one effects, and tests of their reductions:  *)
(* what contains one of two shapes fails, or only the whole and one shape.  *)
MCWhole ==
  <<[id |-> 1, effects |-> <<1>>], [id |-> 2, effects |-> <<1, 2>>], [id |-> 3, effects |-> <<1>>]>>
MCSchedules == {MCWhole}
MCReduced(atoms) ==
  SelectSeq([i \in 1..3 |-> [MCWhole[i] EXCEPT !.effects = SelectSeq(@, LAMBDA e : <<i, e>> \in atoms)]],
            LAMBDA r : <<r.id>> \in atoms)
MCShapes == {Shape(MCReduced(atoms)) : atoms \in SUBSET Shape(MCWhole)}
MCFailureSets ==
  {{s \in MCShapes : a \subseteq s \/ b \subseteq s} : a, b \in MCShapes}
    \union {{Shape(MCWhole), a} : a \in MCShapes}

VARIABLE part

testVars == <<netVars, harnessVars, minVars>>

NodeInit ==
  /\ part \in {"storage", "memory", "network", "harness", "minimize"}
  /\ Init /\ MemoryInit /\ HarnessInit
  /\ IF part = "network" THEN NetInit
     ELSE NetStart(IF part = "harness" THEN MCHarnessSchedules ELSE {{}})
  /\ IF part = "minimize" THEN MinimizeInit ELSE MinimizeIdle

NodeNext ==
  \/ part = "storage" /\ Next /\ UNCHANGED <<part, memVars, testVars>>
  \/ part = "memory" /\ MemoryNext /\ UNCHANGED <<part, vars, testVars>>
  \/ part = "network" /\ NetNext /\ UNCHANGED <<part, vars, memVars, harnessVars, minVars>>
  \/ part = "harness" /\ HarnessNext /\ UNCHANGED <<part, vars, memVars, minVars>>
  \/ part = "minimize" /\ MinimizeNext /\ UNCHANGED <<part, vars, memVars, netVars, harnessVars>>

NodeSpec == NodeInit /\ [][NodeNext]_<<part, vars, memVars, testVars>>

(* The network that stands in for the transport in tests and the harness on *)
(* it keep their word: see NetworkIsSound, VerdictIsRight, NeverStuck and   *)
(* MinimizedIsMinimal.                                                      *)
HarnessIsSound ==
  CASE part = "network" -> NetworkIsSound
    [] part = "harness" -> NetworkIsSound /\ VerdictIsRight /\ NeverStuck
    [] part = "minimize" -> MinimizedIsMinimal
    [] OTHER -> TRUE
=============================================================================
