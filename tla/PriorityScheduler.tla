-------------------------- MODULE PriorityScheduler --------------------------
(***************************************************************************)
(* PriorityScheduler: deficit weighted round robin over three FIFO queues, *)
(* High (0), Normal (1) and Low (2).  A queue that gets its turn earns its *)
(* weight in quanta and spends them on the sizes of its messages.          *)
(***************************************************************************)
EXTENDS Integers, Sequences, SequencesExt

Priorities == 0..2

NewScheduler ==
  [queues             |-> [i \in Priorities |-> <<>>],
   deficit_counters   |-> [i \in Priorities |-> 0],
   should_add_quantum |-> [i \in Priorities |-> TRUE],
   served_in_turn     |-> [i \in Priorities |-> 0],
   current            |-> 0]

enqueue(s, m) == [s EXCEPT !.queues[m.priority] = Append(@, m)]

(* What queue i may spend in this turn. *)
Credit(s, config, i) ==
  s.deficit_counters[i]
    + IF s.should_add_quantum[i] THEN config.quantum_bytes * config.weights[i] ELSE 0

(* The turn goes to the next queue. *)
Pass(s, i, deficit) ==
  [s EXCEPT !.deficit_counters[i] = deficit,
            !.should_add_quantum[i] = TRUE,
            !.served_in_turn[i] = 0,
            !.current = (i + 1) % 3]

(* A defect the mutants use: a served queue keeps its turn while its        *)
(* deficit lasts, without the burst limit.                                  *)
Serve_NoBurstLimit(s, config, i) ==
  LET m        == Head(s.queues[i])
      deficit  == Credit(s, config, i) - m.size
      popped   == [s EXCEPT !.queues[i] = Tail(@)]
      has_more == Len(s.queues[i]) > 1 /\ deficit > 0
  IN [message |-> <<m>>,
      scheduler |-> IF has_more
                    THEN [popped EXCEPT !.deficit_counters[i] = deficit,
                                        !.should_add_quantum[i] = FALSE,
                                        !.served_in_turn[i] = @ + 1]
                    ELSE Pass(popped, i, deficit)]

(* Queue i gives up its first message, and keeps its turn while it has more *)
(* to send, something left to spend and a part of its burst left.           *)
Serve(s, config, i) ==
  LET m        == Head(s.queues[i])
      deficit  == Credit(s, config, i) - m.size
      popped   == [s EXCEPT !.queues[i] = Tail(@)]
      burst    == IF config.weights[i] > 1 THEN config.weights[i] ELSE 1
      has_more == /\ Len(s.queues[i]) > 1
                  /\ deficit > 0
                  /\ s.served_in_turn[i] + 1 < burst
  IN [message |-> <<m>>,
      scheduler |-> IF has_more
                    THEN [popped EXCEPT !.deficit_counters[i] = deficit,
                                        !.should_add_quantum[i] = FALSE,
                                        !.served_in_turn[i] = @ + 1]
                    ELSE Pass(popped, i, deficit)]

Servable(s, config, i) ==
  s.queues[i] # <<>> /\ Credit(s, config, i) >= Head(s.queues[i]).size

(* The first n queues, from the current one on, were visited in vain: a     *)
(* queue that waits keeps its credit, an empty one loses it.                *)
Visited(s, config, n) ==
  LET vain(i) == (i - s.current) % 3 < n
  IN [queues |-> s.queues,
      deficit_counters |-> [i \in Priorities |->
         IF ~vain(i) THEN s.deficit_counters[i]
         ELSE IF s.queues[i] = <<>> THEN 0 ELSE Credit(s, config, i)],
      should_add_quantum |-> [i \in Priorities |-> vain(i) \/ s.should_add_quantum[i]],
      served_in_turn |-> [i \in Priorities |-> IF vain(i) THEN 0 ELSE s.served_in_turn[i]],
      current |-> (s.current + n) % 3]

(* At most one visit to every queue: a caller may get nothing, <<>>, while  *)
(* messages wait for a larger deficit.                                      *)
dequeue(s, config) ==
  LET found == {n \in Priorities : Servable(s, config, (s.current + n) % 3)}
      first == CHOOSE n \in found : \A k \in found : n <= k
  IN IF found = {} THEN [message |-> <<>>, scheduler |-> Visited(s, config, 3)]
     ELSE Serve(Visited(s, config, first), config, (s.current + first) % 3)

Queued(s) == UNION {{s.queues[i][k] : k \in DOMAIN s.queues[i]} : i \in Priorities}
=============================================================================
