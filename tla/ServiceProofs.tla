---------------------------- MODULE ServiceProofs ----------------------------
(***************************************************************************)
(* The file transfer service, for any limits, files, trees and numbers of  *)
(* calls: the throttle keeps its rate, a remove that returns Ok has        *)
(* removed, and sync_file makes the copies agree without losing a slot.    *)
(***************************************************************************)
EXTENDS FileSync, FileService, FiniteSetTheorems, TLAPS

\* A leaf that names no prover is given thirty seconds of SMT.
USE SMTT(30)

-----------------------------------------------------------------------------
(* BandwidthThrottle.                                                      *)

\* The bucket is never over-full, and what was taken and what is left have
\* been earned by the last refill, or were there at first.
ThrottleInv ==
    /\ ThrottleTypeOK
    /\ tokens <= limit /\ last_refill <= ticks
    /\ second * (taken + tokens) <= limit * (second + last_refill)

LEMMA Products ==
    ASSUME NEW a \in Nat, NEW b \in Nat, NEW c \in Nat
    PROVE  /\ a * b \in Nat /\ a * (b + c) = a * b + a * c
           /\ b <= c => a * b <= a * c
OBVIOUS

\* tokens_for_elapsed rounds down.
LEMMA RoundedDown ==
    ASSUME NEW e \in Nat
    PROVE  tokens_for_elapsed(e) \in Nat /\ second * tokens_for_elapsed(e) <= e * limit
<1>1. limit \in Nat /\ second \in Nat /\ second > 0
  BY ThrottleAssumption
<1>2. e * limit \in Nat
  BY <1>1
<1>3. ASSUME NEW k \in Nat PROVE k \div second \in Nat /\ second * (k \div second) <= k
  BY <1>1
<1> QED
  BY <1>2, <1>3, Zenon DEF tokens_for_elapsed

LEMMA Chain ==
    ASSUME NEW a \in Nat, NEW b \in Nat, NEW c \in Nat, NEW d \in Nat, NEW e \in Nat,
           a <= b + c, b <= d, c <= e
    PROVE  a <= d + e
OBVIOUS

LEMMA TakeTokensKeeps ==
    ASSUME ThrottleInv, NEW s \in Sender, TakeTokens(s)
    PROVE  ThrottleInv'
<1> DEFINE add == tokens_for_elapsed(ticks - last_refill)
           available == Least(tokens + add, limit)
           take == Least(available, remaining[s])
<1>1. /\ last_refill' = (IF add > 0 THEN ticks ELSE last_refill)
      /\ tokens' = available - take
      /\ remaining' = [remaining EXCEPT ![s] = remaining[s] - take]
      /\ wake' = [wake EXCEPT ![s] = IF take = remaining[s] THEN ticks
                                     ELSE ticks + missing_wait(remaining[s] - take)]
      /\ taken' = taken + take /\ ticks' = ticks
  BY ZenonT(30) DEF TakeTokens
<1>2. /\ tokens \in Nat /\ last_refill \in Nat /\ ticks \in Nat /\ taken \in Nat
      /\ remaining \in [Sender -> Nat] /\ wake \in [Sender -> Nat]
      /\ remaining[s] \in Nat
  BY Zenon DEF ThrottleInv, ThrottleTypeOK
<1>3. limit \in Nat /\ second \in Nat /\ limit > 0
  BY ThrottleAssumption
<1>4. tokens <= limit /\ last_refill <= ticks
  BY Zenon DEF ThrottleInv
<1>5. ticks - last_refill \in Nat
  BY <1>2, <1>4
<1>6. add \in Nat /\ second * add <= (ticks - last_refill) * limit
  BY <1>5, RoundedDown, Zenon
<1> HIDE DEF add
<1>7. available \in Nat /\ available <= tokens + add /\ available <= limit
  BY <1>2, <1>3, <1>6 DEF Least
<1> HIDE DEF available
<1>8. take \in Nat /\ take <= available /\ take <= remaining[s]
  BY <1>2, <1>7 DEF Least
<1> HIDE DEF take
<1>9. last_refill' \in Nat /\ last_refill' <= ticks' /\ tokens' \in Nat /\ tokens' <= limit
      /\ taken' \in Nat /\ ticks' \in Nat /\ taken' + tokens' = taken + available
  BY <1>1, <1>2, <1>3, <1>4, <1>7, <1>8
<1>10. remaining' \in [Sender -> Nat] /\ wake' \in [Sender -> Nat]
  <2>1. remaining[s] - take \in Nat
    BY <1>2, <1>8
  <2>2. ASSUME NEW k \in Nat PROVE missing_wait(k) \in Nat
    <3>1. (k * second) \in Nat
      BY <1>3
    <3>2. ASSUME NEW j \in Nat PROVE j \div limit \in Nat
      BY <1>3
    <3> QED
      BY <3>1, <3>2, Zenon DEF missing_wait
  <2>3. ticks + missing_wait(remaining[s] - take) \in Nat
    BY <1>2, <2>1, <2>2
  <2> QED
    BY <1>1, <1>2, <2>1, <2>3, ZenonT(30)
<1>11. second * (taken' + tokens') <= limit * (second + last_refill')
  <2>0. /\ second * (taken + available) \in Nat /\ second * (taken + tokens) \in Nat
        /\ second * add \in Nat /\ limit * (second + last_refill) \in Nat
        /\ (ticks - last_refill) * limit \in Nat
    BY <1>2, <1>3, <1>5, <1>6, <1>7
  <2>1. second * (taken + tokens) <= limit * (second + last_refill)
    BY Zenon DEF ThrottleInv
  <2>2. second * (taken + available) <= second * (taken + tokens) + second * add
    <3>1. second * (taken + available) <= second * (taken + tokens + add)
      BY <1>2, <1>3, <1>6, <1>7, Products
    <3>2. second * ((taken + tokens) + add) = second * (taken + tokens) + second * add
      BY <1>2, <1>3, <1>6, Products
    <3> QED
      BY <1>2, <1>3, <1>6, <1>7, <3>1, <3>2, Zenon
  <2>3. CASE add > 0
    <3>1. limit * (second + ticks) = limit * (second + last_refill) + (ticks - last_refill) * limit
      BY <1>2, <1>3, <1>5
    <3>2. last_refill' = ticks
      BY <1>1, <2>3, Zenon
    <3>3. second * (taken + available) <= limit * (second + ticks)
      BY <1>6, <2>0, <2>1, <2>2, <3>1, Chain, ZenonT(30)
    <3> QED
      BY <1>9, <3>2, <3>3, ZenonT(30)
  <2>4. CASE add = 0
    <3>1. last_refill' = last_refill /\ second * add = 0
      BY <1>1, <1>3, <2>4
    <3>2. second * add <= 0 /\ 0 \in Nat
      BY <3>1
    <3>3. second * (taken + available) <= limit * (second + last_refill) + 0
      BY <2>0, <2>1, <2>2, <3>2, Chain, ZenonT(30)
    <3>4. limit * (second + last_refill) + 0 = limit * (second + last_refill)
      BY <2>0
    <3> QED
      BY <1>9, <3>1, <3>3, <3>4, ZenonT(30)
  <2> QED
    BY <1>6, <2>3, <2>4
<1> QED
  BY <1>9, <1>10, <1>11, ZenonT(30) DEF ThrottleInv, ThrottleTypeOK

LEMMA ThrottleStep == ThrottleInv /\ [ThrottleNext]_throttleVars => ThrottleInv'
<1> SUFFICES ASSUME ThrottleInv, [ThrottleNext]_throttleVars
             PROVE  ThrottleInv'
  BY Zenon
<1>1. ASSUME NEW s \in Sender, acquire(s) PROVE ThrottleInv'
  <2>1. PICK bytes \in ChunkSizes : remaining' = [remaining EXCEPT ![s] = bytes]
    BY <1>1, ZenonT(30) DEF acquire
  <2>2. bytes \in Nat /\ ticks \in Nat
    BY ThrottleAssumption, Zenon DEF ThrottleInv, ThrottleTypeOK
  <2>3. remaining' \in [Sender -> Nat] /\ wake' \in [Sender -> Nat]
    BY <1>1, <2>1, <2>2, ZenonT(30) DEF acquire, ThrottleInv, ThrottleTypeOK
  <2> QED
    BY <1>1, <2>3, ZenonT(30) DEF acquire, ThrottleInv, ThrottleTypeOK
<1>2. CASE PassTime
  <2>1. ticks \in Nat /\ last_refill \in Nat /\ last_refill <= ticks /\ ticks' = ticks + 1
    BY <1>2, Zenon DEF PassTime, ThrottleInv, ThrottleTypeOK
  <2>2. ticks' \in Nat /\ last_refill <= ticks'
    BY <2>1
  <2> QED
    BY <1>2, <2>2, ZenonT(30) DEF PassTime, ThrottleInv, ThrottleTypeOK
<1>3. CASE UNCHANGED throttleVars
  BY <1>3, ZenonT(30) DEF throttleVars, ThrottleInv, ThrottleTypeOK
<1> QED
  BY <1>1, <1>2, <1>3, TakeTokensKeeps, ZenonT(30) DEF ThrottleNext

\* However many chunk senders share a BandwidthThrottle, and however they
\* interleave, acquire lets through no more than one burst and the configured
\* rate: rounding down at every refill never earns a token too many.
THEOREM RateKept == ThrottleSpec => []RateIsKept
<1>1. ThrottleInit => ThrottleInv
  <2> SUFFICES ASSUME ThrottleInit PROVE ThrottleInv
    BY Zenon
  <2>1. limit \in Nat /\ second \in Nat
    BY ThrottleAssumption, Zenon
  <2>2. /\ tokens = limit /\ last_refill = 0 /\ ticks = 0 /\ taken = 0
        /\ remaining \in [Sender -> Nat] /\ wake \in [Sender -> Nat]
    BY Zenon DEF ThrottleInit
  <2>3. second * (0 + limit) <= limit * (second + 0)
    BY <2>1
  <2>4. tokens <= limit /\ last_refill <= ticks /\ {tokens, last_refill, ticks, taken} \subseteq Nat
    BY <2>1, <2>2
  <2> QED
    BY <2>2, <2>3, <2>4, ZenonT(30) DEF ThrottleInv, ThrottleTypeOK
<1>2. ThrottleInv => RateIsKept
  <2> SUFFICES ASSUME ThrottleInv PROVE RateIsKept
    BY Zenon
  <2>1. /\ tokens \in Nat /\ last_refill \in Nat /\ ticks \in Nat /\ taken \in Nat
        /\ last_refill <= ticks /\ limit \in Nat /\ second \in Nat
        /\ second * (taken + tokens) <= limit * (second + last_refill)
    BY ThrottleAssumption, Zenon DEF ThrottleInv, ThrottleTypeOK
  <2>2. second * taken <= second * (taken + tokens)
    BY <2>1, Products
  <2>3. limit * (second + last_refill) <= limit * (second + ticks)
    BY <2>1, Products
  <2>4. /\ second * taken \in Nat /\ second * (taken + tokens) \in Nat
        /\ limit * (second + last_refill) \in Nat /\ limit * (second + ticks) \in Nat
    BY <2>1
  <2> QED
    BY <2>1, <2>2, <2>3, <2>4 DEF RateIsKept
<1> QED
  BY <1>1, <1>2, ThrottleStep, PTL DEF ThrottleSpec

-----------------------------------------------------------------------------
(* RemoteFiles.                                                            *)

RemoteRequest == [id : RemoteCall, op : Operations, path : Paths, options : Options]
RemoteAnswer == [id : RemoteCall, kind : Operations \cup {"error"}, result : SUBSET (Paths \cup {"Ok", "Err"})]
CallRecord == [pc : Operations \cup {"idle", "returned"},
               result : SUBSET (Paths \cup {"Ok", "Err", "Timeout"}), pattern : BOOLEAN]

RemoteTypes ==
    /\ tree \subseteq Paths
    /\ rcall \in [RemoteCall -> CallRecord]
    /\ requests \subseteq RemoteRequest
    /\ answers \subseteq RemoteAnswer
    /\ handler = NoRequest \/ (handler \in RemoteRequest /\ handler.op = "remove")
    /\ gone \in [RemoteCall -> SUBSET Paths]

\* A call is at one place: with its request, in the handler or with its answer.
Asked(c) == \E r \in requests : r.id = c
Handled(c) == handler.id = c
Answered(c) == \E a \in answers : a.id = c

PlaceInv ==
    \A c \in RemoteCall :
        /\ \A r, q \in requests : r.id = c /\ q.id = c => r = q
        /\ Handled(c) => ~Asked(c)
        /\ Answered(c) => ~Asked(c) /\ ~Handled(c)
        /\ rcall[c].pc = "idle" => ~Asked(c) /\ ~Handled(c) /\ ~Answered(c)

OkInv ==
    \A a \in answers : "Ok" \in a.result => a.kind = "remove" /\ gone[a.id] # {}

RemoteInv == RemoteTypes /\ PlaceInv /\ OkInv /\ RemoveIsDone

\* What an answer may be.
LEMMA AnswerRecord ==
    ASSUME NEW r \in RemoteRequest, NEW k \in Operations \cup {"error"},
           NEW res \in SUBSET (Paths \cup {"Ok", "Err"})
    PROVE  /\ [id |-> r.id, kind |-> k, result |-> res] \in RemoteAnswer
           /\ r.id \in RemoteCall
BY ZenonT(30) DEF RemoteRequest, RemoteAnswer

\* The control plane takes r and answers it.
LEMMA AnswerKeeps ==
    ASSUME RemoteInv, NEW r \in RemoteRequest, r \in requests \/ (handler = r /\ handler' = NoRequest),
           requests' = requests \ {r}, handler' = handler \/ handler' = NoRequest,
           NEW k \in Operations \cup {"error"}, NEW res \in SUBSET (Paths \cup {"Ok", "Err"}),
           Answer(r, k, res), rcall' = rcall, tree' \subseteq Paths,
           gone' \in [RemoteCall -> SUBSET Paths], \A c \in RemoteCall : gone[c] \subseteq gone'[c],
           "Ok" \in res => k = "remove" /\ gone'[r.id] # {}
    PROVE  RemoteInv'
<1> DEFINE a0 == [id |-> r.id, kind |-> k, result |-> res]
<1>0. RemoteTypes /\ PlaceInv /\ OkInv /\ RemoveIsDone
  BY ZenonT(30) DEF RemoteInv
<1>1. a0 \in RemoteAnswer /\ r.id \in RemoteCall /\ answers' = answers \cup {a0}
  BY AnswerRecord, ZenonT(30) DEF Answer
<1>2. a0.id = r.id /\ a0.kind = k /\ a0.result = res
  BY Zenon
<1> HIDE DEF a0
<1>3. NoRequest.id = 0 /\ 0 \notin RemoteCall
  BY RemoteAssumption, ZenonT(30) DEF NoRequest
<1>4. \A c \in RemoteCall : Handled(c)' => Handled(c)
  BY <1>3, ZenonT(30) DEF Handled
<1>5. \A c \in RemoteCall : (Asked(c)' => Asked(c)) /\ (Answered(c)' => Answered(c) \/ c = r.id)
  BY <1>1, <1>2, ZenonT(30) DEF Asked, Answered
<1>6. ~Asked(r.id)' /\ ~Handled(r.id)'
  <2>1. CASE r \in requests
    BY <1>0, <1>1, <1>4, <2>1, ZenonT(30) DEF PlaceInv, Asked, Handled
  <2>2. CASE handler = r /\ handler' = NoRequest
    BY <1>0, <1>1, <1>3, <1>5, <2>2, ZenonT(30) DEF PlaceInv, Handled
  <2> QED
    BY <2>1, <2>2, ZenonT(30)
<1>7. Asked(r.id) \/ Handled(r.id)
  BY ZenonT(30) DEF Asked, Handled
<1>8. RemoteTypes'
  BY <1>0, <1>1, ZenonT(30) DEF RemoteTypes
<1>9. PlaceInv'
  BY <1>0, <1>4, <1>5, <1>6, <1>7, ZenonT(30) DEF PlaceInv
<1>10. OkInv'
  <2> SUFFICES ASSUME NEW a \in answers', "Ok" \in a.result PROVE a.kind = "remove" /\ gone'[a.id] # {}
    BY ZenonT(30) DEF OkInv
  <2>1. a \in answers => a.id \in RemoteCall
    BY <1>0, ZenonT(30) DEF RemoteTypes, RemoteAnswer
  <2> QED
    BY <1>0, <1>1, <1>2, <2>1, ZenonT(30) DEF OkInv
<1>11. RemoveIsDone'
  <2> SUFFICES ASSUME NEW c \in RemoteCall, rcall[c].pc = "returned"
               PROVE  /\ "Ok" \in rcall[c].result => gone'[c] # {}
                      /\ "Timeout" \notin rcall[c].result => ~Asked(c)' /\ ~Handled(c)'
    BY ZenonT(30) DEF RemoveIsDone, Asked, Handled
  <2> QED
    BY <1>0, <1>4, <1>5, ZenonT(30) DEF RemoveIsDone, Asked, Handled
<1> QED
  BY <1>8, <1>9, <1>10, <1>11, ZenonT(30) DEF RemoteInv

LEMMA PlaneReads ==
    ASSUME RemoteInv, RefusePath \/ HandleRead
    PROVE  RemoteInv'
<1>0. RemoteTypes
  BY ZenonT(30) DEF RemoteInv
<1>1. UNCHANGED <<tree, rcall, handler, gone>>
  BY ZenonT(30) DEF RefusePath, HandleRead
<1>2. /\ tree' \subseteq Paths /\ gone' \in [RemoteCall -> SUBSET Paths]
      /\ \A c \in RemoteCall : gone[c] \subseteq gone'[c]
  BY <1>0, <1>1, ZenonT(30) DEF RemoteTypes
<1>3. CASE RefusePath
  <2>1. PICK r \in requests : /\ requests' = requests \ {r}
                              /\ Answer(r, IF r.op = "exists" THEN "error" ELSE r.op, {"Err"})
    BY <1>3, ZenonT(30) DEF RefusePath
  <2>2. r \in RemoteRequest /\ (IF r.op = "exists" THEN "error" ELSE r.op) \in Operations \cup {"error"}
    BY <1>0, ZenonT(30) DEF RemoteTypes, RemoteRequest
  <2>3. {"Err"} \in SUBSET (Paths \cup {"Ok", "Err"}) /\ "Ok" \notin {"Err"}
    BY ZenonT(30)
  <2> QED
    BY <1>1, <1>2, <2>1, <2>2, <2>3, AnswerKeeps, ZenonT(30)
<1>4. CASE HandleRead
  <2>1. PICK r \in requests :
          /\ r.op # "remove" /\ requests' = requests \ {r}
          /\ Answer(r, r.op, CASE r.op = "exists" -> handle_exists_request(r.path)
                               [] r.op = "metadata" -> handle_metadata_request(r.path)
                               [] r.op = "list" -> handle_list_request(r.path, r.options))
    BY <1>4, ZenonT(30) DEF HandleRead
  <2>2. r \in RemoteRequest /\ r.op \in Operations \cup {"error"} /\ r.op \in {"exists", "metadata", "list"}
    BY <1>0, <2>1, ZenonT(30) DEF RemoteTypes, RemoteRequest, Operations
  <2> DEFINE res == CASE r.op = "exists" -> handle_exists_request(r.path)
                      [] r.op = "metadata" -> handle_metadata_request(r.path)
                      [] r.op = "list" -> handle_list_request(r.path, r.options)
  <2>3. "Ok" \notin Paths
    BY Zenon DEF Paths
  <2>4. res \subseteq Paths \cup {"Err"}
    <3>1. handle_exists_request(r.path) \subseteq Paths /\ handle_metadata_request(r.path) \subseteq Paths
      BY <1>0, ZenonT(30) DEF RemoteTypes, handle_exists_request, handle_metadata_request
    <3>2. handle_list_request(r.path, r.options) \subseteq Paths \cup {"Err"}
      BY <1>0, ZenonT(30) DEF RemoteTypes, handle_list_request, list_files
    <3> QED
      BY <2>2, <3>1, <3>2, ZenonT(30)
  <2>5. res \in SUBSET (Paths \cup {"Ok", "Err"}) /\ "Ok" \notin res
    BY <2>3, <2>4, ZenonT(30)
  <2>6. Answer(r, r.op, res)
    BY <2>1, ZenonT(30)
  <2> HIDE DEF res
  <2> QED
    BY <1>1, <1>2, <2>1, <2>2, <2>5, <2>6, AnswerKeeps, ZenonT(30)
<1> QED
  BY <1>3, <1>4, Zenon

\* The path r asked for is gone.
LEMMA GoneGrows ==
    ASSUME RemoteTypes, NEW r \in RemoteRequest, gone' = [gone EXCEPT ![r.id] = gone[r.id] \cup {r.path}]
    PROVE  /\ gone' \in [RemoteCall -> SUBSET Paths]
           /\ \A c \in RemoteCall : gone[c] \subseteq gone'[c]
           /\ gone'[r.id] # {}
<1>1. r.id \in RemoteCall /\ r.path \in Paths /\ gone \in [RemoteCall -> SUBSET Paths]
  BY ZenonT(30) DEF RemoteTypes, RemoteRequest
<1>2. gone[r.id] \cup {r.path} \in SUBSET Paths
  BY <1>1, ZenonT(30)
<1> QED
  BY <1>1, <1>2, ZenonT(30)

LEMMA StartRemoveKeeps ==
    ASSUME RemoteInv, StartRemove
    PROVE  RemoteInv'
<1>0. RemoteTypes /\ PlaceInv /\ OkInv /\ RemoveIsDone
  BY ZenonT(30) DEF RemoteInv
<1>1. PICK r \in requests :
        /\ r.op = "remove" /\ requests' = requests \ {r}
        /\ IF r.path \in tree
           THEN handler' = r /\ UNCHANGED <<answers, gone>>
           ELSE /\ Answer(r, "remove", IF r.options.ignore_not_found THEN {"Ok"} ELSE {"Err"})
                /\ gone' = [gone EXCEPT ![r.id] = gone[r.id] \cup {r.path}]
                /\ UNCHANGED handler
  BY ZenonT(30) DEF StartRemove
<1>2. handler = NoRequest /\ UNCHANGED <<tree, rcall>> /\ r \in RemoteRequest /\ r.id \in RemoteCall
  BY <1>0, ZenonT(30) DEF StartRemove, RemoteTypes, RemoteRequest
<1>3. CASE r.path \in tree
  <2>1. handler' = r /\ UNCHANGED <<answers, gone>>
    BY <1>1, <1>3, ZenonT(30)
  <2>2. \A c \in RemoteCall : Handled(c)' <=> c = r.id
    BY <2>1, ZenonT(30) DEF Handled
  <2>3. \A c \in RemoteCall : /\ Asked(c)' => Asked(c) /\ c # r.id
                              /\ Answered(c)' <=> Answered(c)
    BY <1>0, <1>1, <1>2, <2>1, ZenonT(30) DEF Asked, Answered, PlaceInv
  <2>4. Asked(r.id)
    BY ZenonT(30) DEF Asked
  <2>5. RemoteTypes'
    BY <1>0, <1>1, <1>2, <2>1, ZenonT(30) DEF RemoteTypes
  <2>6. PlaceInv'
    BY <1>0, <1>1, <1>2, <2>2, <2>3, <2>4, ZenonT(30) DEF PlaceInv
  <2>7. OkInv'
    BY <1>0, <2>1, ZenonT(30) DEF OkInv
  <2>8. RemoveIsDone'
    <3> SUFFICES ASSUME NEW c \in RemoteCall, rcall[c].pc = "returned"
                 PROVE  /\ "Ok" \in rcall[c].result => gone[c] # {}
                        /\ "Timeout" \notin rcall[c].result => ~Asked(c)' /\ ~Handled(c)'
      BY <1>2, <2>1, ZenonT(30) DEF RemoveIsDone, Asked, Handled
    <3> QED
      BY <1>0, <2>2, <2>3, <2>4, ZenonT(30) DEF RemoveIsDone, Asked
  <2> QED
    BY <2>5, <2>6, <2>7, <2>8, ZenonT(30) DEF RemoteInv
<1>4. CASE r.path \notin tree
  <2> DEFINE res == IF r.options.ignore_not_found THEN {"Ok"} ELSE {"Err"}
  <2>1. /\ Answer(r, "remove", res) /\ handler' = handler
        /\ gone' = [gone EXCEPT ![r.id] = gone[r.id] \cup {r.path}]
    BY <1>1, <1>4, ZenonT(30)
  <2>2. res \in SUBSET (Paths \cup {"Ok", "Err"}) /\ "remove" \in Operations \cup {"error"}
    BY ZenonT(30) DEF Operations
  <2> HIDE DEF res
  <2>3. tree' \subseteq Paths
    BY <1>0, <1>2, ZenonT(30) DEF RemoteTypes
  <2> QED
    BY <1>0, <1>1, <1>2, <2>1, <2>2, <2>3, GoneGrows, AnswerKeeps, ZenonT(30)
<1> QED
  BY <1>3, <1>4, Zenon

LEMMA FinishRemoveKeeps ==
    ASSUME RemoteInv, FinishRemove
    PROVE  RemoteInv'
<1> DEFINE p == handler.path
           blocked == ~handler.options.recursive /\ tree \cap Children(p) # {}
           ok == ~blocked /\ (p \in tree \/ handler.options.ignore_not_found)
           res == IF ok THEN {"Ok"} ELSE {"Err"}
<1>0. RemoteTypes /\ PlaceInv
  BY ZenonT(30) DEF RemoteInv
<1>1. /\ handler # NoRequest /\ handler' = NoRequest /\ UNCHANGED <<rcall, requests>>
      /\ tree' = IF blocked THEN tree ELSE tree \ ({p} \cup Children(p))
      /\ gone' = IF blocked THEN gone ELSE [gone EXCEPT ![handler.id] = gone[handler.id] \cup {p}]
      /\ Answer(handler, "remove", res)
  BY ZenonT(30) DEF FinishRemove
<1>2. handler \in RemoteRequest
  BY <1>0, <1>1, ZenonT(30) DEF RemoteTypes
<1>3. res \in SUBSET (Paths \cup {"Ok", "Err"}) /\ "remove" \in Operations \cup {"error"}
      /\ ("Ok" \in res => ~blocked)
  BY ZenonT(30) DEF Operations
<1>4. tree' \subseteq Paths
  BY <1>0, <1>1, ZenonT(30) DEF RemoteTypes
<1> HIDE DEF res, blocked
<1>5. /\ gone' \in [RemoteCall -> SUBSET Paths] /\ \A c \in RemoteCall : gone[c] \subseteq gone'[c]
      /\ ~blocked => gone'[handler.id] # {}
  BY <1>0, <1>1, <1>2, GoneGrows, ZenonT(30) DEF RemoteTypes
<1>6. requests' = requests \ {handler}
  <2>1. handler.id \in RemoteCall
    BY <1>2, ZenonT(30) DEF RemoteRequest
  <2>2. handler \notin requests
    BY <1>0, <2>1, ZenonT(30) DEF PlaceInv, Asked, Handled
  <2> QED
    BY <1>1, <2>2, ZenonT(30)
<1>7. ASSUME NEW r, r = handler PROVE RemoteInv'
  <2>1. r \in RemoteRequest /\ requests' = requests \ {r} /\ Answer(r, "remove", res)
    BY <1>1, <1>2, <1>6, <1>7, ZenonT(30)
  <2>2. "Ok" \in res => gone'[r.id] # {}
    BY <1>3, <1>5, <1>7, ZenonT(30)
  <2> QED
    BY <1>1, <1>3, <1>4, <1>5, <1>7, <2>1, <2>2, AnswerKeeps, ZenonT(30)
<1> QED
  BY <1>7, ZenonT(30)

LEMMA CallRemoteKeeps ==
    ASSUME RemoteInv, NEW c \in RemoteCall, CallRemote(c)
    PROVE  RemoteInv'
<1>0. RemoteTypes /\ PlaceInv /\ OkInv /\ RemoveIsDone
  BY ZenonT(30) DEF RemoteInv
<1>1. PICK op \in Operations, p \in Paths, o \in Options :
        /\ requests' = requests \cup {[id |-> c, op |-> op, path |-> p, options |-> o]}
        /\ rcall' = [rcall EXCEPT ![c] = [pc |-> op, result |-> {}, pattern |-> o.pattern]]
  BY ZenonT(30) DEF CallRemote
<1>2. rcall[c].pc = "idle" /\ UNCHANGED <<tree, answers, handler, gone>>
  BY ZenonT(30) DEF CallRemote
<1> DEFINE q == [id |-> c, op |-> op, path |-> p, options |-> o]
           k == [pc |-> op, result |-> {}, pattern |-> o.pattern]
<1>3. q \in RemoteRequest /\ q.id = c
  BY ZenonT(30) DEF RemoteRequest
<1>4. k \in CallRecord /\ k.pc = op /\ op \notin {"idle", "returned"}
  <2>1. o.pattern \in BOOLEAN
    BY ZenonT(30) DEF Options
  <2>2. op \notin {"idle", "returned"}
    BY Zenon DEF Operations
  <2> QED
    BY <2>1, <2>2, ZenonT(30) DEF CallRecord
<1>5. requests' = requests \cup {q} /\ rcall' = [rcall EXCEPT ![c] = k]
  BY <1>1, ZenonT(30)
<1> HIDE DEF q, k
<1>6. \A d \in RemoteCall : d # c => rcall'[d] = rcall[d]
  BY <1>0, <1>5, ZenonT(30) DEF RemoteTypes
<1>7. rcall'[c] = k
  BY <1>0, <1>5, ZenonT(30) DEF RemoteTypes
<1>8. ~Asked(c) /\ ~Handled(c) /\ ~Answered(c)
  BY <1>0, <1>2, ZenonT(30) DEF PlaceInv
<1>9. \A d \in RemoteCall : /\ Asked(d)' <=> Asked(d) \/ d = c
                            /\ Handled(d)' <=> Handled(d)
                            /\ Answered(d)' <=> Answered(d)
  BY <1>2, <1>3, <1>5, ZenonT(30) DEF Asked, Handled, Answered
<1>10. RemoteTypes'
  BY <1>0, <1>2, <1>3, <1>4, <1>5, ZenonT(30) DEF RemoteTypes
<1>11. PlaceInv'
  <2> SUFFICES ASSUME NEW d \in RemoteCall
               PROVE  /\ \A r, s \in requests' : r.id = d /\ s.id = d => r = s
                      /\ Handled(d)' => ~Asked(d)'
                      /\ Answered(d)' => ~Asked(d)' /\ ~Handled(d)'
                      /\ rcall'[d].pc = "idle" => ~Asked(d)' /\ ~Handled(d)' /\ ~Answered(d)'
    BY ZenonT(30) DEF PlaceInv
  <2>1. CASE d = c
    BY <1>3, <1>4, <1>5, <1>7, <1>8, <1>9, <2>1, ZenonT(30) DEF Asked
  <2>2. CASE d # c
    BY <1>0, <1>3, <1>5, <1>6, <1>9, <2>2, ZenonT(30) DEF PlaceInv
  <2> QED
    BY <2>1, <2>2, Zenon
<1>12. OkInv'
  BY <1>0, <1>2, ZenonT(30) DEF OkInv
<1>13. RemoveIsDone'
  <2> SUFFICES ASSUME NEW d \in RemoteCall, rcall'[d].pc = "returned"
               PROVE  /\ "Ok" \in rcall'[d].result => gone[d] # {}
                      /\ "Timeout" \notin rcall'[d].result => ~Asked(d)' /\ ~Handled(d)'
    BY <1>2, ZenonT(30) DEF RemoveIsDone, Asked, Handled
  <2>1. d # c
    BY <1>4, <1>7, ZenonT(30)
  <2> QED
    BY <1>0, <1>6, <1>9, <2>1, ZenonT(30) DEF RemoveIsDone, Asked, Handled
<1> QED
  BY <1>10, <1>11, <1>12, <1>13, ZenonT(30) DEF RemoteInv

\* A call returns with the result res.
LEMMA ReturnKeeps ==
    ASSUME RemoteInv, NEW c \in RemoteCall, NEW res \in SUBSET (Paths \cup {"Ok", "Err", "Timeout"}),
           rcall' = [rcall EXCEPT ![c].pc = "returned", ![c].result = res],
           answers' \subseteq answers, UNCHANGED <<tree, requests, handler, gone>>,
           "Ok" \in res => gone[c] # {},
           "Timeout" \notin res => ~Asked(c) /\ ~Handled(c)
    PROVE  RemoteInv'
<1>0. RemoteTypes /\ PlaceInv /\ OkInv /\ RemoveIsDone
  BY ZenonT(30) DEF RemoteInv
<1>1. rcall[c] \in CallRecord
  BY <1>0, ZenonT(30) DEF RemoteTypes
<1> DEFINE k == [[rcall[c] EXCEPT !.pc = "returned"] EXCEPT !.result = res]
<1>2. k \in CallRecord /\ k.pc = "returned" /\ k.result = res
  BY <1>1, ZenonT(30) DEF CallRecord
<1>3. rcall'[c] = k /\ rcall' = [rcall EXCEPT ![c] = k]
  <2>1. rcall = [d \in RemoteCall |-> rcall[d]]
    BY <1>0, ZenonT(30) DEF RemoteTypes
  <2>2. rcall' = [d \in RemoteCall |-> IF d = c THEN k ELSE rcall[d]]
    BY <2>1, ZenonT(30)
  <2> HIDE DEF k
  <2> QED
    BY <2>1, <2>2, ZenonT(30)
<1> HIDE DEF k
<1>4. \A d \in RemoteCall : d # c => rcall'[d] = rcall[d]
  BY <1>0, <1>3, ZenonT(30) DEF RemoteTypes
<1>5. \A d \in RemoteCall : /\ Asked(d)' <=> Asked(d)
                            /\ Handled(d)' <=> Handled(d)
                            /\ Answered(d)' => Answered(d)
  BY ZenonT(30) DEF Asked, Handled, Answered
<1>6. RemoteTypes'
  BY <1>0, <1>2, <1>3, ZenonT(30) DEF RemoteTypes
<1>7. PlaceInv'
  <2> SUFFICES ASSUME NEW d \in RemoteCall
               PROVE  /\ \A r, s \in requests' : r.id = d /\ s.id = d => r = s
                      /\ Handled(d)' => ~Asked(d)'
                      /\ Answered(d)' => ~Asked(d)' /\ ~Handled(d)'
                      /\ rcall'[d].pc = "idle" => ~Asked(d)' /\ ~Handled(d)' /\ ~Answered(d)'
    BY ZenonT(30) DEF PlaceInv
  <2>1. rcall'[d].pc = "idle" => d # c
    BY <1>2, <1>3, ZenonT(30)
  <2> QED
    BY <1>0, <1>4, <1>5, <2>1, ZenonT(30) DEF PlaceInv
<1>8. OkInv'
  BY <1>0, ZenonT(30) DEF OkInv
<1>9. RemoveIsDone'
  <2> SUFFICES ASSUME NEW d \in RemoteCall, rcall'[d].pc = "returned"
               PROVE  /\ "Ok" \in rcall'[d].result => gone[d] # {}
                      /\ "Timeout" \notin rcall'[d].result => ~Asked(d) /\ ~Handled(d)
    BY ZenonT(30) DEF RemoveIsDone, Asked, Handled
  <2>1. CASE d = c
    BY <1>2, <1>3, <2>1, ZenonT(30)
  <2>2. CASE d # c
    BY <1>0, <1>4, <2>2, ZenonT(30) DEF RemoveIsDone, Asked, Handled
  <2> QED
    BY <2>1, <2>2, Zenon
<1> QED
  BY <1>6, <1>7, <1>8, <1>9, ZenonT(30) DEF RemoteInv

LEMMA ReceiveAnswerKeeps ==
    ASSUME RemoteInv, NEW c \in RemoteCall, ReceiveAnswer(c)
    PROVE  RemoteInv'
<1>0. RemoteTypes /\ PlaceInv /\ OkInv
  BY ZenonT(30) DEF RemoteInv
<1>1. PICK a \in answers :
        /\ a.id = c /\ answers' = answers \ {a}
        /\ rcall' = [rcall EXCEPT ![c].pc = "returned",
                                  ![c].result = CASE a.kind = "metadata" -> metadata(a.result)
                                                  [] a.kind = "list" ->
                                                       ListResult(a.result, rcall[c].pattern)
                                                  [] OTHER -> a.result]
  BY ZenonT(30) DEF ReceiveAnswer
<1>2. UNCHANGED <<tree, requests, handler, gone>>
  BY ZenonT(30) DEF ReceiveAnswer
<1> DEFINE res == CASE a.kind = "metadata" -> metadata(a.result)
                    [] a.kind = "list" -> ListResult(a.result, rcall[c].pattern)
                    [] OTHER -> a.result
<1>3. a.result \subseteq Paths \cup {"Ok", "Err"}
  BY <1>0, ZenonT(30) DEF RemoteTypes, RemoteAnswer
<1>4. res \subseteq a.result \cup {"Err"}
  <2>1. metadata(a.result) \subseteq a.result \cup {"Err"}
    BY ZenonT(30) DEF metadata
  <2>2. ListResult(a.result, rcall[c].pattern) \subseteq a.result
    BY ZenonT(30) DEF ListResult
  <2> QED
    BY <2>1, <2>2, ZenonT(30)
<1>5. rcall' = [rcall EXCEPT ![c].pc = "returned", ![c].result = res]
  BY <1>1, ZenonT(30)
<1> HIDE DEF res
<1>6. res \in SUBSET (Paths \cup {"Ok", "Err", "Timeout"}) /\ ("Ok" \in res => gone[c] # {})
  BY <1>0, <1>1, <1>3, <1>4, ZenonT(30) DEF OkInv
<1>7. ~Asked(c) /\ ~Handled(c)
  BY <1>0, <1>1, ZenonT(30) DEF PlaceInv, Answered
<1>8. answers' \subseteq answers
  BY <1>1, ZenonT(30)
<1> QED
  BY <1>2, <1>5, <1>6, <1>7, <1>8, ReturnKeeps, ZenonT(30)

LEMMA RemoteStep == RemoteInv /\ [RemoteNext]_remoteVars => RemoteInv'
<1> SUFFICES ASSUME RemoteInv, [RemoteNext]_remoteVars
             PROVE  RemoteInv'
  BY Zenon
<1>1. ASSUME NEW c \in RemoteCall, RemoteTimeout(c) PROVE RemoteInv'
  <2>1. /\ rcall' = [rcall EXCEPT ![c].pc = "returned", ![c].result = {"Timeout"}]
        /\ answers' \subseteq answers /\ UNCHANGED <<tree, requests, handler, gone>>
    BY <1>1, ZenonT(30) DEF RemoteTimeout
  <2>2. {"Timeout"} \in SUBSET (Paths \cup {"Ok", "Err", "Timeout"}) /\ "Ok" \notin {"Timeout"}
    BY ZenonT(30)
  <2> QED
    BY <2>1, <2>2, ReturnKeeps, ZenonT(30)
<1>2. ASSUME ChangeTree \/ UNCHANGED remoteVars PROVE RemoteInv'
  <2>1. UNCHANGED <<rcall, requests, answers, handler, gone>>
    BY <1>2, ZenonT(30) DEF ChangeTree, remoteVars
  <2>2. tree' \subseteq Paths
    <3>1. "dir" \in Paths /\ tree \subseteq Paths
      BY ZenonT(30) DEF Paths, RemoteInv, RemoteTypes
    <3> QED
      BY <1>2, <3>1, ZenonT(30) DEF ChangeTree, remoteVars
  <2>3. RemoteTypes'
    BY <2>1, <2>2, ZenonT(30) DEF RemoteInv, RemoteTypes
  <2> QED
    BY <2>1, <2>3, ZenonT(30) DEF RemoteInv, PlaceInv, Asked, Handled, Answered, OkInv, RemoveIsDone
<1> QED
  BY <1>1, <1>2, CallRemoteKeeps, ReceiveAnswerKeeps, PlaneReads, StartRemoveKeeps,
     FinishRemoveKeeps, ZenonT(30) DEF RemoteNext

\* Whatever other programs do to the files and whichever calls time out, a
\* remove that returned Ok has removed its path or seen it missing, and a
\* call that has its answer has nothing left at the control plane that could
\* act on a file created later.
THEOREM RemovesAreDone == RemoteSpec => []RemoveIsDone
<1>1. RemoteInit => RemoteInv
  <2> SUFFICES ASSUME RemoteInit PROVE RemoteInv
    BY Zenon
  <2>1. \A c \in RemoteCall : ~Asked(c) /\ ~Handled(c) /\ ~Answered(c)
    BY RemoteAssumption, ZenonT(30) DEF RemoteInit, Asked, Handled, Answered, NoRequest
  <2>2. [pc |-> "idle", result |-> {}, pattern |-> FALSE] \in CallRecord
    BY ZenonT(30) DEF CallRecord
  <2>3. RemoteTypes
    BY <2>2, ZenonT(30) DEF RemoteInit, RemoteTypes
  <2>4. RemoveIsDone
    BY ZenonT(30) DEF RemoteInit, RemoveIsDone
  <2> QED
    BY <2>1, <2>3, <2>4, ZenonT(30) DEF RemoteInit, RemoteInv, PlaceInv, OkInv
<1> QED
  BY <1>1, RemoteStep, PTL DEF RemoteSpec, RemoteInv

\* Remote removes and the pace of the chunks, side by side.
THEOREM ServiceKeepsItsWord == ServiceSpec => []ServiceIsSound
BY RateKept, RemovesAreDone, PTL DEF ServiceSpec, ServiceIsSound

-----------------------------------------------------------------------------
(* FileSync: the invariant.                                                *)

File == {NoCopy} \cup [by : SyncNode, modified : Modified]
CallPlaces == {"idle", "slot", "metadata", "push", "sending", "request", "pulling", "returned"}
SyncRecord == [pc : CallPlaces, dir : {"Push", "Pull", "Bidirectional"},
               res : {"NewerWins", "SourceWins", "TargetWins", "Manual"}, file : File,
               overwrite : BOOLEAN, ok : BOOLEAN, clean : BOOLEAN]

SyncTypes ==
    /\ copy \in [SyncNode -> File]
    /\ slots \in [SyncNode -> Nat]
    /\ call \in [SyncNode -> SyncRecord] /\ serve \in [SyncNode -> SyncRecord]
    /\ bcast \in [Target -> {"idle", "slot", "sending", "ok", "failed"}]

\* Who holds a slot of its node.
Busy(c) == IF c.pc \in {"idle", "slot", "returned"} THEN 0 ELSE 1
ServeBusy(s) == IF s.pc = "sending" THEN 1 ELSE 0
Sending == {t \in Target : bcast[t] = "sending"}
Sends(n) == IF n = Broadcaster THEN Cardinality(Sending) ELSE 0

SlotInv ==
    \A n \in SyncNode :
        slots[n] + Busy(call[n]) + ServeBusy(serve[n]) + Sends(n) = max_concurrent_transfers

\* f is there, and g is missing or older.
Newer(f, g) == Exists(f) /\ (~Exists(g) \/ compare_modified(f.modified, g.modified) = "Greater")
Agree(f, g) == f = g \/ (Exists(f) /\ Exists(g) /\ Ordering(f, g) = "None")

\* The call c by modification time, with its peer's task s, its own copy a and
\* its peer's copy b: as long as it is clean, what it has decided is still
\* right, or has been done by another such call.
Right(c, s, a, b) ==
    c.clean /\ c.res = "NewerWins" =>
        /\ c.pc = "metadata" => c.file = a \/ (a = b /\ Newer(b, c.file))
        /\ c.pc \in {"push", "sending"} => a = b \/ Newer(a, b)
        /\ c.pc = "sending" => c.file = a
        /\ c.pc \in {"request", "pulling"} => a = b \/ Newer(b, a)
        /\ c.pc = "pulling" /\ s.pc = "sending" => s.file = b
        /\ c.pc = "returned" /\ c.ok /\ c.dir = "Bidirectional" => Agree(a, b)

AgreeInv == \A n \in SyncNode : Right(call[n], serve[Peer(n)], copy[n], copy[Peer(n)])

SyncInv == SyncTypes /\ SlotInv /\ AgreeInv /\ BroadcastMovesToAll

LEMMA PeerFacts ==
    /\ \A n \in SyncNode : /\ Peer(n) \in SyncNode /\ Peer(n) # n /\ Peer(Peer(n)) = n
                           /\ \A m \in SyncNode : m = n \/ m = Peer(n)
    /\ Broadcaster \in SyncNode
<1>1. PICK a \in SyncNode, b \in SyncNode : a # b /\ SyncNode = {a, b}
  BY SyncAssumption, ZenonT(30)
<1>2. \A n \in SyncNode : Peer(n) \in SyncNode /\ Peer(n) # n
  <2> TAKE n \in SyncNode
  <2>1. \E m \in SyncNode : m # n
    BY <1>1
  <2> QED
    BY <2>1, Zenon DEF Peer
<1>3. \A n \in SyncNode, m \in SyncNode : m = n \/ m = Peer(n)
  BY <1>1, <1>2, ZenonT(30)
<1>4. Broadcaster \in SyncNode
  BY <1>1, ZenonT(30) DEF Broadcaster
<1> QED
  BY <1>2, <1>3, <1>4, ZenonT(30)

\* Files are compared by modification time.
LEMMA FileFacts ==
    ASSUME NEW f \in File, NEW g \in File
    PROVE  /\ ~(Newer(f, g) /\ Newer(g, f))
           /\ Ordering(f, g) = "Less" => Newer(g, f)
           /\ Ordering(f, g) = "Greater" => Newer(f, g)
           /\ Ordering(f, g) \in {"None", "Less", "Greater"}
<1>0. Modified \subseteq Nat /\ tolerance \in Nat
  BY SyncAssumption, ZenonT(30)
<1>1. Exists(f) => f.modified \in Nat
  BY <1>0, ZenonT(30) DEF Exists, File
<1>2. Exists(g) => g.modified \in Nat
  BY <1>0, ZenonT(30) DEF Exists, File
<1>3. ASSUME NEW l \in Nat, NEW r \in Nat
      PROVE  /\ ~(compare_modified(l, r) = "Greater" /\ compare_modified(r, l) = "Greater")
             /\ compare_modified(l, r) = "Less" => compare_modified(r, l) = "Greater"
             /\ compare_modified(l, r) \in {"None", "Less", "Greater"}
  BY <1>0 DEF compare_modified
<1> QED
  BY <1>1, <1>2, <1>3, ZenonT(30) DEF Newer, Ordering

\* What sync_file decides by modification time, from the files l and r.
LEMMA Decision ==
    ASSUME NEW l \in File, NEW r \in File, NEW d \in {"Push", "Pull", "Bidirectional"},
           NEW action, action = decide_action(d, Ordering(l, r), Exists(l), Exists(r), "NewerWins")
    PROVE  /\ action = "Push" => Newer(l, r)
           /\ action = "Pull" => Newer(r, l)
           /\ d = "Bidirectional" /\ action = "Nothing" => Agree(l, r)
<1> DEFINE o == Ordering(l, r)
<1>1. o \in {"None", "Less", "Greater"} /\ (o = "Less" => Newer(r, l)) /\ (o = "Greater" => Newer(l, r))
  BY FileFacts, ZenonT(30)
<1>2. o # "None" => Exists(l) /\ Exists(r)
  BY ZenonT(30) DEF Ordering
<1>2a. Exists(l) \in BOOLEAN /\ Exists(r) \in BOOLEAN
  BY ZenonT(30) DEF Exists
<1>3. action = decide_action(d, o, Exists(l), Exists(r), "NewerWins")
  BY ZenonT(30)
<1>4. /\ Exists(l) /\ ~Exists(r) => Newer(l, r)
      /\ Exists(r) /\ ~Exists(l) => Newer(r, l)
      /\ ~Exists(l) /\ ~Exists(r) => Agree(l, r)
      /\ Exists(l) /\ Exists(r) /\ o = "None" => Agree(l, r)
  BY ZenonT(30) DEF Newer, Agree, Exists
<1> HIDE DEF o
<1>5. CASE d = "Push"
  BY <1>1, <1>3, <1>4, <1>5, Zenon DEF decide_action, decide_push, resolve_conflict
<1>6. CASE d = "Pull"
  BY <1>1, <1>3, <1>4, <1>6, Zenon DEF decide_action, decide_pull, resolve_conflict
<1>7. CASE d = "Bidirectional"
  <2>1. action = decide_bidirectional(o, Exists(l), Exists(r), "NewerWins")
    BY <1>3, <1>7, Zenon DEF decide_action
  <2>2. CASE ~Exists(l) \/ ~Exists(r)
    BY <1>4, <1>7, <2>1, <2>2, Zenon DEF decide_bidirectional
  <2>3. CASE Exists(l) /\ Exists(r)
    <3>1. action = CASE o = "Greater" -> "Push" [] o = "Less" -> "Pull" [] o = "None" -> "Nothing"
      BY <2>1, <2>3, ZenonT(30) DEF decide_bidirectional
    <3>2. /\ o = "Greater" => action = "Push"
          /\ o = "Less" => action = "Pull"
          /\ o = "None" => action = "Nothing"
      BY <3>1, Zenon
    <3> QED
      BY <1>1, <1>4, <2>3, <3>2, ZenonT(30)
  <2> QED
    BY <2>2, <2>3, Zenon
<1> QED
  BY <1>5, <1>6, <1>7, Zenon

\* A clean call writes what the newer copy holds.
LEMMA RightAfterWrite ==
    ASSUME NEW c, NEW s, NEW a \in File, NEW b \in File, Right(c, s, a, b)
    PROVE  /\ a = b \/ Newer(b, a) => Right(c, s, b, b)
           /\ a = b \/ Newer(a, b) => Right(c, s, a, a)
<1>1. ~(Newer(a, b) /\ Newer(b, a))
  BY FileFacts, ZenonT(30)
<1>2. Agree(a, a) /\ Agree(b, b)
  BY ZenonT(30) DEF Agree
<1>3. a = b \/ Newer(b, a) => Right(c, s, b, b)
  BY <1>1, <1>2, ZenonT(30) DEF Right
<1>4. a = b \/ Newer(a, b) => Right(c, s, a, a)
  BY <1>1, <1>2, ZenonT(30) DEF Right
<1> QED
  BY <1>3, <1>4, Zenon

LEMMA RightWithout ==
    ASSUME NEW c, NEW s, NEW t, NEW a, NEW b, Right(c, s, a, b), t.pc # "sending"
    PROVE  Right(c, t, a, b)
BY ZenonT(30) DEF Right

-----------------------------------------------------------------------------
(* FileSync: the calls and the tasks that serve them.                      *)

LEMMA SendsIsNat ==
    ASSUME NEW n
    PROVE  Sends(n) \in Nat
<1>1. IsFiniteSet(Target)
  BY SyncAssumption, ZenonT(30)
<1>2. Sending \in SUBSET Target
  BY ZenonT(30) DEF Sending
<1>3. IsFiniteSet(Sending)
  BY <1>1, <1>2, FS_Subset, ZenonT(30)
<1>4. Cardinality(Sending) \in Nat
  BY <1>3, FS_CardinalityType, ZenonT(30)
<1> QED
  BY <1>4, Zenon DEF Sends

LEMMA BusyIsNat ==
    ASSUME NEW c
    PROVE  Busy(c) \in Nat /\ ServeBusy(c) \in Nat
BY Zenon DEF Busy, ServeBusy

\* A step of the calls that keeps the slots' balance and what is right.
LEMMA CallsKeep ==
    ASSUME SyncInv, UNCHANGED <<bcast, original>>,
           copy' \in [SyncNode -> File], slots' \in [SyncNode -> Nat],
           call' \in [SyncNode -> SyncRecord], serve' \in [SyncNode -> SyncRecord],
           \A m \in SyncNode : slots'[m] + Busy(call'[m]) + ServeBusy(serve'[m])
                                 = slots[m] + Busy(call[m]) + ServeBusy(serve[m]),
           \A m \in SyncNode : Right(call'[m], serve'[Peer(m)], copy'[m], copy'[Peer(m)])
    PROVE  SyncInv'
<1>1. SyncTypes'
  BY ZenonT(30) DEF SyncInv, SyncTypes
<1>2. SlotInv'
  <2> SUFFICES ASSUME NEW m \in SyncNode
               PROVE  slots'[m] + Busy(call'[m]) + ServeBusy(serve'[m]) + Sends(m)'
                        = max_concurrent_transfers
    BY ZenonT(30) DEF SlotInv
  <2>1. Sends(m)' = Sends(m)
    BY ZenonT(30) DEF Sends, Sending
  <2>2. slots[m] + Busy(call[m]) + ServeBusy(serve[m]) + Sends(m) = max_concurrent_transfers
    BY ZenonT(30) DEF SyncInv, SlotInv
  <2>3. slots'[m] + Busy(call'[m]) + ServeBusy(serve'[m])
          = slots[m] + Busy(call[m]) + ServeBusy(serve[m])
    BY ZenonT(30)
  <2> QED
    BY <2>1, <2>2, <2>3, ZenonT(30)
<1>3. AgreeInv'
  BY ZenonT(30) DEF AgreeInv
<1>4. BroadcastMovesToAll'
  BY ZenonT(30) DEF SyncInv, BroadcastMovesToAll
<1> QED
  BY <1>1, <1>2, <1>3, <1>4, ZenonT(30) DEF SyncInv

\* The call of n moves, and leaves its peer's task t.
LEMMA OneCall ==
    ASSUME SyncInv, NEW n \in SyncNode, NEW k \in SyncRecord, NEW t \in SyncRecord,
           call' = [call EXCEPT ![n] = k], serve' = [serve EXCEPT ![Peer(n)] = t],
           ServeBusy(t) = ServeBusy(serve[Peer(n)]),
           NEW j \in Nat, slots' = [slots EXCEPT ![n] = j], j + Busy(k) = slots[n] + Busy(call[n]),
           UNCHANGED <<copy, bcast, original>>,
           Right(k, t, copy[n], copy[Peer(n)])
    PROVE  SyncInv'
<1>0. SyncTypes /\ AgreeInv /\ Peer(n) \in SyncNode /\ Peer(n) # n /\ Peer(Peer(n)) = n
  BY PeerFacts, ZenonT(30) DEF SyncInv
<1>1. /\ call \in [SyncNode -> SyncRecord] /\ serve \in [SyncNode -> SyncRecord]
      /\ slots \in [SyncNode -> Nat] /\ copy' \in [SyncNode -> File]
  BY <1>0, ZenonT(30) DEF SyncTypes
<1>2. /\ call' \in [SyncNode -> SyncRecord] /\ serve' \in [SyncNode -> SyncRecord]
      /\ slots' \in [SyncNode -> Nat]
  BY <1>0, <1>1, ZenonT(30)
<1>3. /\ call'[n] = k /\ call'[Peer(n)] = call[Peer(n)]
      /\ serve'[n] = serve[n] /\ serve'[Peer(n)] = t
      /\ slots'[n] = j /\ slots'[Peer(n)] = slots[Peer(n)]
  BY <1>0, <1>1, ZenonT(30)
<1>4. ASSUME NEW m \in SyncNode
      PROVE  slots'[m] + Busy(call'[m]) + ServeBusy(serve'[m])
               = slots[m] + Busy(call[m]) + ServeBusy(serve[m])
  <2>1. CASE m = n
    BY <1>3, <2>1, ZenonT(30)
  <2>2. CASE m = Peer(n)
    BY <1>3, <2>2, ZenonT(30)
  <2> QED
    BY <2>1, <2>2, PeerFacts, ZenonT(30)
<1>5. ASSUME NEW m \in SyncNode
      PROVE  Right(call'[m], serve'[Peer(m)], copy'[m], copy'[Peer(m)])
  <2>1. CASE m = n
    BY <1>3, <2>1, ZenonT(30)
  <2>2. CASE m = Peer(n)
    BY <1>0, <1>3, <2>2, ZenonT(30) DEF AgreeInv
  <2> QED
    BY <2>1, <2>2, PeerFacts, ZenonT(30)
<1> QED
  BY <1>1, <1>2, <1>4, <1>5, CallsKeep, ZenonT(30)

\* The call of n moves alone.
LEMMA CallAlone ==
    ASSUME SyncInv, NEW n \in SyncNode, NEW k \in SyncRecord,
           call' = [call EXCEPT ![n] = k], UNCHANGED <<serve, copy, bcast, original>>,
           NEW j \in Nat, slots' = [slots EXCEPT ![n] = j], j + Busy(k) = slots[n] + Busy(call[n]),
           Right(k, serve[Peer(n)], copy[n], copy[Peer(n)])
    PROVE  SyncInv'
<1>1. serve \in [SyncNode -> SyncRecord] /\ Peer(n) \in SyncNode
  BY PeerFacts, ZenonT(30) DEF SyncInv, SyncTypes
<1>2. serve' = [serve EXCEPT ![Peer(n)] = serve[Peer(n)]] /\ serve[Peer(n)] \in SyncRecord
  BY <1>1, ZenonT(30)
<1> QED
  BY <1>2, OneCall, ZenonT(30)

\* The task that n has spawned moves.
LEMMA OneServe ==
    ASSUME SyncInv, NEW n \in SyncNode, NEW t \in SyncRecord, serve' = [serve EXCEPT ![n] = t],
           NEW j \in Nat, slots' = [slots EXCEPT ![n] = j],
           j + ServeBusy(t) = slots[n] + ServeBusy(serve[n]),
           UNCHANGED <<copy, call, bcast, original>>,
           Right(call[Peer(n)], t, copy[Peer(n)], copy[n])
    PROVE  SyncInv'
<1>0. SyncTypes /\ AgreeInv /\ Peer(n) \in SyncNode /\ Peer(n) # n /\ Peer(Peer(n)) = n
  BY PeerFacts, ZenonT(30) DEF SyncInv
<1>1. /\ call' \in [SyncNode -> SyncRecord] /\ serve \in [SyncNode -> SyncRecord]
      /\ slots \in [SyncNode -> Nat] /\ copy' \in [SyncNode -> File]
  BY <1>0, ZenonT(30) DEF SyncTypes
<1>2. serve' \in [SyncNode -> SyncRecord] /\ slots' \in [SyncNode -> Nat]
  BY <1>1, ZenonT(30)
<1>3. /\ serve'[n] = t /\ serve'[Peer(n)] = serve[Peer(n)]
      /\ slots'[n] = j /\ slots'[Peer(n)] = slots[Peer(n)]
  BY <1>0, <1>1, ZenonT(30)
<1>4. ASSUME NEW m \in SyncNode
      PROVE  slots'[m] + Busy(call'[m]) + ServeBusy(serve'[m])
               = slots[m] + Busy(call[m]) + ServeBusy(serve[m])
  <2>1. CASE m = n
    <3>1. slots[n] \in Nat /\ Busy(call[n]) \in Nat /\ ServeBusy(t) \in Nat /\ ServeBusy(serve[n]) \in Nat
      BY <1>1, BusyIsNat, ZenonT(30)
    <3>2. j + Busy(call[n]) + ServeBusy(t) = slots[n] + Busy(call[n]) + ServeBusy(serve[n])
      BY <3>1
    <3> QED
      BY <1>3, <2>1, <3>2, ZenonT(30)
  <2>2. CASE m = Peer(n)
    BY <1>3, <2>2, ZenonT(30)
  <2> QED
    BY <2>1, <2>2, PeerFacts, ZenonT(30)
<1>5. ASSUME NEW m \in SyncNode
      PROVE  Right(call'[m], serve'[Peer(m)], copy'[m], copy'[Peer(m)])
  <2>1. CASE m = n
    BY <1>0, <1>3, <2>1, ZenonT(30) DEF AgreeInv
  <2>2. CASE m = Peer(n)
    BY <1>0, <1>3, <2>2, ZenonT(30)
  <2> QED
    BY <2>1, <2>2, PeerFacts, ZenonT(30)
<1> QED
  BY <1>1, <1>2, <1>4, <1>5, CallsKeep, ZenonT(30)

LEMMA NoCallFacts == NoCall \in SyncRecord /\ NoCall.clean = FALSE /\ NoCall.pc = "idle"
BY ZenonT(30) DEF NoCall, SyncRecord, CallPlaces, File

LEMMA ReturnedFacts ==
    ASSUME NEW c \in SyncRecord, NEW ok \in BOOLEAN
    PROVE  /\ Returned(c, ok) \in SyncRecord
           /\ Returned(c, ok).pc = "returned" /\ Returned(c, ok).ok = ok
           /\ Returned(c, ok).clean = c.clean /\ Returned(c, ok).res = c.res
           /\ Returned(c, ok).dir = c.dir /\ Busy(Returned(c, ok)) = 0
<1>1. NoCopy \in File /\ "returned" \in CallPlaces
  BY ZenonT(30) DEF File, CallPlaces
<1>2. /\ Returned(c, ok) \in SyncRecord
      /\ Returned(c, ok).pc = "returned" /\ Returned(c, ok).ok = ok
      /\ Returned(c, ok).clean = c.clean /\ Returned(c, ok).res = c.res
      /\ Returned(c, ok).dir = c.dir
  BY <1>1, ZenonT(30) DEF Returned, SyncRecord
<1> QED
  BY <1>2, ZenonT(30) DEF Busy

LEMMA SlotTypes ==
    ASSUME SyncInv, NEW n \in SyncNode
    PROVE  /\ call[n] \in SyncRecord /\ serve[n] \in SyncRecord /\ copy[n] \in File
           /\ slots[n] \in Nat /\ slots[n] + 1 \in Nat /\ (slots[n] > 0 => slots[n] - 1 \in Nat)
           /\ slots = [slots EXCEPT ![n] = slots[n]]
           /\ Right(call[n], serve[Peer(n)], copy[n], copy[Peer(n)])
<1>1. /\ call[n] \in SyncRecord /\ serve[n] \in SyncRecord /\ copy[n] \in File
      /\ slots[n] \in Nat /\ slots = [slots EXCEPT ![n] = slots[n]]
  BY ZenonT(30) DEF SyncInv, SyncTypes
<1>2. slots[n] + 1 \in Nat /\ (slots[n] > 0 => slots[n] - 1 \in Nat)
  BY <1>1
<1> QED
  BY <1>1, <1>2, ZenonT(30) DEF SyncInv, AgreeInv

\* A call that returns gives its slot back.
LEMMA ReturnKeepsSync ==
    ASSUME SyncInv, NEW n \in SyncNode, NEW ok \in BOOLEAN, Return(n, ok),
           Busy(call[n]) = 1, UNCHANGED <<copy, serve, bcast, original>>,
           ok /\ call[n].clean /\ call[n].res = "NewerWins" /\ call[n].dir = "Bidirectional"
             => Agree(copy[n], copy[Peer(n)])
    PROVE  SyncInv'
<1> DEFINE k == Returned(call[n], ok)
           j == slots[n] + 1
<1>1. call' = [call EXCEPT ![n] = k] /\ slots' = [slots EXCEPT ![n] = j]
  BY ZenonT(30) DEF Return, Release
<1>2. /\ k \in SyncRecord /\ k.pc = "returned" /\ k.ok = ok /\ k.clean = call[n].clean
      /\ k.res = call[n].res /\ k.dir = call[n].dir /\ Busy(k) = 0
  BY SlotTypes, ReturnedFacts, ZenonT(30)
<1>3. j \in Nat /\ j + 0 = slots[n] + 1
  BY SlotTypes
<1> HIDE DEF k, j
<1>4. Right(k, serve[Peer(n)], copy[n], copy[Peer(n)])
  BY <1>2, ZenonT(30) DEF Right
<1> QED
  BY <1>1, <1>2, <1>3, <1>4, CallAlone, ZenonT(30)

LEMMA SyncFileKeeps ==
    ASSUME SyncInv, NEW n \in SyncNode, sync_file(n)
    PROVE  SyncInv'
<1>1. PICK d \in Directions, r \in Resolutions :
        call' = [call EXCEPT ![n] = [NoCall EXCEPT !.pc = "slot", !.dir = d, !.res = r]]
  BY ZenonT(30) DEF sync_file
<1> DEFINE k == [NoCall EXCEPT !.pc = "slot", !.dir = d, !.res = r]
<1>2. /\ call[n].pc \in {"idle", "returned"} /\ UNCHANGED <<copy, slots, serve, bcast, original>>
      /\ call' = [call EXCEPT ![n] = k]
  BY <1>1, ZenonT(30) DEF sync_file
<1>3. NoCall \in SyncRecord /\ NoCall.clean = FALSE
  BY NoCallFacts, ZenonT(30)
<1>4. k \in SyncRecord /\ k.pc = "slot" /\ k.clean = FALSE
  <2>1. /\ d \in {"Push", "Pull", "Bidirectional"}
        /\ r \in {"NewerWins", "SourceWins", "TargetWins", "Manual"}
    BY SyncAssumption, ZenonT(30)
  <2> QED
    BY <1>3, <2>1, ZenonT(30) DEF SyncRecord, CallPlaces, File
<1> HIDE DEF k
<1>5. Busy(k) = Busy(call[n])
  BY <1>2, <1>4, ZenonT(30) DEF Busy
<1>6. slots' = [slots EXCEPT ![n] = slots[n]] /\ slots[n] \in Nat /\ slots[n] + Busy(k) = slots[n] + Busy(call[n])
  BY <1>2, <1>5, SlotTypes, ZenonT(30)
<1>7. Right(k, serve[Peer(n)], copy[n], copy[Peer(n)])
  BY <1>4, ZenonT(30) DEF Right
<1> QED
  BY <1>2, <1>4, <1>6, <1>7, CallAlone, ZenonT(30)

LEMMA ReadLocalKeeps ==
    ASSUME SyncInv, NEW n \in SyncNode, ReadLocal(n)
    PROVE  SyncInv'
<1> DEFINE k == [[[call[n] EXCEPT !.pc = "metadata"] EXCEPT !.file = copy[n]] EXCEPT !.clean = TRUE]
           j == slots[n] - 1
<1>0. call[n] \in SyncRecord /\ copy[n] \in File /\ call \in [SyncNode -> SyncRecord]
  BY SlotTypes, ZenonT(30) DEF SyncInv, SyncTypes
<1>1. /\ call[n].pc = "slot" /\ slots[n] > 0 /\ slots' = [slots EXCEPT ![n] = j]
      /\ call' = [call EXCEPT ![n].pc = "metadata", ![n].file = copy[n], ![n].clean = TRUE]
      /\ UNCHANGED <<copy, serve, bcast, original>>
  BY ZenonT(30) DEF ReadLocal, Acquire
<1>2. k \in SyncRecord /\ k.pc = "metadata" /\ k.file = copy[n]
  BY <1>0, ZenonT(30) DEF SyncRecord, CallPlaces
<1>3. call' = [call EXCEPT ![n] = k]
  <2>1. call = [m \in SyncNode |-> call[m]]
    BY <1>0, ZenonT(30)
  <2>2. call' = [m \in SyncNode |-> IF m = n THEN k ELSE call[m]]
    BY <1>1, <2>1, ZenonT(30)
  <2> HIDE DEF k
  <2> QED
    BY <2>1, <2>2, ZenonT(30)
<1>4. Busy(k) = 1 /\ Busy(call[n]) = 0
  BY <1>1, <1>2, ZenonT(30) DEF Busy
<1> HIDE DEF k
<1>5. j \in Nat /\ j + Busy(k) = slots[n] + Busy(call[n])
  BY <1>1, <1>4, SlotTypes
<1> HIDE DEF j
<1>6. Right(k, serve[Peer(n)], copy[n], copy[Peer(n)])
  BY <1>2, ZenonT(30) DEF Right
<1> QED
  BY <1>1, <1>2, <1>3, <1>5, <1>6, CallAlone, ZenonT(30)

\* The call turns to a transfer, in either direction.
LEMMA DecidedKeeps ==
    ASSUME SyncInv, NEW n \in SyncNode, call[n].pc = "metadata", NEW place \in {"push", "request"},
           NEW over \in BOOLEAN,
           call' = [call EXCEPT ![n].pc = place, ![n].file = NoCopy, ![n].overwrite = over],
           UNCHANGED <<slots, copy, serve, bcast, original>>,
           call[n].clean /\ call[n].res = "NewerWins" =>
             /\ place = "push" => copy[n] = copy[Peer(n)] \/ Newer(copy[n], copy[Peer(n)])
             /\ place = "request" => copy[n] = copy[Peer(n)] \/ Newer(copy[Peer(n)], copy[n])
    PROVE  SyncInv'
<1> DEFINE k == [[[call[n] EXCEPT !.pc = place] EXCEPT !.file = NoCopy] EXCEPT !.overwrite = over]
<1>0. call[n] \in SyncRecord /\ call \in [SyncNode -> SyncRecord] /\ NoCopy \in File
  BY SlotTypes, ZenonT(30) DEF SyncInv, SyncTypes, File
<1>2. k \in SyncRecord /\ k.pc = place /\ k.clean = call[n].clean /\ k.res = call[n].res
  BY <1>0, ZenonT(30) DEF SyncRecord, CallPlaces
<1>3. call' = [call EXCEPT ![n] = k]
  <2>1. call = [m \in SyncNode |-> call[m]]
    BY <1>0, ZenonT(30)
  <2>2. call' = [m \in SyncNode |-> IF m = n THEN k ELSE call[m]]
    BY <2>1, ZenonT(30)
  <2> HIDE DEF k
  <2> QED
    BY <2>1, <2>2, ZenonT(30)
<1> HIDE DEF k
<1>4. Busy(k) = Busy(call[n])
  BY <1>2, ZenonT(30) DEF Busy
<1>5. slots' = [slots EXCEPT ![n] = slots[n]] /\ slots[n] \in Nat /\ slots[n] + Busy(k) = slots[n] + Busy(call[n])
  BY <1>4, SlotTypes, ZenonT(30)
<1>6. Right(k, serve[Peer(n)], copy[n], copy[Peer(n)])
  BY <1>2, ZenonT(30) DEF Right
<1> QED
  BY <1>2, <1>3, <1>5, <1>6, CallAlone, ZenonT(30)

LEMMA DecideKeeps ==
    ASSUME SyncInv, NEW n \in SyncNode, Decide(n)
    PROVE  SyncInv'
<1> DEFINE l == call[n].file
           r == copy[Peer(n)]
           action == decide_action(call[n].dir, Ordering(l, r), Exists(l), Exists(r), call[n].res)
<1>1. /\ call[n].pc = "metadata" /\ UNCHANGED <<copy, serve, bcast, original>>
      /\ \/ action \in {"Nothing", "Err"} /\ Return(n, action = "Nothing")
         \/ /\ action = "Push" /\ UNCHANGED slots
            /\ call' = [call EXCEPT ![n].pc = "push", ![n].file = NoCopy, ![n].overwrite = Exists(r)]
         \/ /\ action = "Pull" /\ UNCHANGED slots
            /\ call' = [call EXCEPT ![n].pc = "request", ![n].file = NoCopy, ![n].overwrite = Exists(l)]
  BY ZenonT(30) DEF Decide
<1>2. /\ l \in File /\ r \in File /\ copy[n] \in File /\ call[n].dir \in {"Push", "Pull", "Bidirectional"}
      /\ Right(call[n], serve[Peer(n)], copy[n], r)
  BY SlotTypes, PeerFacts, ZenonT(30) DEF SyncRecord
<1>3. Exists(l) \in BOOLEAN /\ Exists(r) \in BOOLEAN
  BY ZenonT(30) DEF Exists
<1>4. ASSUME call[n].clean, call[n].res = "NewerWins"
      PROVE  /\ action = "Push" => copy[n] = r \/ Newer(copy[n], r)
             /\ action = "Pull" => copy[n] = r \/ Newer(r, copy[n])
             /\ call[n].dir = "Bidirectional" /\ action = "Nothing" => Agree(copy[n], r)
  <2>1. /\ action = "Push" => Newer(l, r)
        /\ action = "Pull" => Newer(r, l)
        /\ call[n].dir = "Bidirectional" /\ action = "Nothing" => Agree(l, r)
    BY <1>2, <1>4, Decision, ZenonT(30)
  <2> HIDE DEF action
  <2>2. l = copy[n] \/ copy[n] = r
    BY <1>1, <1>2, <1>4, ZenonT(30) DEF Right
  <2>3. copy[n] = r => Agree(copy[n], r)
    BY ZenonT(30) DEF Agree
  <2> QED
    BY <2>1, <2>2, <2>3, ZenonT(30)
<1>5. Busy(call[n]) = 1
  BY <1>1, ZenonT(30) DEF Busy
<1> HIDE DEF action
<1>6. CASE action \in {"Nothing", "Err"} /\ Return(n, action = "Nothing")
  <2>1. (action = "Nothing") \in BOOLEAN
    BY ZenonT(30)
  <2> QED
    BY <1>1, <1>4, <1>5, <1>6, <2>1, ReturnKeepsSync, ZenonT(30)
<1>7. CASE /\ action = "Push" /\ UNCHANGED slots
           /\ call' = [call EXCEPT ![n].pc = "push", ![n].file = NoCopy, ![n].overwrite = Exists(r)]
  <2> DEFINE over == Exists(r)
             place == "push"
  <2>1. /\ place \in {"push", "request"} /\ over \in BOOLEAN /\ place # "request"
        /\ call' = [call EXCEPT ![n].pc = place, ![n].file = NoCopy, ![n].overwrite = over]
    BY <1>3, <1>7, ZenonT(30)
  <2> HIDE DEF over, place
  <2> QED
    BY <1>1, <1>4, <1>7, <2>1, DecidedKeeps, ZenonT(30)
<1>8. CASE /\ action = "Pull" /\ UNCHANGED slots
           /\ call' = [call EXCEPT ![n].pc = "request", ![n].file = NoCopy, ![n].overwrite = Exists(l)]
  <2> DEFINE over == Exists(l)
             place == "request"
  <2>1. /\ place \in {"push", "request"} /\ over \in BOOLEAN /\ place # "push"
        /\ call' = [call EXCEPT ![n].pc = place, ![n].file = NoCopy, ![n].overwrite = over]
    BY <1>3, <1>8, ZenonT(30)
  <2> HIDE DEF over, place
  <2> QED
    BY <1>1, <1>4, <1>8, <2>1, DecidedKeeps, ZenonT(30)
<1> QED
  BY <1>1, <1>6, <1>7, <1>8, ZenonT(30)

LEMMA PushReadsKeeps ==
    ASSUME SyncInv, NEW n \in SyncNode, PushReads(n)
    PROVE  SyncInv'
<1> DEFINE k == [[call[n] EXCEPT !.pc = "sending"] EXCEPT !.file = copy[n]]
<1>0. call[n] \in SyncRecord /\ call \in [SyncNode -> SyncRecord] /\ copy[n] \in File
  BY SlotTypes, ZenonT(30) DEF SyncInv, SyncTypes
<1>1. /\ call[n].pc = "push" /\ UNCHANGED <<copy, slots, serve, bcast, original>>
      /\ call' = [call EXCEPT ![n].pc = "sending", ![n].file = copy[n]]
  BY ZenonT(30) DEF PushReads
<1>2. /\ k \in SyncRecord /\ k.pc = "sending" /\ k.file = copy[n]
      /\ k.clean = call[n].clean /\ k.res = call[n].res
  BY <1>0, ZenonT(30) DEF SyncRecord, CallPlaces
<1>3. call' = [call EXCEPT ![n] = k]
  <2>1. call = [m \in SyncNode |-> call[m]]
    BY <1>0, ZenonT(30)
  <2>2. call' = [m \in SyncNode |-> IF m = n THEN k ELSE call[m]]
    BY <1>1, <2>1, ZenonT(30)
  <2> HIDE DEF k
  <2> QED
    BY <2>1, <2>2, ZenonT(30)
<1> HIDE DEF k
<1>4. Busy(k) = Busy(call[n])
  BY <1>1, <1>2, ZenonT(30) DEF Busy
<1>5. slots' = [slots EXCEPT ![n] = slots[n]] /\ slots[n] \in Nat /\ slots[n] + Busy(k) = slots[n] + Busy(call[n])
  BY <1>1, <1>4, SlotTypes, ZenonT(30)
<1>6. Right(k, serve[Peer(n)], copy[n], copy[Peer(n)])
  BY <1>1, <1>2, SlotTypes, ZenonT(30) DEF Right
<1> QED
  BY <1>1, <1>2, <1>3, <1>5, <1>6, CallAlone, ZenonT(30)

LEMMA SyncTimeoutKeeps ==
    ASSUME SyncInv, NEW n \in SyncNode, SyncTimeout(n)
    PROVE  SyncInv'
<1>1. /\ call[n].pc \in {"metadata", "sending", "pulling"} /\ Return(n, FALSE)
      /\ UNCHANGED <<copy, serve, bcast, original>>
  BY ZenonT(30) DEF SyncTimeout
<1>2. Busy(call[n]) = 1
  BY <1>1, ZenonT(30) DEF Busy
<1> QED
  BY <1>1, <1>2, ReturnKeepsSync, ZenonT(30)

LEMMA RequestPullKeeps ==
    ASSUME SyncInv, NEW n \in SyncNode, RequestPull(n)
    PROVE  SyncInv'
<1> DEFINE k == [[call[n] EXCEPT !.pc = "pulling"] EXCEPT !.overwrite = FALSE]
           t == [[call[n] EXCEPT !.pc = "slot"] EXCEPT !.clean = FALSE]
<1>0. call[n] \in SyncRecord /\ call \in [SyncNode -> SyncRecord]
  BY SlotTypes, ZenonT(30) DEF SyncInv, SyncTypes
<1>1. /\ call[n].pc = "request" /\ serve[Peer(n)].pc = "idle"
      /\ UNCHANGED <<copy, slots, bcast, original>>
      /\ call' = [call EXCEPT ![n].pc = "pulling", ![n].overwrite = FALSE]
      /\ serve' = [serve EXCEPT ![Peer(n)] = t]
  BY ZenonT(30) DEF RequestPull
<1>2. /\ k \in SyncRecord /\ k.pc = "pulling" /\ k.clean = call[n].clean /\ k.res = call[n].res
      /\ t \in SyncRecord /\ t.pc = "slot"
  BY <1>0, ZenonT(30) DEF SyncRecord, CallPlaces
<1>3. call' = [call EXCEPT ![n] = k]
  <2>1. call = [m \in SyncNode |-> call[m]]
    BY <1>0, ZenonT(30)
  <2>2. call' = [m \in SyncNode |-> IF m = n THEN k ELSE call[m]]
    BY <1>1, <2>1, ZenonT(30)
  <2> HIDE DEF k
  <2> QED
    BY <2>1, <2>2, ZenonT(30)
<1> HIDE DEF k, t
<1>4. Busy(k) = Busy(call[n]) /\ ServeBusy(t) = ServeBusy(serve[Peer(n)])
  BY <1>1, <1>2, ZenonT(30) DEF Busy, ServeBusy
<1>5. slots' = [slots EXCEPT ![n] = slots[n]] /\ slots[n] \in Nat /\ slots[n] + Busy(k) = slots[n] + Busy(call[n])
  BY <1>1, <1>4, SlotTypes, ZenonT(30)
<1>6. Right(k, t, copy[n], copy[Peer(n)])
  BY <1>1, <1>2, SlotTypes, ZenonT(30) DEF Right
<1> QED
  BY <1>1, <1>2, <1>3, <1>4, <1>5, <1>6, OneCall, ZenonT(30)

LEMMA ServeReadsKeeps ==
    ASSUME SyncInv, NEW n \in SyncNode, ServeReads(n)
    PROVE  SyncInv'
<1> DEFINE t == [[serve[n] EXCEPT !.pc = "sending"] EXCEPT !.file = copy[n]]
           j == slots[n] - 1
<1>0. /\ serve[n] \in SyncRecord /\ serve \in [SyncNode -> SyncRecord] /\ copy[n] \in File
      /\ Peer(n) \in SyncNode /\ Peer(Peer(n)) = n
  BY SlotTypes, PeerFacts, ZenonT(30) DEF SyncInv, SyncTypes
<1>1. /\ serve[n].pc = "slot" /\ slots[n] > 0 /\ slots' = [slots EXCEPT ![n] = j]
      /\ UNCHANGED <<copy, call, bcast, original>>
      /\ serve' = [serve EXCEPT ![n].pc = "sending", ![n].file = copy[n]]
  BY ZenonT(30) DEF ServeReads, Acquire
<1>2. t \in SyncRecord /\ t.pc = "sending" /\ t.file = copy[n]
  BY <1>0, ZenonT(30) DEF SyncRecord, CallPlaces
<1>3. serve' = [serve EXCEPT ![n] = t]
  <2>1. serve = [m \in SyncNode |-> serve[m]]
    BY <1>0, ZenonT(30)
  <2>2. serve' = [m \in SyncNode |-> IF m = n THEN t ELSE serve[m]]
    BY <1>1, <2>1, ZenonT(30)
  <2> HIDE DEF t
  <2> QED
    BY <2>1, <2>2, ZenonT(30)
<1>4. ServeBusy(t) = 1 /\ ServeBusy(serve[n]) = 0
  BY <1>1, <1>2, ZenonT(30) DEF ServeBusy
<1> HIDE DEF t
<1>5. j \in Nat /\ j + ServeBusy(t) = slots[n] + ServeBusy(serve[n])
  BY <1>1, <1>4, SlotTypes
<1> HIDE DEF j
<1>6. Right(call[Peer(n)], t, copy[Peer(n)], copy[n])
  <2>1. Right(call[Peer(n)], serve[n], copy[Peer(n)], copy[n])
    BY <1>0, SlotTypes, ZenonT(30)
  <2> QED
    BY <1>2, <2>1, ZenonT(30) DEF Right
<1> QED
  BY <1>1, <1>2, <1>3, <1>5, <1>6, OneServe, ZenonT(30)

LEMMA ServeFailsKeeps ==
    ASSUME SyncInv, NEW n \in SyncNode, ServeFails(n)
    PROVE  SyncInv'
<1> DEFINE j == slots[n] + 1
<1>1. /\ serve[n].pc = "sending" /\ serve' = [serve EXCEPT ![n] = NoCall]
      /\ slots' = [slots EXCEPT ![n] = j] /\ UNCHANGED <<copy, call, bcast, original>>
  BY ZenonT(30) DEF ServeFails, Release
<1>2. ServeBusy(NoCall) = 0 /\ ServeBusy(serve[n]) = 1
  BY <1>1, NoCallFacts, ZenonT(30) DEF ServeBusy
<1>3. j \in Nat /\ j + ServeBusy(NoCall) = slots[n] + ServeBusy(serve[n])
  BY <1>2, SlotTypes
<1> HIDE DEF j
<1>4. Right(call[Peer(n)], NoCall, copy[Peer(n)], copy[n])
  <2>1. Right(call[Peer(n)], serve[n], copy[Peer(n)], copy[n])
    BY PeerFacts, SlotTypes, ZenonT(30)
  <2> QED
    BY <2>1, NoCallFacts, RightWithout, ZenonT(30)
<1> QED
  BY <1>1, <1>3, <1>4, NoCallFacts, OneServe, ZenonT(30)

-----------------------------------------------------------------------------
(* FileSync: the writes.                                                   *)

LEMMA DisturbedFacts ==
    ASSUME SyncInv
    PROVE  /\ Disturbed \in [SyncNode -> SyncRecord]
           /\ \A m \in SyncNode : /\ Disturbed[m].pc = call[m].pc /\ Disturbed[m].clean = FALSE
                                  /\ Busy(Disturbed[m]) = Busy(call[m])
<1>1. ASSUME NEW m \in SyncNode
      PROVE  /\ Disturbed[m] \in SyncRecord /\ Disturbed[m].pc = call[m].pc
             /\ Disturbed[m].clean = FALSE
  <2>1. Disturbed[m] = [call[m] EXCEPT !.clean = FALSE] /\ call[m] \in SyncRecord
    BY SlotTypes, ZenonT(30) DEF Disturbed
  <2> QED
    BY <2>1, ZenonT(30) DEF SyncRecord
<1>2. Disturbed \in [SyncNode -> SyncRecord]
  <2>1. Disturbed = [m \in SyncNode |-> Disturbed[m]]
    BY ZenonT(30) DEF Disturbed
  <2> HIDE DEF Disturbed
  <2> QED
    BY <1>1, <2>1, ZenonT(30)
<1>3. ASSUME NEW m \in SyncNode
      PROVE  Busy(Disturbed[m]) = Busy(call[m])
  BY <1>1, ZenonT(30) DEF Busy
<1> QED
  BY <1>1, <1>2, <1>3, ZenonT(30)

LEMMA UncleanIsRight ==
    ASSUME NEW c, NEW s, NEW a, NEW b, c.clean = FALSE
    PROVE  Right(c, s, a, b)
BY ZenonT(30) DEF Right

\* The calls f after the transfer of n's call has ended.
Ended(f, n, ok) ==
    /\ f \in [SyncNode -> SyncRecord] /\ Busy(f[n]) = 0
    /\ f[n].pc = "returned" /\ f[n].ok = ok
    /\ Busy(f[Peer(n)]) = Busy(call[Peer(n)])
    /\ IF call[n].clean /\ call[n].res = "NewerWins" THEN f[Peer(n)] = call[Peer(n)]
       ELSE \A m \in SyncNode : f[m].clean = FALSE

LEMMA AfterFacts ==
    ASSUME SyncInv, NEW n \in SyncNode, NEW ok \in BOOLEAN
    PROVE  Ended([After(call[n]) EXCEPT ![n] = Returned(@, ok)], n, ok)
<1> DEFINE g == After(call[n])
           f == [g EXCEPT ![n] = Returned(@, ok)]
<1>0. Peer(n) \in SyncNode /\ Peer(n) # n /\ \A m \in SyncNode : m = n \/ m = Peer(n)
  BY PeerFacts, ZenonT(30)
<1>1. /\ g \in [SyncNode -> SyncRecord] /\ Busy(g[Peer(n)]) = Busy(call[Peer(n)])
      /\ IF call[n].clean /\ call[n].res = "NewerWins" THEN g = call
         ELSE \A m \in SyncNode : g[m].clean = FALSE
  <2>1. call \in [SyncNode -> SyncRecord]
    BY ZenonT(30) DEF SyncInv, SyncTypes
  <2>2. CASE call[n].clean /\ call[n].res = "NewerWins"
    BY <2>1, <2>2, ZenonT(30) DEF After
  <2>3. CASE ~(call[n].clean /\ call[n].res = "NewerWins")
    <3>1. g = Disturbed
      BY <2>3, ZenonT(30) DEF After
    <3> HIDE DEF g
    <3> QED
      BY <1>0, <2>3, <3>1, DisturbedFacts, ZenonT(30)
  <2> QED
    BY <2>2, <2>3, ZenonT(30)
<1>2. /\ f = [g EXCEPT ![n] = Returned(g[n], ok)]
      /\ f = [After(call[n]) EXCEPT ![n] = Returned(@, ok)]
  BY ZenonT(30)
<1> HIDE DEF g, f
<1>3. g[n] \in SyncRecord
  BY <1>1, ZenonT(30)
<1> DEFINE k == Returned(g[n], ok)
<1>4. k \in SyncRecord /\ k.pc = "returned" /\ k.ok = ok /\ k.clean = g[n].clean /\ Busy(k) = 0
  BY <1>3, ReturnedFacts, ZenonT(30)
<1>5. f = [g EXCEPT ![n] = k]
  BY <1>2, ZenonT(30)
<1> HIDE DEF k
<1>6. f \in [SyncNode -> SyncRecord] /\ f[n] = k /\ f[Peer(n)] = g[Peer(n)]
  BY <1>0, <1>1, <1>4, <1>5, ZenonT(30)
<1>7. IF call[n].clean /\ call[n].res = "NewerWins" THEN f[Peer(n)] = call[Peer(n)]
      ELSE \A m \in SyncNode : f[m].clean = FALSE
  <2>1. CASE call[n].clean /\ call[n].res = "NewerWins"
    BY <1>1, <1>6, <2>1, ZenonT(30)
  <2>2. CASE ~(call[n].clean /\ call[n].res = "NewerWins")
    <3>1. f[n].clean = FALSE /\ f[Peer(n)].clean = FALSE
      BY <1>0, <1>1, <1>4, <1>6, <2>2, ZenonT(30)
    <3> QED
      BY <1>0, <2>2, <3>1, ZenonT(30)
  <2> QED
    BY <2>1, <2>2, ZenonT(30)
<1>8. Ended(f, n, ok)
  BY <1>1, <1>4, <1>6, <1>7, ZenonT(30) DEF Ended
<1> QED
  BY <1>2, <1>8, ZenonT(30)

\* The balance of the slots, and what is right, at both nodes.
LEMMA BothKeep ==
    ASSUME SyncInv, NEW n \in SyncNode, UNCHANGED <<bcast, original>>,
           copy' \in [SyncNode -> File], slots' \in [SyncNode -> Nat],
           call' \in [SyncNode -> SyncRecord], serve' \in [SyncNode -> SyncRecord],
           slots'[n] + Busy(call'[n]) + ServeBusy(serve'[n])
             = slots[n] + Busy(call[n]) + ServeBusy(serve[n]),
           slots'[Peer(n)] + Busy(call'[Peer(n)]) + ServeBusy(serve'[Peer(n)])
             = slots[Peer(n)] + Busy(call[Peer(n)]) + ServeBusy(serve[Peer(n)]),
           Right(call'[n], serve'[Peer(n)], copy'[n], copy'[Peer(n)]),
           Right(call'[Peer(n)], serve'[n], copy'[Peer(n)], copy'[n])
    PROVE  SyncInv'
<1>0. Peer(Peer(n)) = n /\ \A m \in SyncNode : m = n \/ m = Peer(n)
  BY PeerFacts, ZenonT(30)
<1>1. ASSUME NEW m \in SyncNode
      PROVE  slots'[m] + Busy(call'[m]) + ServeBusy(serve'[m])
               = slots[m] + Busy(call[m]) + ServeBusy(serve[m])
  BY <1>0, ZenonT(30)
<1>2. ASSUME NEW m \in SyncNode
      PROVE  Right(call'[m], serve'[Peer(m)], copy'[m], copy'[Peer(m)])
  BY <1>0, ZenonT(30)
<1> QED
  BY <1>1, <1>2, CallsKeep, ZenonT(30)

LEMMA PushInstallsKeeps ==
    ASSUME SyncInv, NEW n \in SyncNode, PushInstalls(n)
    PROVE  SyncInv'
<1> DEFINE p == Peer(n)
           ok == Installs(call[n].file, call[n].overwrite, p)
           j == slots[n] + 1
<1>0. /\ p \in SyncNode /\ p # n /\ Peer(p) = n /\ slots \in [SyncNode -> Nat]
      /\ copy \in [SyncNode -> File] /\ serve \in [SyncNode -> SyncRecord]
      /\ call[n].file \in File /\ copy[n] \in File /\ copy[p] \in File
  BY PeerFacts, SlotTypes, ZenonT(30) DEF SyncInv, SyncTypes, SyncRecord
<1>1. /\ call[n].pc = "sending" /\ UNCHANGED <<serve, bcast, original>>
      /\ copy' = (IF ok THEN [copy EXCEPT ![p] = call[n].file] ELSE copy)
      /\ call' = [After(call[n]) EXCEPT ![n] = Returned(@, ok)]
      /\ slots' = [slots EXCEPT ![n] = j]
  BY ZenonT(30) DEF PushInstalls, Release
<1>2. ok \in BOOLEAN
  BY ZenonT(30) DEF Installs
<1> HIDE DEF ok
<1>3. /\ call' \in [SyncNode -> SyncRecord] /\ Busy(call'[n]) = 0
      /\ call'[n].pc = "returned" /\ call'[n].ok = ok /\ Busy(call'[p]) = Busy(call[p])
      /\ IF call[n].clean /\ call[n].res = "NewerWins" THEN call'[p] = call[p]
         ELSE \A m \in SyncNode : call'[m].clean = FALSE
  <2>1. Ended(call', n, ok)
    BY <1>1, <1>2, AfterFacts, ZenonT(30)
  <2> QED
    BY <2>1, ZenonT(30) DEF Ended
<1>4. Busy(call[n]) = 1
  BY <1>1, ZenonT(30) DEF Busy
<1>5. /\ slots[n] \in Nat /\ j \in Nat /\ j + 0 + ServeBusy(serve[n]) = slots[n] + 1 + ServeBusy(serve[n])
  BY SlotTypes, BusyIsNat
<1> HIDE DEF j
<1>6. slots' \in [SyncNode -> Nat] /\ slots'[n] = j /\ slots'[p] = slots[p]
  BY <1>0, <1>1, <1>5, ZenonT(30)
<1>7. copy' \in [SyncNode -> File]
  BY <1>0, <1>1, ZenonT(30)
<1>8. /\ slots'[n] + Busy(call'[n]) + ServeBusy(serve'[n])
           = slots[n] + Busy(call[n]) + ServeBusy(serve[n])
      /\ slots'[p] + Busy(call'[p]) + ServeBusy(serve'[p])
           = slots[p] + Busy(call[p]) + ServeBusy(serve[p])
  BY <1>1, <1>3, <1>4, <1>5, <1>6, ZenonT(30)
<1>9. /\ Right(call'[n], serve'[p], copy'[n], copy'[p])
      /\ Right(call'[p], serve'[n], copy'[p], copy'[n])
  <2>1. CASE ~(call[n].clean /\ call[n].res = "NewerWins")
    BY <1>0, <1>3, <2>1, UncleanIsRight, ZenonT(30)
  <2>2. CASE (call[n].clean /\ call[n].res = "NewerWins") /\ ~ok
    <3>1. copy' = copy /\ serve' = serve /\ call'[p] = call[p]
      BY <1>1, <1>3, <2>2, ZenonT(30)
    <3>2. Right(call'[n], serve'[p], copy'[n], copy'[p])
      BY <1>3, <2>2, ZenonT(30) DEF Right
    <3>3. Right(call[p], serve[n], copy[p], copy[n])
      BY <1>0, SlotTypes, ZenonT(30)
    <3> QED
      BY <3>1, <3>2, <3>3, ZenonT(30)
  <2>3. CASE (call[n].clean /\ call[n].res = "NewerWins") /\ ok
    <3>1. Right(call[n], serve[p], copy[n], copy[p]) /\ Right(call[p], serve[n], copy[p], copy[n])
      BY <1>0, SlotTypes, ZenonT(30)
    <3>2. call[n].file = copy[n] /\ (copy[p] = copy[n] \/ Newer(copy[n], copy[p]))
      BY <1>1, <2>3, <3>1, ZenonT(30) DEF Right
    <3>3. copy'[p] = copy[n] /\ copy'[n] = copy[n] /\ call'[p] = call[p] /\ serve' = serve
      BY <1>0, <1>1, <1>3, <2>3, <3>2, ZenonT(30)
    <3>4. Right(call[p], serve[n], copy[n], copy[n])
      BY <1>0, <3>1, <3>2, RightAfterWrite, ZenonT(30)
    <3>5. Right(call'[n], serve'[p], copy[n], copy[n])
      BY <1>3, ZenonT(30) DEF Right, Agree
    <3> QED
      BY <3>3, <3>4, <3>5, ZenonT(30)
  <2> QED
    BY <2>1, <2>2, <2>3, ZenonT(30)
<1> QED
  BY <1>0, <1>1, <1>3, <1>6, <1>7, <1>8, <1>9, BothKeep, ZenonT(30)

LEMMA ServeInstallsKeeps ==
    ASSUME SyncInv, NEW n \in SyncNode, ServeInstalls(n)
    PROVE  SyncInv'
<1> DEFINE p == Peer(n)
           ok == Installs(serve[n].file, serve[n].overwrite, p)
           waits == call[p].pc = "pulling"
           j == slots[n] + 1
           i == IF waits THEN slots[p] + 1 ELSE slots[p]
<1>0. /\ p \in SyncNode /\ p # n /\ Peer(p) = n /\ slots \in [SyncNode -> Nat]
      /\ copy \in [SyncNode -> File] /\ serve \in [SyncNode -> SyncRecord]
      /\ serve[n].file \in File /\ copy[n] \in File /\ copy[p] \in File
      /\ Right(call[p], serve[n], copy[p], copy[n]) /\ Right(call[n], serve[p], copy[n], copy[p])
  <2>1. p \in SyncNode /\ p # n /\ Peer(p) = n
    BY PeerFacts, ZenonT(30)
  <2>2. serve[n] \in SyncRecord /\ copy[n] \in File /\ Right(call[n], serve[p], copy[n], copy[p])
    BY SlotTypes, ZenonT(30)
  <2>3. copy[p] \in File /\ Right(call[p], serve[n], copy[p], copy[n])
    BY <2>1, SlotTypes, ZenonT(30)
  <2>4. serve[n].file \in File
    BY <2>2, ZenonT(30) DEF SyncRecord
  <2>5. /\ slots \in [SyncNode -> Nat] /\ copy \in [SyncNode -> File]
        /\ serve \in [SyncNode -> SyncRecord]
    BY ZenonT(30) DEF SyncInv, SyncTypes
  <2> QED
    BY <2>1, <2>2, <2>3, <2>4, <2>5, ZenonT(30)
<1>1. /\ serve[n].pc = "sending" /\ UNCHANGED <<bcast, original>>
      /\ copy' = (IF ok THEN [copy EXCEPT ![p] = serve[n].file] ELSE copy)
      /\ call' = (IF waits THEN [After(call[p]) EXCEPT ![p] = Returned(@, ok)] ELSE Disturbed)
      /\ slots' = [slots EXCEPT ![n] = @ + 1, ![p] = IF waits THEN @ + 1 ELSE @]
      /\ serve' = [serve EXCEPT ![n] = NoCall]
  BY ZenonT(30) DEF ServeInstalls
<1>2. ok \in BOOLEAN
  BY ZenonT(30) DEF Installs
<1> HIDE DEF ok
<1>3. slots' = [m \in SyncNode |-> IF m = n THEN j ELSE IF m = p THEN i ELSE slots[m]]
  <2>1. slots = [m \in SyncNode |-> slots[m]]
    BY <1>0, ZenonT(30)
  <2> QED
    BY <1>0, <1>1, <2>1, Zenon
<1>4. serve' \in [SyncNode -> SyncRecord] /\ serve'[n] = NoCall /\ serve'[p] = serve[p]
  BY <1>0, <1>1, NoCallFacts, ZenonT(30)
<1>5. ServeBusy(serve'[n]) = 0 /\ ServeBusy(serve[n]) = 1 /\ NoCall.pc # "sending"
  BY <1>1, <1>4, NoCallFacts, ZenonT(30) DEF ServeBusy
<1>6. copy' \in [SyncNode -> File] /\ copy'[n] = copy[n] /\ copy'[p] = IF ok THEN serve[n].file ELSE copy[p]
  BY <1>0, <1>1, ZenonT(30)
<1>7. /\ call' \in [SyncNode -> SyncRecord] /\ Busy(call'[n]) = Busy(call[n])
      /\ IF waits THEN Busy(call'[p]) = 0 /\ Busy(call[p]) = 1 ELSE Busy(call'[p]) = Busy(call[p])
      /\ Right(call'[n], serve'[p], copy'[n], copy'[p])
      /\ Right(call'[p], serve'[n], copy'[p], copy'[n])
  <2>1. CASE ~waits
    <3>1. call' = Disturbed
      BY <1>1, <2>1, ZenonT(30)
    <3>2. /\ call' \in [SyncNode -> SyncRecord]
          /\ \A m \in SyncNode : call'[m].clean = FALSE /\ Busy(call'[m]) = Busy(call[m])
      BY <3>1, DisturbedFacts, ZenonT(30)
    <3> QED
      BY <1>0, <2>1, <3>2, UncleanIsRight, ZenonT(30)
  <2>2. CASE waits
    <3>1. /\ call' \in [SyncNode -> SyncRecord] /\ Busy(call'[p]) = 0
          /\ call'[p].pc = "returned" /\ call'[p].ok = ok /\ Busy(call'[n]) = Busy(call[n])
          /\ IF call[p].clean /\ call[p].res = "NewerWins" THEN call'[n] = call[n]
             ELSE \A m \in SyncNode : call'[m].clean = FALSE
      <4>1. call' = [After(call[p]) EXCEPT ![p] = Returned(@, ok)]
        BY <1>1, <2>2, ZenonT(30)
      <4>2. Ended(call', p, ok)
        BY <1>0, <1>2, <4>1, AfterFacts, ZenonT(30)
      <4> QED
        BY <1>0, <4>2, ZenonT(30) DEF Ended
    <3>2. Busy(call[p]) = 1
      BY <2>2, ZenonT(30) DEF Busy
    <3>3. /\ Right(call'[n], serve'[p], copy'[n], copy'[p])
          /\ Right(call'[p], serve'[n], copy'[p], copy'[n])
      <4>1. CASE ~(call[p].clean /\ call[p].res = "NewerWins")
        BY <1>0, <3>1, <4>1, UncleanIsRight, ZenonT(30)
      <4>2. CASE (call[p].clean /\ call[p].res = "NewerWins") /\ ~ok
        <5>1. Right(call'[p], serve'[n], copy'[p], copy'[n])
          BY <3>1, <4>2, ZenonT(30) DEF Right
        <5> QED
          BY <1>0, <1>4, <1>6, <3>1, <4>2, <5>1, ZenonT(30)
      <4>3. CASE (call[p].clean /\ call[p].res = "NewerWins") /\ ok
        <5>1. serve[n].file = copy[n] /\ (copy[n] = copy[p] \/ Newer(copy[n], copy[p]))
          BY <1>0, <1>1, <2>2, <4>3, ZenonT(30) DEF Right
        <5>2. Right(call[n], serve[p], copy[n], copy[n])
          BY <1>0, <5>1, RightAfterWrite, ZenonT(30)
        <5>3. Right(call'[p], serve'[n], copy[n], copy[n])
          BY <3>1, ZenonT(30) DEF Right, Agree
        <5> QED
          BY <1>4, <1>6, <3>1, <4>3, <5>1, <5>2, <5>3, ZenonT(30)
      <4> QED
        BY <4>1, <4>2, <4>3, ZenonT(30)
    <3> QED
      BY <2>2, <3>1, <3>2, <3>3, ZenonT(30)
  <2> QED
    BY <2>1, <2>2, ZenonT(30)
<1>8. slots[n] \in Nat /\ slots[p] \in Nat /\ Busy(call[n]) \in Nat /\ ServeBusy(serve[p]) \in Nat
  BY <1>0, BusyIsNat, ZenonT(30)
<1>9. j \in Nat /\ i \in Nat /\ j + Busy(call[n]) + 0 = slots[n] + Busy(call[n]) + 1
  BY <1>8
<1>10. slots' \in [SyncNode -> Nat] /\ slots'[n] = j /\ slots'[p] = i
  <2> HIDE DEF i, j
  <2> QED
    BY <1>0, <1>3, <1>9, ZenonT(30)
<1>11. slots'[n] + Busy(call'[n]) + ServeBusy(serve'[n]) = slots[n] + Busy(call[n]) + ServeBusy(serve[n])
  BY <1>5, <1>7, <1>9, <1>10, ZenonT(30)
<1>12. slots'[p] + Busy(call'[p]) + ServeBusy(serve'[p]) = slots[p] + Busy(call[p]) + ServeBusy(serve[p])
  <2>1. CASE waits
    <3>1. (slots[p] + 1) + 0 + ServeBusy(serve[p]) = slots[p] + 1 + ServeBusy(serve[p])
      BY <1>8
    <3> QED
      BY <1>4, <1>7, <1>10, <2>1, <3>1, ZenonT(30)
  <2>2. CASE ~waits
    BY <1>4, <1>7, <1>10, <2>2, ZenonT(30)
  <2> QED
    BY <2>1, <2>2, ZenonT(30)
<1> QED
  BY <1>1, <1>4, <1>6, <1>7, <1>10, <1>11, <1>12, BothKeep, ZenonT(30)

LEMMA EditKeeps ==
    ASSUME SyncInv, NEW n \in SyncNode, Edit(n)
    PROVE  SyncInv'
<1>1. /\ call' = Disturbed /\ UNCHANGED <<slots, serve, bcast, original>>
      /\ \E m \in Modified : copy' = [copy EXCEPT ![n] = [by |-> n, modified |-> m]]
  BY ZenonT(30) DEF Edit
<1>2. /\ copy \in [SyncNode -> File] /\ slots' \in [SyncNode -> Nat] /\ serve' \in [SyncNode -> SyncRecord]
  BY <1>1, ZenonT(30) DEF SyncInv, SyncTypes
<1>3. copy' \in [SyncNode -> File]
  <2>1. PICK m \in Modified : copy' = [copy EXCEPT ![n] = [by |-> n, modified |-> m]]
    BY <1>1, ZenonT(30)
  <2> DEFINE file == [by |-> n, modified |-> m]
  <2>2. file \in File /\ copy' = [copy EXCEPT ![n] = file]
    BY <2>1, ZenonT(30) DEF File
  <2> HIDE DEF file
  <2> QED
    BY <1>2, <2>2, ZenonT(30)
<1>4. /\ call' \in [SyncNode -> SyncRecord]
      /\ \A m \in SyncNode : call'[m].clean = FALSE /\ Busy(call'[m]) = Busy(call[m])
  BY <1>1, DisturbedFacts, ZenonT(30)
<1>5. ASSUME NEW m \in SyncNode
      PROVE  slots'[m] + Busy(call'[m]) + ServeBusy(serve'[m])
               = slots[m] + Busy(call[m]) + ServeBusy(serve[m])
  BY <1>1, <1>4, ZenonT(30)
<1>6. ASSUME NEW m \in SyncNode
      PROVE  Right(call'[m], serve'[Peer(m)], copy'[m], copy'[Peer(m)])
  BY <1>4, UncleanIsRight, ZenonT(30)
<1> QED
  BY <1>1, <1>2, <1>3, <1>4, <1>5, <1>6, CallsKeep, ZenonT(30)

-----------------------------------------------------------------------------
(* FileSync: the broadcast, and the theorem.                               *)

LEMMA BroadcastKeeps ==
    ASSUME SyncInv, UNCHANGED <<copy, call, serve>>, BroadcastMovesToAll',
           bcast' \in [Target -> {"idle", "slot", "sending", "ok", "failed"}],
           NEW j \in Nat, slots' = [slots EXCEPT ![Broadcaster] = j],
           j + Cardinality(Sending)' = slots[Broadcaster] + Cardinality(Sending),
           Cardinality(Sending)' \in Nat
    PROVE  SyncInv'
<1>0. Broadcaster \in SyncNode /\ slots \in [SyncNode -> Nat]
  BY PeerFacts, ZenonT(30) DEF SyncInv, SyncTypes
<1>1. SyncTypes'
  BY <1>0, ZenonT(30) DEF SyncInv, SyncTypes
<1>2. AgreeInv'
  BY ZenonT(30) DEF SyncInv, AgreeInv
<1>3. SlotInv'
  <2> SUFFICES ASSUME NEW m \in SyncNode
               PROVE  slots'[m] + Busy(call[m]) + ServeBusy(serve[m]) + Sends(m)'
                        = max_concurrent_transfers
    BY ZenonT(30) DEF SlotInv
  <2>1. slots[m] + Busy(call[m]) + ServeBusy(serve[m]) + Sends(m) = max_concurrent_transfers
    BY ZenonT(30) DEF SyncInv, SlotInv
  <2>2. CASE m # Broadcaster
    <3>1. slots'[m] = slots[m] /\ Sends(m)' = Sends(m)
      BY <1>0, <2>2, ZenonT(30) DEF Sends
    <3> QED
      BY <2>1, <3>1, ZenonT(30)
  <2>3. CASE m = Broadcaster
    <3>1. /\ slots'[m] = j /\ Sends(m)' = Cardinality(Sending)' /\ Sends(m) = Cardinality(Sending)
          /\ slots[m] \in Nat /\ Busy(call[m]) \in Nat /\ ServeBusy(serve[m]) \in Nat /\ Sends(m) \in Nat
      BY <1>0, <2>3, BusyIsNat, SendsIsNat, ZenonT(30) DEF Sends
    <3>2. /\ slots'[m] \in Nat /\ Sends(m)' \in Nat
          /\ slots'[m] + Sends(m)' = slots[m] + Sends(m)
      BY <2>3, <3>1, ZenonT(30)
    <3> QED
      BY <2>1, <3>1, <3>2
  <2> QED
    BY <2>2, <2>3, ZenonT(30)
<1> QED
  BY <1>1, <1>2, <1>3, ZenonT(30) DEF SyncInv

LEMMA SendingIsFinite == IsFiniteSet(Sending) /\ Cardinality(Sending) \in Nat
<1>1. IsFiniteSet(Target)
  BY SyncAssumption, ZenonT(30)
<1>2. Sending \in SUBSET Target
  BY ZenonT(30) DEF Sending
<1>3. IsFiniteSet(Sending)
  BY <1>1, <1>2, FS_Subset, ZenonT(30)
<1> QED
  BY <1>3, FS_CardinalityType, ZenonT(30)

LEMMA BroadcastStartsKeeps ==
    ASSUME SyncInv, broadcast_file
    PROVE  SyncInv'
<1>1. /\ \A t \in Target : bcast[t] = "idle"
      /\ bcast' = [t \in Target |-> "slot"] /\ UNCHANGED <<copy, slots, call, serve, original>>
  BY ZenonT(30) DEF broadcast_file
<1>2. Sending = {} /\ Sending' = {}
  BY <1>1, ZenonT(30) DEF Sending
<1>3. Cardinality(Sending)' = Cardinality(Sending)
  BY <1>2, ZenonT(30)
<1>4. BroadcastMovesToAll'
  <2>1. ASSUME ~original, NEW t \in Target
        PROVE  FALSE
    <3>1. bcast[t] = "ok"
      BY <2>1, ZenonT(30) DEF SyncInv, BroadcastMovesToAll
    <3> QED
      BY <1>1, <3>1, ZenonT(30)
  <2> QED
    BY <1>1, <2>1, ZenonT(30) DEF BroadcastMovesToAll
<1>5. bcast' \in [Target -> {"idle", "slot", "sending", "ok", "failed"}]
  BY <1>1, ZenonT(30)
<1>6. slots' = [slots EXCEPT ![Broadcaster] = slots[Broadcaster]] /\ slots[Broadcaster] \in Nat
  BY <1>1, PeerFacts, SlotTypes, ZenonT(30)
<1>7. Cardinality(Sending) \in Nat
  BY SendingIsFinite, ZenonT(30)
<1> HIDE DEF Sending
<1> QED
  BY <1>1, <1>3, <1>4, <1>5, <1>6, <1>7, BroadcastKeeps, ZenonT(30)

LEMMA BroadcastReadsKeeps ==
    ASSUME SyncInv, NEW t \in Target, BroadcastReads(t)
    PROVE  SyncInv'
<1> DEFINE j == slots[Broadcaster] - 1
<1>1. /\ bcast[t] = "slot" /\ slots[Broadcaster] > 0 /\ slots' = [slots EXCEPT ![Broadcaster] = j]
      /\ bcast' = [bcast EXCEPT ![t] = "sending"] /\ UNCHANGED <<copy, call, serve, original>>
  BY ZenonT(30) DEF BroadcastReads, Acquire
<1>2. /\ bcast \in [Target -> {"idle", "slot", "sending", "ok", "failed"}]
      /\ slots[Broadcaster] \in Nat
  BY PeerFacts, SlotTypes, ZenonT(30) DEF SyncInv, SyncTypes
<1>3. bcast' \in [Target -> {"idle", "slot", "sending", "ok", "failed"}]
  BY <1>1, <1>2, ZenonT(30)
<1>4. Sending' = Sending \cup {t} /\ t \notin Sending
  BY <1>1, <1>2, ZenonT(30) DEF Sending
<1>5. original
  BY <1>1, ZenonT(30) DEF SyncInv, BroadcastMovesToAll
<1>6. BroadcastMovesToAll'
  BY <1>1, <1>5, ZenonT(30) DEF BroadcastMovesToAll
<1> DEFINE c == Cardinality(Sending)
           d == Cardinality(Sending)'
<1>7. c \in Nat /\ d = c + 1
  <2>1. IsFiniteSet(Sending) /\ c \in Nat
    BY SendingIsFinite, ZenonT(30)
  <2>2. Cardinality(Sending \cup {t}) = Cardinality(Sending) + 1
    BY <1>4, <2>1, FS_AddElement, ZenonT(30)
  <2> QED
    BY <1>4, <2>1, <2>2, ZenonT(30)
<1> HIDE DEF c, d
<1>8. j \in Nat /\ d \in Nat /\ j + d = slots[Broadcaster] + c
  BY <1>1, <1>2, <1>7
<1> HIDE DEF j
<1>9. j + Cardinality(Sending)' = slots[Broadcaster] + Cardinality(Sending) /\ Cardinality(Sending)' \in Nat
  BY <1>8, ZenonT(30) DEF c, d
<1> QED
  BY <1>1, <1>3, <1>6, <1>8, <1>9, BroadcastKeeps, ZenonT(30)

LEMMA BroadcastSendsKeeps ==
    ASSUME SyncInv, NEW t \in Target, BroadcastSends(t)
    PROVE  SyncInv'
<1> DEFINE j == slots[Broadcaster] + 1
<1>1. /\ bcast[t] = "sending" /\ slots' = [slots EXCEPT ![Broadcaster] = j]
      /\ UNCHANGED <<copy, call, serve, original>>
  BY ZenonT(30) DEF BroadcastSends, Release
<1>2. PICK result \in {"ok", "failed"} : bcast' = [bcast EXCEPT ![t] = result]
  BY ZenonT(30) DEF BroadcastSends
<1>3. /\ bcast \in [Target -> {"idle", "slot", "sending", "ok", "failed"}]
      /\ slots[Broadcaster] \in Nat
  BY PeerFacts, SlotTypes, ZenonT(30) DEF SyncInv, SyncTypes
<1>4. bcast' \in [Target -> {"idle", "slot", "sending", "ok", "failed"}]
  BY <1>2, <1>3, ZenonT(30)
<1>5. Sending' = Sending \ {t} /\ t \in Sending
  <2>1. bcast'[t] # "sending" /\ \A u \in Target : u # t => bcast'[u] = bcast[u]
    BY <1>2, <1>3, ZenonT(30)
  <2> QED
    BY <1>1, <2>1, ZenonT(30) DEF Sending
<1>6. BroadcastMovesToAll'
  BY <1>1, ZenonT(30) DEF SyncInv, BroadcastMovesToAll
<1> DEFINE c == Cardinality(Sending)
           d == Cardinality(Sending)'
<1>7. c \in Nat /\ d \in Nat /\ d = c - 1
  <2>1. IsFiniteSet(Sending) /\ c \in Nat
    BY SendingIsFinite, ZenonT(30)
  <2>2. IsFiniteSet(Sending \ {t}) /\ Cardinality(Sending \ {t}) = Cardinality(Sending) - 1
    BY <1>5, <2>1, FS_RemoveElement, ZenonT(30)
  <2>3. Cardinality(Sending \ {t}) \in Nat
    BY <2>2, FS_CardinalityType, ZenonT(30)
  <2> QED
    BY <1>5, <2>1, <2>2, <2>3, ZenonT(30)
<1> HIDE DEF c, d
<1>8. j \in Nat /\ j + d = slots[Broadcaster] + c
  BY <1>3, <1>7
<1> HIDE DEF j
<1>9. j + Cardinality(Sending)' = slots[Broadcaster] + Cardinality(Sending) /\ Cardinality(Sending)' \in Nat
  BY <1>7, <1>8, ZenonT(30) DEF c, d
<1> QED
  BY <1>1, <1>4, <1>6, <1>8, <1>9, BroadcastKeeps, ZenonT(30)

LEMMA BroadcastEndsKeeps ==
    ASSUME SyncInv, BroadcastEnds
    PROVE  SyncInv'
<1>1. /\ \A t \in Target : bcast[t] \in {"ok", "failed"} /\ bcast[t] # "failed"
      /\ UNCHANGED <<copy, slots, call, serve, bcast>>
  BY ZenonT(30) DEF BroadcastEnds, Settled
<1>2. BroadcastMovesToAll'
  BY <1>1, ZenonT(30) DEF BroadcastMovesToAll
<1>3. SyncTypes' /\ SlotInv' /\ AgreeInv'
  BY <1>1, ZenonT(30) DEF SyncInv, SyncTypes, SlotInv, AgreeInv, Sends, Sending
<1> QED
  BY <1>2, <1>3, ZenonT(30) DEF SyncInv

LEMMA SyncInitKeeps ==
    ASSUME SyncInit
    PROVE  SyncInv
<1>1. /\ copy \in [SyncNode -> File] /\ slots = [n \in SyncNode |-> max_concurrent_transfers]
      /\ call = [n \in SyncNode |-> NoCall] /\ serve = [n \in SyncNode |-> NoCall]
      /\ bcast = [t \in Target |-> "idle"] /\ original = TRUE
  BY ZenonT(30) DEF SyncInit, File
<1>2. max_concurrent_transfers \in Nat
  <2>1. max_concurrent_transfers \in Nat \ {0}
    BY SyncAssumption, ZenonT(30)
  <2> QED
    BY <2>1, ZenonT(30)
<1>3. SyncTypes
  BY <1>1, <1>2, NoCallFacts, ZenonT(30) DEF SyncTypes
<1>4. SlotInv
  <2> SUFFICES ASSUME NEW n \in SyncNode
               PROVE  slots[n] + Busy(call[n]) + ServeBusy(serve[n]) + Sends(n) = max_concurrent_transfers
    BY ZenonT(30) DEF SlotInv
  <2>1. slots[n] = max_concurrent_transfers /\ Busy(call[n]) = 0 /\ ServeBusy(serve[n]) = 0
    BY <1>1, NoCallFacts, ZenonT(30) DEF Busy, ServeBusy
  <2>2. Sending = {}
    BY <1>1, ZenonT(30) DEF Sending
  <2>3. Sends(n) = 0
    BY <2>2, FS_EmptySet, ZenonT(30) DEF Sends
  <2> QED
    BY <1>2, <2>1, <2>3
<1>5. AgreeInv
  <2> SUFFICES ASSUME NEW n \in SyncNode
               PROVE  Right(call[n], serve[Peer(n)], copy[n], copy[Peer(n)])
    BY ZenonT(30) DEF AgreeInv
  <2>1. call[n].clean = FALSE
    BY <1>1, NoCallFacts, ZenonT(30)
  <2> QED
    BY <2>1, UncleanIsRight, ZenonT(30)
<1>6. BroadcastMovesToAll
  BY <1>1, ZenonT(30) DEF BroadcastMovesToAll
<1> QED
  BY <1>3, <1>4, <1>5, <1>6, ZenonT(30) DEF SyncInv

LEMMA SyncInvStep ==
    ASSUME SyncInv, [SyncNext]_syncVars
    PROVE  SyncInv'
<1>1. CASE UNCHANGED syncVars
  BY <1>1, ZenonT(30) DEF syncVars, SyncInv, SyncTypes, SlotInv, AgreeInv, Sends, Sending, BroadcastMovesToAll
<1>2. ASSUME NEW n \in SyncNode, sync_file(n) \/ ReadLocal(n) \/ Decide(n) \/ PushReads(n) \/ PushInstalls(n)
      PROVE  SyncInv'
  BY <1>2, SyncFileKeeps, ReadLocalKeeps, DecideKeeps, PushReadsKeeps, PushInstallsKeeps, ZenonT(30)
<1>3. ASSUME NEW n \in SyncNode, RequestPull(n) \/ ServeReads(n) \/ ServeInstalls(n) \/ SyncTimeout(n)
                                   \/ ServeFails(n) \/ Edit(n)
      PROVE  SyncInv'
  BY <1>3, RequestPullKeeps, ServeReadsKeeps, ServeInstallsKeeps, SyncTimeoutKeeps, ServeFailsKeeps,
     EditKeeps, ZenonT(30)
<1>4. ASSUME NEW t \in Target, BroadcastReads(t) \/ BroadcastSends(t)
      PROVE  SyncInv'
  BY <1>4, BroadcastReadsKeeps, BroadcastSendsKeeps, ZenonT(30)
<1>5. CASE broadcast_file \/ BroadcastEnds
  BY <1>5, BroadcastStartsKeeps, BroadcastEndsKeeps, ZenonT(30)
<1> QED
  BY <1>1, <1>2, <1>3, <1>4, <1>5, ZenonT(30) DEF SyncNext

\* The slots that a node's call and its task hold.
LEMMA SlotsOfTasks ==
    ASSUME NEW n
    PROVE  Cardinality({k \in {"call", "serve"} :
               CASE k = "call" -> call[n].pc \notin {"idle", "slot", "returned"}
                 [] k = "serve" -> serve[n].pc = "sending"}) = Busy(call[n]) + ServeBusy(serve[n])
<1> DEFINE C == call[n].pc \notin {"idle", "slot", "returned"}
           S == serve[n].pc = "sending"
           held == {k \in {"call", "serve"} : CASE k = "call" -> C [] k = "serve" -> S}
<1>1. Busy(call[n]) = (IF C THEN 1 ELSE 0) /\ ServeBusy(serve[n]) = IF S THEN 1 ELSE 0
  BY ZenonT(30) DEF Busy, ServeBusy
<1> HIDE DEF C, S
<1>2. held = (IF C THEN {"call"} ELSE {}) \cup (IF S THEN {"serve"} ELSE {})
  <2> DEFINE P(k) == CASE k = "call" -> C [] k = "serve" -> S
  <2>1. P("call") = C /\ P("serve") = S
    BY "call" # "serve", ZenonT(30)
  <2>2. held = {k \in {"call", "serve"} : P(k)}
    BY ZenonT(30)
  <2> HIDE DEF P, held
  <2> QED
    BY <2>1, <2>2, ZenonT(30)
<1>3. Cardinality(held) = (IF C THEN 1 ELSE 0) + (IF S THEN 1 ELSE 0)
  <2> HIDE DEF held
  <2>1. /\ Cardinality({}) = 0 /\ Cardinality({"call"}) = 1 /\ Cardinality({"serve"}) = 1
        /\ IsFiniteSet({"call"})
    BY FS_EmptySet, FS_Singleton, ZenonT(30)
  <2>2. Cardinality({"call"} \cup {"serve"}) = Cardinality({"call"}) + 1
    <3>1. "serve" \notin {"call"}
      BY Zenon
    <3> QED
      BY <2>1, <3>1, FS_AddElement, ZenonT(30)
  <2>3. Cardinality({"call"} \cup {"serve"}) = 2
    BY <2>1, <2>2
  <2>4. CASE C /\ S
    <3>1. held = {"call"} \cup {"serve"}
      BY <1>2, <2>4, ZenonT(30)
    <3> QED
      BY <2>3, <2>4, <3>1
  <2>5. CASE C /\ ~S
    <3>1. held = {"call"}
      BY <1>2, <2>5, ZenonT(30)
    <3> QED
      BY <2>1, <2>5, <3>1
  <2>6. CASE ~C /\ S
    <3>1. held = {"serve"}
      BY <1>2, <2>6, ZenonT(30)
    <3> QED
      BY <2>1, <2>6, <3>1
  <2>7. CASE ~C /\ ~S
    <3>1. held = {}
      BY <1>2, <2>7, ZenonT(30)
    <3> QED
      BY <2>1, <2>7, <3>1
  <2> QED
    BY <2>4, <2>5, <2>6, <2>7, ZenonT(30)
<1>4. Cardinality(held) = Busy(call[n]) + ServeBusy(serve[n])
  BY <1>1, <1>3, ZenonT(30)
<1> QED
  BY <1>4, ZenonT(30) DEF C, S

LEMMA SyncInvIsSound ==
    ASSUME SyncInv
    PROVE  SyncIsSound
<1>1. SlotsAreHeld
  <2> DEFINE Held(n) == Cardinality({k \in {"call", "serve"} :
                            CASE k = "call" -> call[n].pc \notin {"idle", "slot", "returned"}
                              [] k = "serve" -> serve[n].pc = "sending"})
  <2>1. ASSUME NEW n \in SyncNode
        PROVE  slots[n] + Held(n) + Sends(n) = max_concurrent_transfers
    <3>1. Held(n) = Busy(call[n]) + ServeBusy(serve[n])
      BY SlotsOfTasks, ZenonT(30)
    <3>2. slots[n] + Busy(call[n]) + ServeBusy(serve[n]) + Sends(n) = max_concurrent_transfers
      BY ZenonT(30) DEF SyncInv, SlotInv
    <3>3. /\ slots[n] \in Nat /\ Busy(call[n]) \in Nat /\ ServeBusy(serve[n]) \in Nat /\ Sends(n) \in Nat
      BY SlotTypes, BusyIsNat, SendsIsNat, ZenonT(30)
    <3> HIDE DEF Held
    <3> QED
      BY <3>1, <3>2, <3>3
  <2> QED
    BY <2>1, ZenonT(30) DEF SlotsAreHeld, Sends, Sending
<1>2. SyncAgrees
  <2> SUFFICES ASSUME NEW n \in SyncNode, call[n].pc = "returned", call[n].ok, call[n].clean,
                      call[n].dir = "Bidirectional", call[n].res = "NewerWins"
               PROVE  Agree(copy[n], copy[Peer(n)])
    BY ZenonT(30) DEF SyncAgrees, Agree
  <2>1. Right(call[n], serve[Peer(n)], copy[n], copy[Peer(n)])
    BY ZenonT(30) DEF SyncInv, AgreeInv
  <2> QED
    BY <2>1, ZenonT(30) DEF Right
<1> QED
  BY <1>1, <1>2, ZenonT(30) DEF SyncIsSound, SyncInv

\* For any modification times, tolerance, directions and number of slots and
\* targets: no slot is lost or shared, a bidirectional sync_file by
\* modification time that returned Ok has made the copies agree, and a
\* broadcast in move mode removes its source only when every target has it.
THEOREM SyncMakesCopiesAgree == SyncSpec => []SyncIsSound
<1>1. SyncInit => SyncInv
  BY SyncInitKeeps, ZenonT(30)
<1>2. SyncInv /\ [SyncNext]_syncVars => SyncInv'
  BY SyncInvStep, ZenonT(30)
<1>3. SyncInv => SyncIsSound
  BY SyncInvIsSound, ZenonT(30)
<1> QED
  BY <1>1, <1>2, <1>3, PTL DEF SyncSpec
=============================================================================
