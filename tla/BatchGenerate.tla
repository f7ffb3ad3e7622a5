---------------------------- MODULE BatchGenerate ----------------------------
(***************************************************************************)
(* inference/hf_runner.py: HuggingFaceGenerator.generate.  Requests are    *)
(* taken in batches; when the GPU is out of memory the batch is halved for *)
(* the rest of the call and tried again, down to a single request, which   *)
(* is then given up.  What the GPU does with a batch is not determined.    *)
(***************************************************************************)
EXTENDS Integers, Sequences

CONSTANTS
  N,           \* the number of requests, known by their position
  BatchSizes   \* values batch_size is called with

ASSUME NAssumption == N \in Nat
ASSUME BatchSizesAssumption == BatchSizes \subseteq Int

Requests == 1..N
Statuses == {"success", "input_truncation_error", "generation_error", "oom"}
Policies == {"error", "allow", "other"}   \* input_truncation_policy

VARIABLES
  batch_size,          \* the argument
  policy,              \* input_truncation_policy
  oversized,           \* requests above max_input_tokens
  pc,                  \* "loop", "returned", or "raised" by a ValueError
  cursor,              \* requests dealt with
  current_batch_size,
  output,              \* the results
  halvings             \* auxiliary: how often the batch was halved

vars == <<batch_size, policy, oversized, pc, cursor, current_batch_size, output, halvings>>

Max2(x, y) == IF x >= y THEN x ELSE y
Min2(x, y) == IF x <= y THEN x ELSE y

\* Mutant: the last batch is not cut at the end of the list.
BatchLengthFull == current_batch_size

\* requests[cursor : cursor + current_batch_size]
BatchLength == Min2(current_batch_size, N - cursor)

Batch == (cursor + 1)..(cursor + BatchLength)

\* The requests of the batch that are given to the model.
Attempted == IF policy = "error" THEN Batch \ oversized ELSE Batch

Result(r, status, fallback) == [request |-> r, status |-> status, fallback |-> fallback]

-----------------------------------------------------------------------------
Init ==
  /\ batch_size \in BatchSizes
  /\ policy \in Policies
  /\ oversized \in SUBSET Requests
  /\ pc = "loop"
  /\ cursor = 0
  /\ current_batch_size = Max2(batch_size, 1)
  /\ output = <<>>
  /\ halvings = 0

\* Mutant: with the oversized requests last, as they are added to by_id.
BatchResultsGrouped ==
  LET safe == BatchLength - (IF \E r \in Batch : r \in oversized THEN 1 ELSE 0)
  IN  [i \in 1..BatchLength |->
         IF i > safe THEN Result(CHOOSE r \in Batch : r \in oversized, "input_truncation_error", FALSE)
         ELSE Result(cursor + i, "success", current_batch_size < batch_size)]

\* Mutant: any batch shorter than the argument counts as a fallback.
BatchResultsShort ==
  [i \in 1..BatchLength |->
     IF cursor + i \in Attempted
     THEN Result(cursor + i, "success", BatchLength < batch_size)
     ELSE Result(cursor + i, "input_truncation_error", FALSE)]

\* _generate_batch: one result per request of the batch, in its order; under
\* policy error an oversized prompt is answered without being generated.
BatchResults ==
  [i \in 1..BatchLength |->
     IF cursor + i \in Attempted
     THEN Result(cursor + i, "success", current_batch_size < batch_size)
     ELSE Result(cursor + i, "input_truncation_error", FALSE)]

InvalidPolicy == policy = "other" /\ Batch \cap oversized # {}

Generate ==
  /\ pc = "loop"
  /\ cursor < N
  /\ ~InvalidPolicy
  /\ output' = output \o BatchResults
  /\ cursor' = cursor + BatchLength
  /\ UNCHANGED <<batch_size, policy, oversized, pc, current_batch_size, halvings>>

\* Any other RuntimeError: the whole batch, its oversized requests included.
GenerateFails ==
  /\ pc = "loop"
  /\ cursor < N
  /\ ~InvalidPolicy
  /\ Attempted # {}
  /\ output' = output \o [i \in 1..BatchLength |-> Result(cursor + i, "generation_error", FALSE)]
  /\ cursor' = cursor + BatchLength
  /\ UNCHANGED <<batch_size, policy, oversized, pc, current_batch_size, halvings>>

\* Mutant: the ValueError is caught and the batch tried again.
RaisesCaught ==
  /\ pc = "loop"
  /\ cursor < N
  /\ InvalidPolicy
  /\ UNCHANGED vars

\* The ValueError is not caught: the results so far are lost to the caller.
RaisesValueError ==
  /\ pc = "loop"
  /\ cursor < N
  /\ InvalidPolicy
  /\ pc' = "raised"
  /\ UNCHANGED <<batch_size, policy, oversized, cursor, current_batch_size, output, halvings>>

\* Mutant: rounded up.
HalvedUp(n) == (n + 1) \div 2

Halved(n) == Max2(n \div 2, 1)

\* Out of memory with more than one request allowed: try again with half.
Halve ==
  /\ pc = "loop"
  /\ cursor < N
  /\ ~InvalidPolicy
  /\ Attempted # {}
  /\ current_batch_size > 1
  /\ current_batch_size' = Halved(current_batch_size)
  /\ halvings' = halvings + 1
  /\ UNCHANGED <<batch_size, policy, oversized, pc, cursor, output>>

\* Mutant: any single request left is given up, whatever the size allows.
GiveUpLast ==
  /\ pc = "loop"
  /\ cursor < N
  /\ ~InvalidPolicy
  /\ Attempted # {}
  /\ BatchLength = 1
  /\ output' = Append(output, Result(cursor + 1, "oom", TRUE))
  /\ cursor' = cursor + 1
  /\ UNCHANGED <<batch_size, policy, oversized, pc, current_batch_size, halvings>>

\* Out of memory with a single request.
GiveUp ==
  /\ pc = "loop"
  /\ cursor < N
  /\ ~InvalidPolicy
  /\ Attempted # {}
  /\ current_batch_size = 1
  /\ output' = Append(output, Result(cursor + 1, "oom", TRUE))
  /\ cursor' = cursor + 1
  /\ UNCHANGED <<batch_size, policy, oversized, pc, current_batch_size, halvings>>

Return ==
  /\ pc = "loop"
  /\ cursor >= N
  /\ pc' = "returned"
  /\ UNCHANGED <<batch_size, policy, oversized, cursor, current_batch_size, output, halvings>>

Next ==
  \/ Generate \/ GenerateFails \/ RaisesValueError \/ Halve \/ GiveUp \/ Return

Spec == Init /\ [][Next]_vars

\* One call in one thread: the loop goes on.
FairSpec == Spec /\ WF_vars(Next)

-----------------------------------------------------------------------------
TypeOK ==
  /\ batch_size \in BatchSizes
  /\ policy \in Policies
  /\ oversized \subseteq Requests
  /\ pc \in {"loop", "returned", "raised"}
  /\ cursor \in 0..N
  /\ current_batch_size \in 1..Max2(batch_size, 1)
  /\ output \in Seq([request : Requests, status : Statuses, fallback : BOOLEAN])
  /\ halvings \in Nat

\* However often batches are halved, given up or refused, every request dealt
\* with has one result, at its own place: callers match results to requests.
OneResultEach ==
  /\ Len(output) = cursor
  /\ \A i \in DOMAIN output : output[i].request = i

\* A request is given up for lack of memory only when it was tried alone and
\* the size of the call cannot be reduced any further.
OomOnlyAlone ==
  \A i \in DOMAIN output : output[i].status = "oom" => current_batch_size = 1

\* oom_fallback_used on a generated row is true only after the batch was
\* halved, and the size never goes back up: once true, true for all later ones.
FallbackIsMonotone ==
  \A i, j \in DOMAIN output :
    /\ i <= j /\ output[i].status = "success" /\ output[j].status = "success"
    /\ output[i].fallback
    => output[j].fallback /\ halvings > 0

\* Running out of memory costs a logarithmic number of retries in all, not one
\* series per batch.
RetriesBounded == current_batch_size * 2^halvings <= Max2(batch_size, 1)

\* Every call ends, with a result for every request unless it raised.
Ends == <>(pc = "raised" \/ (pc = "returned" /\ Len(output) = N))
=============================================================================
