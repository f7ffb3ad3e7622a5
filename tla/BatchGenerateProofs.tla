------------------------ MODULE BatchGenerateProofs ------------------------
(* What generate returns, for every number of requests, batch size and set   *)
(* of oversized prompts, and whatever the GPU does.                          *)
EXTENDS BatchGenerate, FiniteSetTheorems, TLAPS

\* A batch starts after the requests dealt with and stays within the list.
LEMMA BatchWithinRequests ==
  ASSUME TypeOK, cursor < N
  PROVE  /\ BatchLength \in Nat
         /\ BatchLength >= 1
         /\ cursor + BatchLength <= N
         /\ \A i \in 1..BatchLength : cursor + i \in Requests
  BY NAssumption, BatchSizesAssumption
     DEF TypeOK, BatchLength, Min2, Max2, Requests

\* Halving keeps the size between one and what it was.
LEMMA HalvedBounds ==
  ASSUME NEW n \in Nat, n > 1
  PROVE  Halved(n) \in 1..n
  BY DEF Halved, Max2

\* A function on 1..n is a sequence of length n.
LEMMA FunctionsAreSequences ==
  ASSUME NEW S, NEW n \in Nat, NEW f \in [1..n -> S]
  PROVE  f \in Seq(S) /\ Len(f) = n /\ DOMAIN f = 1..n
  OBVIOUS

\* Concatenation and Append stay within the sequences.
LEMMA SequencesGrow ==
  ASSUME NEW S, NEW s \in Seq(S), NEW t \in Seq(S), NEW e \in S
  PROVE  s \o t \in Seq(S) /\ Append(s, e) \in Seq(S)
  OBVIOUS

\* Lengths add up.
LEMMA LengthOfConcatenation ==
  ASSUME NEW S, NEW s \in Seq(S), NEW t \in Seq(S)
  PROVE  Len(s \o t) = Len(s) + Len(t)
  OBVIOUS

\* Append adds one place at the end and leaves the others.
LEMMA ShapeOfAppend ==
  ASSUME NEW S, NEW s \in Seq(S), NEW e \in S
  PROVE  /\ Len(Append(s, e)) = Len(s) + 1
         /\ \A i \in DOMAIN Append(s, e) : i \in DOMAIN s \/ i = Len(s) + 1
         /\ \A i \in DOMAIN s : Append(s, e)[i] = s[i]
         /\ Append(s, e)[Len(s) + 1] = e
  OBVIOUS

\* Invariant 1: types and ranges.
THEOREM TypeCorrect == Spec => []TypeOK
<1>1. Init => TypeOK
  BY NAssumption, BatchSizesAssumption DEF Init, TypeOK, Max2, Requests
<1>2. TypeOK /\ [Next]_vars => TypeOK'
  <2> SUFFICES ASSUME TypeOK, [Next]_vars PROVE TypeOK'
    OBVIOUS
  <2> USE DEF TypeOK
  <2> DEFINE Results == [request : Requests, status : Statuses, fallback : BOOLEAN]
  <2>1. CASE Generate
    <3>1. BatchLength \in Nat /\ cursor + BatchLength \in 0..N
      BY <2>1, BatchWithinRequests, NAssumption DEF Generate
    <3>2. BatchResults \in Seq(Results)
      <4>1. \A i \in 1..BatchLength : cursor + i \in Requests
        BY <2>1, BatchWithinRequests DEF Generate
      <4>2. \A i \in 1..BatchLength : BatchResults[i] \in Results
        BY <4>1 DEF BatchResults, Result, Statuses
      <4>3. BatchResults \in [1..BatchLength -> Results]
        BY <4>2 DEF BatchResults
      <4> QED BY <3>1, <4>3, FunctionsAreSequences
    <3>3. output \o BatchResults \in Seq(Results)
      BY <3>2, SequencesGrow
    <3> QED BY <2>1, <3>1, <3>3 DEF Generate
  <2>2. CASE GenerateFails
    <3> DEFINE failed == [i \in 1..BatchLength |-> Result(cursor + i, "generation_error", FALSE)]
    <3>1. BatchLength \in Nat /\ cursor + BatchLength \in 0..N
      BY <2>2, BatchWithinRequests, NAssumption DEF GenerateFails
    <3>2. failed \in Seq(Results)
      <4>1. \A i \in 1..BatchLength : cursor + i \in Requests
        BY <2>2, BatchWithinRequests DEF GenerateFails
      <4>2. \A i \in 1..BatchLength : Result(cursor + i, "generation_error", FALSE) \in Results
        BY <4>1 DEF Result, Statuses
      <4>3. failed \in [1..BatchLength -> Results]
        BY <4>2
      <4> QED BY <3>1, <4>3, FunctionsAreSequences
    <3>3. output \o failed \in Seq(Results)
      BY <3>2, SequencesGrow
    <3> QED BY <2>2, <3>1, <3>3 DEF GenerateFails
  <2>3. CASE RaisesValueError
    BY <2>3 DEF RaisesValueError
  <2>4. CASE Halve
    <3>1. Max2(batch_size, 1) \in Int
      BY BatchSizesAssumption DEF Max2
    <3>2. Halved(current_batch_size) \in 1..current_batch_size
      BY <2>4, <3>1, HalvedBounds DEF Halve
    <3> QED BY <2>4, <3>1, <3>2 DEF Halve
  <2>5. CASE GiveUp
    <3>1. cursor + 1 \in Requests /\ cursor + 1 \in 0..N
      BY <2>5, NAssumption DEF GiveUp, Requests
    <3>2. Result(cursor + 1, "oom", TRUE) \in Results
      BY <3>1 DEF Result, Statuses
    <3>3. Append(output, Result(cursor + 1, "oom", TRUE)) \in Seq(Results)
      BY <3>2, SequencesGrow
    <3> QED BY <2>5, <3>1, <3>3 DEF GiveUp
  <2>6. CASE Return
    BY <2>6 DEF Return
  <2>7. CASE UNCHANGED vars
    BY <2>7 DEF vars
  <2> QED
    BY <2>1, <2>2, <2>3, <2>4, <2>5, <2>6, <2>7 DEF Next
<1> QED
  BY <1>1, <1>2, PTL DEF Spec

\* Appending the results of a batch, in order, keeps each at its own place.
LEMMA PlacesKept ==
  ASSUME NEW s \in Seq([request : Requests, status : Statuses, fallback : BOOLEAN]),
         NEW t \in Seq([request : Requests, status : Statuses, fallback : BOOLEAN]),
         \A i \in DOMAIN s : s[i].request = i,
         \A i \in DOMAIN t : t[i].request = Len(s) + i
  PROVE  \A i \in DOMAIN (s \o t) : (s \o t)[i].request = i
<1> DEFINE R == [request : Requests, status : Statuses, fallback : BOOLEAN]
<1> SUFFICES ASSUME NEW i \in DOMAIN (s \o t)
             PROVE  (s \o t)[i].request = i
  OBVIOUS
<1> HIDE DEF R
<1>1. /\ s \in Seq(R) /\ t \in Seq(R)
      /\ i \in 1..(Len(s) + Len(t))
  BY DEF R
<1>2. CASE i <= Len(s)
  <2>1. i \in DOMAIN s /\ (s \o t)[i] = s[i]
    BY <1>1, <1>2
  <2> QED BY <2>1
<1>3. CASE i > Len(s)
  <2>1. i - Len(s) \in DOMAIN t /\ (s \o t)[i] = t[i - Len(s)]
    BY <1>1, <1>3
  <2>2. Len(s) + (i - Len(s)) = i
    BY <1>1
  <2> QED BY <2>1, <2>2
<1> QED BY <1>1, <1>2, <1>3

\* The results of a batch, whether it was generated or failed, are typed, as
\* many as its requests, and each at the place of its request.
LEMMA BatchRows ==
  ASSUME TypeOK, cursor < N,
         NEW f \in [1..BatchLength -> [request : Requests, status : Statuses, fallback : BOOLEAN]],
         \A i \in 1..BatchLength : f[i].request = cursor + i,
         OneResultEach
  PROVE  /\ Len(output \o f) = cursor + BatchLength
         /\ \A i \in DOMAIN (output \o f) : (output \o f)[i].request = i
<1> DEFINE R == [request : Requests, status : Statuses, fallback : BOOLEAN]
<1>1. output \in Seq(R) /\ Len(output) = cursor /\ cursor \in Nat
  BY NAssumption DEF TypeOK, OneResultEach
<1>2. BatchLength \in Nat
  BY BatchWithinRequests
<1>3. f \in Seq(R) /\ Len(f) = BatchLength /\ DOMAIN f = 1..BatchLength
  BY <1>2, FunctionsAreSequences
<1>4. \A i \in DOMAIN (output \o f) : (output \o f)[i].request = i
  BY <1>1, <1>3, PlacesKept DEF OneResultEach
<1>5. Len(output \o f) = cursor + BatchLength
  <2>1. Len(output \o f) = Len(output) + Len(f)
    BY <1>1, <1>3, LengthOfConcatenation
  <2> QED BY <1>1, <1>3, <2>1
<1> QED BY <1>4, <1>5

\* A generated batch answers its own requests, in order, and never with oom.
LEMMA GeneratedRows ==
  ASSUME TypeOK, cursor < N
  PROVE  /\ BatchResults \in [1..BatchLength -> [request : Requests, status : Statuses, fallback : BOOLEAN]]
         /\ \A i \in 1..BatchLength : BatchResults[i].request = cursor + i
         /\ \A i \in 1..BatchLength : BatchResults[i].status # "oom"
<1>1. \A i \in 1..BatchLength : cursor + i \in Requests
  BY BatchWithinRequests
<1> QED BY <1>1 DEF BatchResults, Result, Statuses

\* A failed batch answers them too.
LEMMA FailedRows ==
  ASSUME TypeOK, cursor < N
  PROVE  [i \in 1..BatchLength |-> Result(cursor + i, "generation_error", FALSE)]
           \in [1..BatchLength -> [request : Requests, status : Statuses, fallback : BOOLEAN]]
<1>1. \A i \in 1..BatchLength : cursor + i \in Requests
  BY BatchWithinRequests
<1> QED BY <1>1 DEF Result, Statuses

\* Invariant 2: exactly one result per request dealt with, in its place.
THEOREM ResultPerRequest == Spec => []OneResultEach
<1>1. Init => OneResultEach
  BY DEF Init, OneResultEach
<1>2. TypeOK /\ OneResultEach /\ [Next]_vars => OneResultEach'
  <2> SUFFICES ASSUME TypeOK, OneResultEach, [Next]_vars PROVE OneResultEach'
    OBVIOUS
  <2>1. CASE Generate
    BY <2>1, GeneratedRows, BatchRows DEF Generate, OneResultEach
  <2>2. CASE GenerateFails
    <3> DEFINE failed == [i \in 1..BatchLength |-> Result(cursor + i, "generation_error", FALSE)]
    <3>1. \A i \in 1..BatchLength : failed[i].request = cursor + i
      BY DEF Result
    <3>2. failed \in [1..BatchLength -> [request : Requests, status : Statuses, fallback : BOOLEAN]]
      BY <2>2, FailedRows DEF GenerateFails
    <3>3. output' = output \o failed /\ cursor' = cursor + BatchLength /\ cursor < N
      BY <2>2 DEF GenerateFails
    <3> HIDE DEF failed
    <3> QED BY <3>1, <3>2, <3>3, BatchRows DEF OneResultEach
  <2>3. CASE GiveUp
    <3>1. output \in Seq([request : Requests, status : Statuses, fallback : BOOLEAN])
      BY DEF TypeOK
    <3>2. Result(cursor + 1, "oom", TRUE).request = cursor + 1
      BY DEF Result
    <3>3. cursor = Len(output) /\ cursor \in Nat
      BY NAssumption DEF TypeOK, OneResultEach
    <3>4. output' = Append(output, Result(cursor + 1, "oom", TRUE)) /\ cursor' = cursor + 1
      BY <2>3 DEF GiveUp
    <3>5. Result(cursor + 1, "oom", TRUE) \in [request : Requests, status : Statuses, fallback : BOOLEAN]
      BY <2>3, <3>3, NAssumption DEF Result, Requests, Statuses, GiveUp
    <3>6. /\ Len(output') = cursor + 1
          /\ \A i \in DOMAIN output' : i \in DOMAIN output \/ i = cursor + 1
          /\ \A i \in DOMAIN output : output'[i] = output[i]
          /\ output'[cursor + 1] = Result(cursor + 1, "oom", TRUE)
      <4> DEFINE e == Result(cursor + 1, "oom", TRUE)
      <4> HIDE DEF e
      <4>1. /\ Len(Append(output, e)) = Len(output) + 1
            /\ \A i \in DOMAIN Append(output, e) : i \in DOMAIN output \/ i = Len(output) + 1
            /\ \A i \in DOMAIN output : Append(output, e)[i] = output[i]
            /\ Append(output, e)[Len(output) + 1] = e
        <5>1. e \in [request : Requests, status : Statuses, fallback : BOOLEAN]
          BY <3>5 DEF e
        <5> QED BY <3>1, <5>1, ShapeOfAppend
      <4>2. output' = Append(output, e)
        BY <3>4 DEF e
      <4> QED BY <3>3, <4>1, <4>2 DEF e
    <3> QED BY <3>2, <3>4, <3>6 DEF OneResultEach
  <2>4. CASE RaisesValueError \/ Halve \/ Return \/ UNCHANGED vars
    BY <2>4 DEF RaisesValueError, Halve, Return, vars, OneResultEach
  <2> QED
    BY <2>1, <2>2, <2>3, <2>4 DEF Next
<1> QED
  BY <1>1, <1>2, TypeCorrect, PTL DEF Spec

\* The statuses that a batch adds to the results.
LEMMA NoNewOom ==
  ASSUME NEW s \in Seq([request : Requests, status : Statuses, fallback : BOOLEAN]),
         NEW t \in Seq([request : Requests, status : Statuses, fallback : BOOLEAN]),
         \A i \in DOMAIN t : t[i].status # "oom",
         NEW j \in DOMAIN (s \o t), (s \o t)[j].status = "oom"
  PROVE  j \in DOMAIN s /\ s[j].status = "oom"
<1> DEFINE R == [request : Requests, status : Statuses, fallback : BOOLEAN]
<1> HIDE DEF R
<1>1. s \in Seq(R) /\ t \in Seq(R) /\ j \in 1..(Len(s) + Len(t))
  BY DEF R
<1>2. CASE j <= Len(s)
  BY <1>1, <1>2
<1>3. CASE j > Len(s)
  <2>1. j - Len(s) \in DOMAIN t /\ (s \o t)[j] = t[j - Len(s)]
    BY <1>1, <1>3
  <2> QED BY <2>1
<1> QED BY <1>1, <1>2, <1>3

\* Invariant 3: a request is given up only when tried alone.
THEOREM GivenUpAlone == Spec => []OomOnlyAlone
<1>1. Init => OomOnlyAlone
  BY DEF Init, OomOnlyAlone
<1>2. TypeOK /\ OomOnlyAlone /\ [Next]_vars => OomOnlyAlone'
  <2> SUFFICES ASSUME TypeOK, OomOnlyAlone, [Next]_vars,
                      NEW i \in DOMAIN output', output'[i].status = "oom"
               PROVE  current_batch_size' = 1
    BY DEF OomOnlyAlone
  <2> DEFINE R == [request : Requests, status : Statuses, fallback : BOOLEAN]
  <2>1. output \in Seq(R)
    BY DEF TypeOK
  <2>2. CASE Generate
    <3>1. BatchResults \in [1..BatchLength -> R] /\ BatchLength \in Nat
      BY <2>2, GeneratedRows, BatchWithinRequests DEF Generate
    <3>2. BatchResults \in Seq(R) /\ DOMAIN BatchResults = 1..BatchLength
      BY <3>1, FunctionsAreSequences
    <3>3. output' = output \o BatchResults /\ current_batch_size' = current_batch_size
      BY <2>2 DEF Generate
    <3>4. \A k \in DOMAIN BatchResults : BatchResults[k].status # "oom"
      BY <2>2, <3>2, GeneratedRows DEF Generate
    <3>5. i \in DOMAIN output /\ output[i].status = "oom"
      BY <2>1, <3>2, <3>3, <3>4, NoNewOom
    <3> QED BY <3>3, <3>5 DEF OomOnlyAlone
  <2>3. CASE GenerateFails
    <3> DEFINE failed == [k \in 1..BatchLength |-> Result(cursor + k, "generation_error", FALSE)]
    <3>1. failed \in [1..BatchLength -> R] /\ BatchLength \in Nat
      BY <2>3, FailedRows, BatchWithinRequests DEF GenerateFails
    <3>2. \A k \in 1..BatchLength : failed[k].status # "oom"
      BY DEF Result
    <3>3. output' = output \o failed /\ current_batch_size' = current_batch_size
      BY <2>3 DEF GenerateFails
    <3> HIDE DEF failed
    <3>4. failed \in Seq(R) /\ DOMAIN failed = 1..BatchLength
      BY <3>1, FunctionsAreSequences
    <3>5. i \in DOMAIN output /\ output[i].status = "oom"
      BY <2>1, <3>2, <3>3, <3>4, NoNewOom
    <3> QED BY <3>3, <3>5 DEF OomOnlyAlone
  <2>4. CASE Halve
    <3>1. current_batch_size = 1
      BY <2>4 DEF Halve, OomOnlyAlone
    <3> QED BY <2>4, <3>1 DEF Halve
  <2>5. CASE GiveUp
    BY <2>5 DEF GiveUp
  <2>6. CASE RaisesValueError \/ Return \/ UNCHANGED vars
    BY <2>6 DEF RaisesValueError, Return, vars, OomOnlyAlone
  <2> QED
    BY <2>2, <2>3, <2>4, <2>5, <2>6 DEF Next
<1> QED
  BY <1>1, <1>2, TypeCorrect, PTL DEF Spec

\* The rows that are marked as generated after a fallback.
FallbackRows(rows) == {i \in DOMAIN rows : rows[i].status = "success" /\ rows[i].fallback}

\* Why the mark is monotone: a row has it only if the size was below the
\* argument when it was generated, and the size then stays below.
FallbackInv ==
  /\ \A i \in FallbackRows(output) : current_batch_size < batch_size
  /\ current_batch_size < Max2(batch_size, 1) => halvings > 0
  /\ FallbackIsMonotone

\* The place of a row of a concatenation is in the first or in the second part.
LEMMA PlacesOfConcatenation ==
  ASSUME NEW S, NEW s \in Seq(S), NEW t \in Seq(S), NEW i \in DOMAIN (s \o t)
  PROVE  \/ i \in DOMAIN s /\ (s \o t)[i] = s[i]
         \/ /\ i > Len(s) /\ i - Len(s) \in DOMAIN t
            /\ (s \o t)[i] = t[i - Len(s)]
  OBVIOUS

\* Rows added at the end of the results keep the mark monotone when those that
\* are successes have it exactly if the size is below the argument.
LEMMA FallbackKept ==
  ASSUME TypeOK, FallbackInv,
         NEW t \in Seq([request : Requests, status : Statuses, fallback : BOOLEAN]),
         \A i \in DOMAIN t : t[i].status = "success" => t[i].fallback = (current_batch_size < batch_size),
         output' = output \o t,
         UNCHANGED <<batch_size, current_batch_size, halvings>>
  PROVE  FallbackInv'
<1> DEFINE R == [request : Requests, status : Statuses, fallback : BOOLEAN]
           below == current_batch_size < batch_size
<1>1. output \in Seq(R) /\ t \in Seq(R)
  BY DEF TypeOK
<1>2. below \in BOOLEAN /\ (below => halvings > 0)
  <2>1. batch_size \in Int /\ current_batch_size \in 1..Max2(batch_size, 1)
    BY BatchSizesAssumption DEF TypeOK
  <2>2. below => current_batch_size < Max2(batch_size, 1)
    BY <2>1 DEF Max2
  <2> QED BY <2>2 DEF FallbackInv
<1> HIDE DEF R, below
<1>3. \A i \in DOMAIN output' :
        \/ i \in DOMAIN output /\ output'[i] = output[i]
        \/ /\ i \notin DOMAIN output
           /\ output'[i].status = "success" => output'[i].fallback = below
  <2> SUFFICES ASSUME NEW i \in DOMAIN (output \o t)
               PROVE  \/ i \in DOMAIN output /\ (output \o t)[i] = output[i]
                      \/ /\ i \notin DOMAIN output
                         /\ (output \o t)[i].status = "success" => (output \o t)[i].fallback = below
    OBVIOUS
  <2>1. \/ i \in DOMAIN output /\ (output \o t)[i] = output[i]
        \/ /\ i > Len(output) /\ i - Len(output) \in DOMAIN t
           /\ (output \o t)[i] = t[i - Len(output)]
    BY <1>1, PlacesOfConcatenation
  <2>2. CASE i > Len(output) /\ i - Len(output) \in DOMAIN t /\ (output \o t)[i] = t[i - Len(output)]
    <3>1. i \notin DOMAIN output
      BY <1>1, <2>2
    <3> QED BY <2>2, <3>1 DEF below
  <2> QED BY <2>1, <2>2
<1>4. \A i \in FallbackRows(output') : below
  BY <1>3 DEF FallbackRows, FallbackInv, below
<1>5. \A i, j \in DOMAIN output' : j \in DOMAIN output /\ i <= j => i \in DOMAIN output
  BY <1>1
<1>6. FallbackIsMonotone'
  <2> SUFFICES ASSUME NEW i \in DOMAIN output', NEW j \in DOMAIN output',
                      i <= j, output'[i].status = "success", output'[j].status = "success",
                      output'[i].fallback
               PROVE  output'[j].fallback /\ halvings' > 0
    BY DEF FallbackIsMonotone
  <2>1. below
    BY <1>4 DEF FallbackRows
  <2>2. halvings' > 0
    BY <1>2, <2>1
  <2>3. CASE j \in DOMAIN output
    <3>1. i \in DOMAIN output /\ output'[i] = output[i] /\ output'[j] = output[j]
      BY <1>3, <1>5, <2>3
    <3> QED BY <2>2, <2>3, <3>1 DEF FallbackInv, FallbackIsMonotone
  <2>4. CASE j \notin DOMAIN output
    BY <1>3, <2>1, <2>2, <2>4
  <2> QED BY <2>3, <2>4
<1> QED BY <1>4, <1>6 DEF FallbackInv, below

\* Invariant 4: the mark of a fallback is never lost once it was set, and is
\* set only after a halving.
THEOREM FallbackStays == Spec => []FallbackIsMonotone
<1> USE DEF FallbackRows
<1>1. Init => FallbackInv
  <2> SUFFICES ASSUME Init PROVE FallbackInv
    OBVIOUS
  <2>1. Max2(batch_size, 1) \in Int
    BY BatchSizesAssumption DEF Init, Max2
  <2>2. ~(current_batch_size < Max2(batch_size, 1))
    BY <2>1 DEF Init
  <2>3. DOMAIN output = {}
    BY DEF Init
  <2> QED BY <2>2, <2>3 DEF FallbackInv, FallbackIsMonotone
<1>2. TypeOK /\ FallbackInv /\ [Next]_vars => FallbackInv'
  <2> SUFFICES ASSUME TypeOK, FallbackInv, [Next]_vars PROVE FallbackInv'
    OBVIOUS
  <2> DEFINE R == [request : Requests, status : Statuses, fallback : BOOLEAN]
  <2>1. output \in Seq(R) /\ batch_size \in Int /\ current_batch_size \in Nat /\ halvings \in Nat
    BY BatchSizesAssumption DEF TypeOK, Max2
  <2>2. CASE Generate
    <3>1. BatchResults \in [1..BatchLength -> R] /\ BatchLength \in Nat
      BY <2>2, GeneratedRows, BatchWithinRequests DEF Generate
    <3>2. BatchResults \in Seq(R) /\ DOMAIN BatchResults = 1..BatchLength
      BY <3>1, FunctionsAreSequences
    <3>3. \A i \in 1..BatchLength : BatchResults[i].status = "success"
            => BatchResults[i].fallback = (current_batch_size < batch_size)
      BY DEF BatchResults, Result
    <3>4. output' = output \o BatchResults /\ UNCHANGED <<batch_size, current_batch_size, halvings>>
      BY <2>2 DEF Generate
    <3> HIDE DEF R
    <3> QED BY <3>2, <3>3, <3>4, FallbackKept DEF R
  <2>3. CASE GenerateFails
    <3> DEFINE failed == [k \in 1..BatchLength |-> Result(cursor + k, "generation_error", FALSE)]
    <3>1. failed \in [1..BatchLength -> R] /\ BatchLength \in Nat
      BY <2>3, FailedRows, BatchWithinRequests DEF GenerateFails
    <3>2. \A k \in 1..BatchLength : failed[k].status # "success"
      BY DEF Result
    <3>3. output' = output \o failed /\ UNCHANGED <<batch_size, current_batch_size, halvings>>
      BY <2>3 DEF GenerateFails
    <3> HIDE DEF failed
    <3>4. failed \in Seq(R) /\ DOMAIN failed = 1..BatchLength
      BY <3>1, FunctionsAreSequences
    <3> QED BY <3>2, <3>3, <3>4, FallbackKept
  <2>4. CASE Halve
    <3>1. Halved(current_batch_size) < current_batch_size
      BY <2>1, <2>4 DEF Halve, Halved, Max2
    <3>2. /\ output' = output /\ batch_size' = batch_size
          /\ current_batch_size' < current_batch_size /\ halvings' > 0
          /\ current_batch_size' \in Int
      BY <2>1, <2>4, <3>1 DEF Halve, Halved, Max2
    <3>3. \A i \in FallbackRows(output) : current_batch_size' < batch_size
      BY <2>1, <3>2 DEF FallbackInv
    <3>4. FallbackIsMonotone'
      BY <3>2 DEF FallbackInv, FallbackIsMonotone
    <3> QED BY <3>2, <3>3, <3>4 DEF FallbackInv
  <2>5. CASE GiveUp
    <3> DEFINE e == Result(cursor + 1, "oom", TRUE)
    <3>1. e \in R /\ e.status # "success"
      BY <2>5, NAssumption DEF Result, Requests, Statuses, GiveUp, TypeOK
    <3>2. output' = Append(output, e) /\ UNCHANGED <<batch_size, current_batch_size, halvings>>
      BY <2>5 DEF GiveUp
    <3> HIDE DEF e, R
    <3>3. <<e>> \in Seq(R) /\ Append(output, e) = output \o <<e>>
      BY <2>1, <3>1
    <3>4. \A i \in DOMAIN <<e>> : <<e>>[i].status # "success"
      BY <3>1
    <3> QED BY <3>2, <3>3, <3>4, FallbackKept DEF R
  <2>6. CASE RaisesValueError \/ Return \/ UNCHANGED vars
    BY <2>6 DEF RaisesValueError, Return, vars, FallbackInv, FallbackIsMonotone
  <2> QED
    BY <2>2, <2>3, <2>4, <2>5, <2>6 DEF Next
<1>3. FallbackInv => FallbackIsMonotone
  BY DEF FallbackInv
<1> QED
  BY <1>1, <1>2, <1>3, TypeCorrect, PTL DEF Spec

\* The powers of two, from the number of subsets of an interval.
LEMMA PowersOfTwo ==
  ASSUME NEW h \in Nat
  PROVE  2^0 = 1 /\ 2^h \in Nat /\ 2^(h + 1) = 2 * 2^h
<1> DEFINE Low == SUBSET (1..h)
           Up == {X \cup {h + 1} : X \in Low}
<1>1. /\ IsFiniteSet(1..0) /\ Cardinality(1..0) = 0
      /\ IsFiniteSet(1..h) /\ Cardinality(1..h) = h
      /\ IsFiniteSet(1..(h + 1)) /\ Cardinality(1..(h + 1)) = h + 1
  <2>1. \A n \in Nat : IsFiniteSet(1..n) /\ Cardinality(1..n) = n
    <3> TAKE n \in Nat
    <3>1. IsFiniteSet(1..n) /\ Cardinality(1..n) = IF 1 > n THEN 0 ELSE n - 1 + 1
      BY FS_Interval
    <3> QED BY <3>1
  <2> QED BY <2>1
<1>2. /\ IsFiniteSet(Low) /\ Cardinality(Low) = 2^h /\ Cardinality(Low) \in Nat
  <2>1. IsFiniteSet(Low) /\ Cardinality(Low) = 2^Cardinality(1..h)
    BY <1>1, FS_SUBSET
  <2> QED BY <1>1, <2>1, FS_CardinalityType
<1>3. 2^0 = 1
  <2>1. Cardinality(SUBSET (1..0)) = 2^0
    BY <1>1, FS_SUBSET
  <2>2. SUBSET (1..0) = {{}}
    OBVIOUS
  <2>3. Cardinality({{}}) = 1
    BY FS_Singleton
  <2> QED BY <2>1, <2>2, <2>3
<1>4. Cardinality(SUBSET (1..(h + 1))) = 2^(h + 1)
  BY <1>1, FS_SUBSET
<1>5. SUBSET (1..(h + 1)) = Low \cup Up
  <2>1. 1..(h + 1) = (1..h) \cup {h + 1}
    OBVIOUS
  <2>2. \A X : X \subseteq (1..h) \cup {h + 1} => X \in Low \cup Up
    <3> TAKE X
    <3> HAVE X \subseteq (1..h) \cup {h + 1}
    <3>1. CASE h + 1 \in X
      <4>1. X \ {h + 1} \in Low /\ X = (X \ {h + 1}) \cup {h + 1}
        BY <3>1
      <4> QED BY <4>1
    <3>2. CASE h + 1 \notin X
      BY <3>2
    <3> QED BY <3>1, <3>2
  <2>3. \A X \in Low \cup Up : X \subseteq (1..h) \cup {h + 1}
    OBVIOUS
  <2> QED BY <2>1, <2>2, <2>3
<1>6. Low \cap Up = {}
  <2>1. h + 1 \notin 1..h
    OBVIOUS
  <2> QED BY <2>1
<1>7. IsFiniteSet(Up) /\ Cardinality(Up) = Cardinality(Low)
  <2> DEFINE f == [X \in Low |-> X \cup {h + 1}]
  <2>1. f \in Surjection(Low, Up)
    BY DEF Surjection
  <2>2. f \in Injection(Low, Up)
    <3>1. h + 1 \notin 1..h
      OBVIOUS
    <3>2. \A X, Y \in Low : f[X] = f[Y] => X = Y
      <4> TAKE X, Y \in Low
      <4> HAVE f[X] = f[Y]
      <4>1. X \cup {h + 1} = Y \cup {h + 1}
        OBVIOUS
      <4>2. h + 1 \notin X /\ h + 1 \notin Y
        BY <3>1
      <4>3. X = (X \cup {h + 1}) \ {h + 1} /\ Y = (Y \cup {h + 1}) \ {h + 1}
        BY <4>2
      <4> QED BY <4>1, <4>3
    <3>3. f \in [Low -> Up]
      OBVIOUS
    <3> QED BY <3>2, <3>3 DEF Injection, IsInjective
  <2> HIDE DEF f, Low, Up
  <2> QED BY <1>2, <2>1, <2>2, FS_Surjection
<1> HIDE DEF Low, Up
<1>8. Cardinality(Low \cup Up) = Cardinality(Low) + Cardinality(Up) - Cardinality(Low \cap Up)
  BY <1>2, <1>7, FS_Union
<1>9. Cardinality(Low \cap Up) = 0
  BY <1>6, FS_EmptySet
<1>10. Cardinality(Low \cup Up) = 2 * Cardinality(Low)
  <2>2. Cardinality(Low \cup Up) = Cardinality(Low) + Cardinality(Low) - 0
    BY <1>7, <1>8, <1>9
  <2> QED BY <1>2, <2>2
<1>11. 2^(h + 1) = 2 * Cardinality(Low)
  BY <1>4, <1>5, <1>10
<1> QED BY <1>2, <1>3, <1>11

\* Multiplication by a natural number is monotone.
LEMMA Scaled ==
  ASSUME NEW a \in Nat, NEW b \in Nat, NEW p \in Nat, a <= b
  PROVE  a * p <= b * p
  OBVIOUS

\* Half of a size above one, twice, is not more than the size.
LEMMA HalvedTwice ==
  ASSUME NEW n \in Nat, n > 1
  PROVE  Halved(n) \in Nat /\ Halved(n) * 2 <= n
  BY DEF Halved, Max2

\* Invariant 5: every retry for lack of memory halves what is left of the
\* size, so that a call of any length has logarithmically many of them.
THEOREM LogarithmicRetries == Spec => []RetriesBounded
<1>1. Init => RetriesBounded
  <2> SUFFICES ASSUME Init PROVE RetriesBounded
    OBVIOUS
  <2>1. 2^0 = 1
    BY PowersOfTwo
  <2>2. Max2(batch_size, 1) \in Int
    BY BatchSizesAssumption DEF Init, Max2
  <2> QED BY <2>1, <2>2 DEF Init, RetriesBounded
<1>2. TypeOK /\ RetriesBounded /\ [Next]_vars => RetriesBounded'
  <2> SUFFICES ASSUME TypeOK, RetriesBounded, [Next]_vars PROVE RetriesBounded'
    OBVIOUS
  <2>1. CASE Halve
    <3> DEFINE c == current_batch_size
               h == halvings
               p == 2^h
               m == Max2(batch_size, 1)
               d == Halved(c)
    <3>1. m \in Int /\ c \in Nat /\ h \in Nat /\ c > 1 /\ c * p <= m
      BY <2>1, BatchSizesAssumption DEF TypeOK, Max2, Halve, RetriesBounded
    <3>2. c' = d /\ h' = h + 1 /\ m' = m
      BY <2>1 DEF Halve
    <3>3. p \in Nat /\ 2^(h + 1) = 2 * p
      BY <3>1, PowersOfTwo
    <3>4. d \in Nat /\ d * 2 <= c
      BY <3>1, HalvedTwice
    <3>5. RetriesBounded' <=> c' * 2^(h') <= m'
      BY DEF RetriesBounded
    <3> HIDE DEF c, h, p, m, d
    <3>6. (d * 2) * p <= c * p
      BY <3>1, <3>3, <3>4, Scaled
    <3>7. d * (2 * p) = (d * 2) * p
      BY <3>3, <3>4
    <3>8. d * (2 * p) <= m
      BY <3>1, <3>3, <3>4, <3>6, <3>7
    <3> QED BY <3>2, <3>3, <3>5, <3>8
  <2>2. CASE Generate \/ GenerateFails \/ GiveUp \/ RaisesValueError \/ Return \/ UNCHANGED vars
    BY <2>2 DEF Generate, GenerateFails, GiveUp, RaisesValueError, Return, vars, RetriesBounded
  <2> QED
    BY <2>1, <2>2 DEF Next
<1> QED
  BY <1>1, <1>2, TypeCorrect, PTL DEF Spec

\* What is left to do: the requests not dealt with, the halvings that the size
\* still allows, and leaving the loop.
InLoop == IF pc = "loop" THEN 1 ELSE 0
Left == (N - cursor) + current_batch_size + InLoop
LessLeft == Left \in Nat /\ Left' \in Nat /\ Left' < Left

\* Whatever the GPU does, every step of the loop leaves less to do: this is the
\* measure by which generate ends, and it cannot go round without progress.
THEOREM EveryStepCounts == Spec => [][LessLeft]_vars
<1>1. TypeOK /\ TypeOK' /\ [Next]_vars => [LessLeft]_vars
  <2> SUFFICES ASSUME TypeOK, TypeOK', Next
               PROVE  LessLeft
    OBVIOUS
  <2>1. /\ N \in Nat /\ cursor \in 0..N /\ cursor' \in 0..N
        /\ current_batch_size \in Nat /\ current_batch_size' \in Nat
    BY NAssumption, BatchSizesAssumption DEF TypeOK, Max2
  <2>2. N - cursor \in Nat /\ N - cursor' \in Nat
    <3>1. \A c \in 0..N : N - c \in Nat
      BY <2>1
    <3> QED BY <2>1, <3>1
  <2>7. InLoop \in Nat /\ InLoop' \in Nat
    BY DEF InLoop
  <2>8. /\ (N - cursor' < N - cursor /\ UNCHANGED <<current_batch_size, InLoop>>) => LessLeft
        /\ (current_batch_size' < current_batch_size /\ UNCHANGED <<cursor, InLoop>>) => LessLeft
        /\ (InLoop' < InLoop /\ UNCHANGED <<cursor, current_batch_size>>) => LessLeft
    <3>1. \A a, b, c, d \in Nat :
            /\ a + b + c \in Nat
            /\ d < a => d + b + c < a + b + c
            /\ d < b => a + d + c < a + b + c
            /\ d < c => a + b + d < a + b + c
      OBVIOUS
    <3>2. /\ Left = (N - cursor) + current_batch_size + InLoop
          /\ Left' = (N - cursor') + current_batch_size' + InLoop'
      BY DEF Left
    <3> QED BY <2>1, <2>2, <2>7, <3>1, <3>2 DEF LessLeft
  <2>3. CASE Generate \/ GenerateFails
    <3>1. BatchLength >= 1 /\ BatchLength \in Nat
      BY <2>3, BatchWithinRequests DEF Generate, GenerateFails
    <3>2. cursor' = cursor + BatchLength /\ InLoop' = InLoop /\ UNCHANGED current_batch_size
      BY <2>3 DEF Generate, GenerateFails, InLoop
    <3>3. N - (cursor + BatchLength) < N - cursor
      BY <2>1, <3>1
    <3> QED BY <2>8, <3>2, <3>3
  <2>4. CASE Halve
    <3>1. current_batch_size' < current_batch_size
      BY <2>1, <2>4 DEF Halve, Halved, Max2
    <3>2. InLoop' = InLoop /\ UNCHANGED cursor
      BY <2>4 DEF Halve, InLoop
    <3> QED BY <2>8, <3>1, <3>2
  <2>5. CASE GiveUp
    <3>1. cursor' = cursor + 1 /\ InLoop' = InLoop /\ UNCHANGED current_batch_size
      BY <2>5 DEF GiveUp, InLoop
    <3>2. N - (cursor + 1) < N - cursor
      BY <2>1
    <3> QED BY <2>8, <3>1, <3>2
  <2>6. CASE RaisesValueError \/ Return
    <3>1. InLoop = 1 /\ InLoop' = 0 /\ UNCHANGED <<cursor, current_batch_size>>
      BY <2>6 DEF RaisesValueError, Return, InLoop
    <3> QED BY <2>8, <3>1
  <2> QED
    BY <2>3, <2>4, <2>5, <2>6 DEF Next
<1> QED
  BY <1>1, TypeCorrect, PTL DEF Spec

\* A call that returns has a result for every request of the call, whatever
\* failed on the way: the safety half of Ends.
THEOREM ReturnsAll == Spec => [](pc = "returned" => Len(output) = N)
<1> DEFINE Inv == pc = "returned" => cursor = N
<1>1. Init => Inv
  BY DEF Init
<1>2. TypeOK /\ Inv /\ [Next]_vars => Inv'
  <2> SUFFICES ASSUME TypeOK, Inv, [Next]_vars PROVE Inv'
    OBVIOUS
  <2>1. N \in Nat /\ cursor \in 0..N
    BY NAssumption DEF TypeOK
  <2>2. CASE Return
    BY <2>1, <2>2 DEF Return
  <2>3. CASE Generate \/ GenerateFails \/ GiveUp \/ Halve \/ RaisesValueError
    BY <2>3 DEF Generate, GenerateFails, GiveUp, Halve, RaisesValueError
  <2>4. CASE UNCHANGED vars
    BY <2>4 DEF vars
  <2> QED
    BY <2>2, <2>3, <2>4 DEF Next
<1>3. OneResultEach /\ Inv => (pc = "returned" => Len(output) = N)
  BY DEF OneResultEach
<1> QED
  BY <1>1, <1>2, <1>3, TypeCorrect, ResultPerRequest, PTL DEF Spec
=============================================================================
