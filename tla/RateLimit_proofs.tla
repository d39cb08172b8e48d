--------------------------- MODULE RateLimit_proofs --------------------------
(***************************************************************************)
(* Proofs about RateLimit, for any clients, limit, window and clock.       *)
(*                                                                         *)
(* A bucket is what is left of the log: a suffix of it, and what was        *)
(* dropped is out of the window for good.  So the entry that is Limit       *)
(* places before a new one has been dropped, or the request is refused.     *)
(***************************************************************************)
EXTENDS RateLimit, SequenceTheorems, TLAPS

\* The number of log entries of a client that its bucket has forgotten.
Forgotten(c) == Len(log[c]) - Len(bucket[c])

\* The log is sorted and in the past; the bucket is its suffix; what was
\* forgotten is out of the window.
BucketIsSuffix(c) ==
  /\ Forgotten(c) \in Nat
  /\ \A i \in 1..Len(bucket[c]) : bucket[c][i] = log[c][Forgotten(c) + i]
  /\ \A i \in 1..Len(log[c]) : log[c][i] <= now
  /\ \A i, j \in 1..Len(log[c]) : i <= j => log[c][i] <= log[c][j]
  /\ \A i \in 1..Forgotten(c) : now - log[c][i] > Window

\* The window never holds more than Limit.
Spaced(c) ==
  \A i \in 1..Len(log[c]) :
    i + Limit <= Len(log[c]) => log[c][i + Limit] - log[c][i] > Window

\* A client that was refused just now still has a full bucket of recent entries.
FullWhenRefused(c) ==
  /\ refused[c] <= now
  /\ refused[c] = now => Full(bucket[c]) /\ ~OutOfWindow(bucket[c][1])

Inductive ==
  TypeOK /\ \A c \in Clients : BucketIsSuffix(c) /\ Spaced(c) /\ FullWhenRefused(c)

LEMMA InductiveInit == Init => Inductive
<1> SUFFICES ASSUME Init PROVE Inductive
  OBVIOUS
<1>1. <<>> \in Seq(Nat) /\ Len(<<>>) = 0
  OBVIOUS
<1>2. TypeOK
  BY <1>1, RateLimitAssumption DEF Init, TypeOK
<1>3. ASSUME NEW c \in Clients PROVE BucketIsSuffix(c) /\ Spaced(c) /\ FullWhenRefused(c)
  BY <1>1 DEF Init, BucketIsSuffix, Spaced, FullWhenRefused, Forgotten
<1>4. QED
  BY <1>2, <1>3 DEF Inductive

\* What is left of a bucket when k entries were dropped from the left.
LEMMA RestFacts ==
  ASSUME NEW b \in Seq(Nat), NEW k \in 0..Len(b)
  PROVE  /\ Rest(b, k) \in Seq(Nat)
         /\ Len(Rest(b, k)) = Len(b) - k
         /\ \A i \in 1..(Len(b) - k) : Rest(b, k)[i] = b[k + i]
  BY SubSeqProperties DEF Rest

\* Dropping entries keeps what the bucket is, whether one is then added or not.
LEMMA DropKeepsSuffix ==
  ASSUME Inductive, NEW c \in Clients, NEW k \in 0..Len(bucket[c]), Drops(bucket[c], k)
  PROVE  LET rest == Rest(bucket[c], k)
             m == Len(log[c]) - Len(rest) IN
         /\ rest \in Seq(Nat)
         /\ m \in Nat
         /\ \A i \in 1..Len(rest) : rest[i] = log[c][m + i]
         /\ \A i \in 1..m : now - log[c][i] > Window
         /\ Len(rest) > 0 => ~OutOfWindow(rest[1])
<1> DEFINE b == bucket[c]
           rest == Rest(b, k)
           m == Len(log[c]) - Len(rest)
<1> DEFINE f == Forgotten(c)
<1>1. /\ b \in Seq(Nat) /\ log[c] \in Seq(Nat) /\ now \in Nat
      /\ Len(b) \in Nat /\ Len(log[c]) \in Nat
  BY LenProperties, RateLimitAssumption DEF Inductive, TypeOK
<1>2. /\ f \in Nat /\ f = Len(log[c]) - Len(b)
      /\ \A i \in 1..Len(b) : b[i] = log[c][f + i]
      /\ \A i \in 1..f : now - log[c][i] > Window
  BY DEF Inductive, BucketIsSuffix, Forgotten
<1>3. /\ \A i \in 1..k : OutOfWindow(b[i])
      /\ k < Len(b) => ~OutOfWindow(b[k + 1])
  BY DEF Drops
<1> HIDE DEF f, b
<1>4. /\ rest \in Seq(Nat) /\ Len(rest) = Len(b) - k
      /\ \A i \in 1..(Len(b) - k) : rest[i] = b[k + i]
  <2>1. k \in 0..Len(b)
    BY DEF b
  <2>2. QED
    BY <1>1, <2>1, RestFacts
<1> HIDE DEF rest
<1>5. k \in Nat /\ k <= Len(b) /\ m = f + k /\ m \in Nat /\ Len(rest) \in Nat
  BY <1>1, <1>2, <1>4 DEF b
<1> HIDE DEF m
<1>6. \A i \in 1..Len(rest) : rest[i] = log[c][m + i]
  <2> SUFFICES ASSUME NEW i \in 1..Len(rest) PROVE rest[i] = log[c][m + i]
    OBVIOUS
  <2>1. i \in 1..(Len(b) - k) /\ k + i \in 1..Len(b) /\ f + (k + i) = m + i
    <3>1. i \in Int /\ 1 <= i /\ i <= Len(b) - k
      BY <1>1, <1>4, <1>5
    <3>2. f \in Nat /\ Len(b) \in Nat
      BY <1>1, <1>2
    <3>3. QED
      BY <3>1, <3>2, <1>5
  <2>2. rest[i] = b[k + i] /\ b[k + i] = log[c][f + (k + i)]
    BY <1>2, <1>4, <2>1
  <2>3. QED
    BY <2>1, <2>2
<1>7. ASSUME NEW i \in 1..m PROVE now - log[c][i] > Window
  <2>1. CASE i <= f
    BY <1>2, <1>5, <2>1
  <2>2. CASE ~(i <= f)
    <3>1. i - f \in 1..k /\ i - f \in 1..Len(b) /\ f + (i - f) = i
      <4>1. i \in Int /\ 1 <= i /\ i <= f + k
        BY <1>2, <1>5, <1>7
      <4>2. f \in Nat /\ Len(b) \in Nat
        BY <1>1, <1>2
      <4>3. QED
        BY <1>5, <2>2, <4>1, <4>2
    <3>2. OutOfWindow(b[i - f]) /\ b[i - f] = log[c][f + (i - f)]
      BY <1>2, <1>3, <3>1
    <3>3. QED
      BY <3>1, <3>2 DEF OutOfWindow
  <2>3. QED
    BY <2>1, <2>2
<1>8. ASSUME Len(rest) > 0 PROVE ~OutOfWindow(rest[1])
  <2>1. k < Len(b) /\ 1 \in 1..(Len(b) - k)
    BY <1>1, <1>4, <1>5, <1>8
  <2>2. rest[1] = b[k + 1]
    BY <1>4, <2>1
  <2>3. QED
    BY <1>3, <2>1, <2>2
<1>9. QED
  BY <1>4, <1>5, <1>6, <1>7, <1>8 DEF rest, b, m

LEMMA ElapseKeeps == Inductive /\ Elapse => Inductive'
<1> SUFFICES ASSUME Inductive, Elapse PROVE Inductive'
  OBVIOUS
<1>1. /\ now \in Nat /\ now' = now + 1 /\ now' \in 0..MaxTime
      /\ UNCHANGED <<bucket, log, refused>>
  BY RateLimitAssumption DEF Elapse, Inductive, TypeOK
<1>2. TypeOK'
  BY <1>1 DEF Inductive, TypeOK
<1>3. ASSUME NEW c \in Clients PROVE BucketIsSuffix(c)' /\ Spaced(c)' /\ FullWhenRefused(c)'
  <2>1. BucketIsSuffix(c) /\ Spaced(c) /\ FullWhenRefused(c)
    BY DEF Inductive
  <2>2. \A i \in 1..Len(log[c]) : log[c][i] \in Nat
    BY ElementOfSeq DEF Inductive, TypeOK
  <2>3. \A i \in 1..Forgotten(c) : log[c][i] \in Nat
    BY <2>1, <2>2, LenProperties DEF BucketIsSuffix, Forgotten, Inductive, TypeOK
  <2>4. BucketIsSuffix(c)'
    <3>1. Forgotten(c)' = Forgotten(c)
      BY <1>1 DEF Forgotten
    <3>2. \A i \in 1..Len(log[c]) : log[c][i] <= now'
      BY <1>1, <2>1, <2>2 DEF BucketIsSuffix
    <3>3. \A i \in 1..Forgotten(c) : now' - log[c][i] > Window
      BY <1>1, <2>1, <2>3, RateLimitAssumption DEF BucketIsSuffix
    <3>4. QED
      BY <1>1, <2>1, <3>1, <3>2, <3>3 DEF BucketIsSuffix
  <2>5. Spaced(c)'
    BY <1>1, <2>1 DEF Spaced
  <2>6. FullWhenRefused(c)'
    BY <1>1, <2>1 DEF FullWhenRefused, Inductive, TypeOK
  <2>7. QED
    BY <2>4, <2>5, <2>6
<1>4. QED
  BY <1>2, <1>3 DEF Inductive

LEMMA RefuseKeeps ==
  ASSUME Inductive, NEW d \in Clients, Refuse(d)
  PROVE  Inductive'
<1>1. PICK k \in 0..Len(bucket[d]) :
        /\ Drops(bucket[d], k)
        /\ Full(Rest(bucket[d], k))
        /\ bucket' = [bucket EXCEPT ![d] = Rest(bucket[d], k)]
  BY DEF Refuse
<1> DEFINE rest == Rest(bucket[d], k)
<1>2. LET m == Len(log[d]) - Len(rest) IN
      /\ rest \in Seq(Nat)
      /\ m \in Nat
      /\ \A i \in 1..Len(rest) : rest[i] = log[d][m + i]
      /\ \A i \in 1..m : now - log[d][i] > Window
      /\ Len(rest) > 0 => ~OutOfWindow(rest[1])
  BY <1>1, DropKeepsSuffix
<1>3. /\ bucket' = [bucket EXCEPT ![d] = rest] /\ Full(rest)
      /\ refused' = [refused EXCEPT ![d] = now] /\ UNCHANGED <<now, log>>
  BY <1>1 DEF Refuse
<1> HIDE DEF rest
<1>4. now \in Nat
  BY RateLimitAssumption DEF Inductive, TypeOK
<1>5. TypeOK'
  BY <1>2, <1>3, <1>4 DEF Inductive, TypeOK
<1>6. ASSUME NEW c \in Clients PROVE BucketIsSuffix(c)' /\ Spaced(c)' /\ FullWhenRefused(c)'
  <2>1. BucketIsSuffix(c) /\ Spaced(c) /\ FullWhenRefused(c)
    BY DEF Inductive
  <2>2. Spaced(c)'
    BY <1>3, <2>1 DEF Spaced
  <2>3. CASE c # d
    <3>1. bucket'[c] = bucket[c] /\ refused'[c] = refused[c]
      BY <1>3, <2>3 DEF Inductive, TypeOK
    <3>2. QED
      BY <1>3, <2>1, <2>2, <3>1
      DEF BucketIsSuffix, Forgotten, FullWhenRefused, OutOfWindow
  <2>4. CASE c = d
    <3>1. bucket'[c] = rest /\ refused'[c] = now
      BY <1>3, <2>4 DEF Inductive, TypeOK
    <3>2. BucketIsSuffix(c)'
      BY <1>2, <1>3, <2>1, <2>4, <3>1 DEF BucketIsSuffix, Forgotten
    <3>3. Len(rest) \in Nat /\ Len(rest) > 0
      BY <1>2, <1>3, LenProperties, RateLimitAssumption DEF Full
    <3>4. FullWhenRefused(c)'
      BY <1>2, <1>3, <1>4, <3>1, <3>3 DEF FullWhenRefused, OutOfWindow
    <3>5. QED
      BY <2>2, <3>2, <3>4
  <2>5. QED
    BY <2>3, <2>4
<1>7. QED
  BY <1>5, <1>6 DEF Inductive

LEMMA AdmitKeeps ==
  ASSUME Inductive, NEW d \in Clients, Admit(d)
  PROVE  Inductive'
<1>1. PICK k \in 0..Len(bucket[d]) :
        /\ Drops(bucket[d], k)
        /\ ~Full(Rest(bucket[d], k))
        /\ bucket' = [bucket EXCEPT ![d] = Append(Rest(bucket[d], k), now)]
  BY DEF Admit, Stamp
<1> DEFINE rest == Rest(bucket[d], k)
           m == Len(log[d]) - Len(rest)
           n == Len(log[d])
           old == log[d]
           new == Append(old, now)
           b == Append(rest, now)
<1>2. /\ rest \in Seq(Nat)
      /\ m \in Nat
      /\ \A i \in 1..Len(rest) : rest[i] = old[m + i]
      /\ \A i \in 1..m : now - old[i] > Window
  BY <1>1, DropKeepsSuffix
<1>3. /\ bucket' = [bucket EXCEPT ![d] = b]
      /\ log' = [log EXCEPT ![d] = new] /\ UNCHANGED <<now, refused>>
  BY <1>1 DEF Admit
<1>4. ~(refused[d] = now)
  <2> SUFFICES ASSUME refused[d] = now PROVE FALSE
    OBVIOUS
  <2>1. Full(bucket[d]) /\ ~OutOfWindow(bucket[d][1]) /\ bucket[d] \in Seq(Nat)
    BY DEF Inductive, FullWhenRefused, TypeOK
  <2>2. k = 0
    <3>1. \A i \in 1..k : OutOfWindow(bucket[d][i])
      BY <1>1 DEF Drops
    <3>2. k \in Nat /\ ~(1 \in 1..k)
      BY <2>1, <3>1, LenProperties
    <3>3. QED
      BY <3>2
  <2>3. Len(rest) = Len(bucket[d])
    BY <2>1, <2>2, RestFacts, LenProperties
  <2>4. QED
    BY <1>1, <2>1, <2>3 DEF Full
<1>5. Len(rest) < Limit
  BY <1>1, <1>2, LenProperties, RateLimitAssumption DEF Full
<1> HIDE DEF rest
<1>6. /\ now \in Nat /\ old \in Seq(Nat) /\ n \in Nat /\ Len(rest) \in Nat
      /\ BucketIsSuffix(d) /\ Spaced(d)
  BY <1>2, LenProperties, RateLimitAssumption DEF Inductive, TypeOK
<1>7. /\ new \in Seq(Nat) /\ Len(new) = n + 1
      /\ \A i \in 1..n : new[i] = old[i]
      /\ new[n + 1] = now
  BY <1>6, AppendProperties
<1>8. /\ b \in Seq(Nat) /\ Len(b) = Len(rest) + 1
      /\ \A i \in 1..Len(rest) : b[i] = rest[i]
      /\ b[Len(rest) + 1] = now
  BY <1>2, <1>6, AppendProperties
<1>9. /\ \A i \in 1..n : old[i] \in Nat /\ old[i] <= now
      /\ \A i, j \in 1..n : i <= j => old[i] <= old[j]
      /\ \A i \in 1..n : i + Limit <= n => old[i + Limit] - old[i] > Window
  BY <1>6, ElementOfSeq DEF BucketIsSuffix, Spaced
<1>10. m = n - Len(rest)
  OBVIOUS
<1>11. TypeOK'
  BY <1>3, <1>7, <1>8 DEF Inductive, TypeOK
<1>12. bucket'[d] = b /\ log'[d] = new
  BY <1>3 DEF Inductive, TypeOK
<1> HIDE DEF m, n, old, new, b
<1>13. BucketIsSuffix(d)'
  <2>1. Forgotten(d)' = m
    <3>1. Forgotten(d)' = Len(new) - Len(b)
      BY <1>12 DEF Forgotten
    <3>2. Len(new) - Len(b) = n - Len(rest)
      BY <1>6, <1>7, <1>8
    <3>3. QED
      BY <1>10, <3>1, <3>2
  <2>2. \A i \in 1..Len(b) : b[i] = new[m + i]
    <3> SUFFICES ASSUME NEW i \in 1..Len(b) PROVE b[i] = new[m + i]
      OBVIOUS
    <3>1. CASE i \in 1..Len(rest)
      <4>1. m + i \in 1..n
        BY <1>2, <1>6, <1>10, <3>1
      <4>2. QED
        BY <1>2, <1>7, <1>8, <3>1, <4>1
    <3>2. CASE i = Len(rest) + 1
      <4>1. m + i = n + 1
        BY <1>2, <1>6, <1>10, <3>2
      <4>2. QED
        BY <1>7, <1>8, <3>2, <4>1
    <3>3. QED
      BY <1>6, <1>8, <3>1, <3>2
  <2>3. \A i \in 1..(n + 1) : new[i] <= now /\ (i \in 1..n \/ i = n + 1)
    BY <1>6, <1>7, <1>9
  <2>4. \A i, j \in 1..(n + 1) : i <= j => new[i] <= new[j]
    <3> SUFFICES ASSUME NEW i \in 1..(n + 1), NEW j \in 1..(n + 1), i <= j
                 PROVE  new[i] <= new[j]
      OBVIOUS
    <3>1. CASE j = n + 1
      BY <1>7, <2>3, <3>1
    <3>2. CASE j \in 1..n
      <4>1. i \in 1..n
        BY <1>6, <3>2
      <4>2. QED
        BY <1>7, <1>9, <3>2, <4>1
    <3>3. QED
      BY <2>3, <3>1, <3>2
  <2>5. \A i \in 1..m : now - new[i] > Window
    <3>1. \A i \in 1..m : i \in 1..n
      BY <1>2, <1>6, <1>10
    <3>2. QED
      BY <1>2, <1>7, <3>1
  <2>6. QED
    BY <1>2, <1>3, <1>7, <1>12, <2>1, <2>2, <2>3, <2>4, <2>5 DEF BucketIsSuffix
<1>14. Spaced(d)'
  <2>1. ASSUME NEW i \in 1..(n + 1), i + Limit <= n + 1
        PROVE  new[i + Limit] - new[i] > Window
    <3>1. CASE i + Limit <= n
      <4>1. i \in 1..n /\ i + Limit \in 1..n
        BY <1>6, <3>1, RateLimitAssumption
      <4>2. QED
        BY <1>7, <1>9, <3>1, <4>1
    <3>2. CASE i + Limit = n + 1
      <4>1. i \in 1..m /\ i \in 1..n
        BY <1>2, <1>5, <1>6, <1>10, <3>2, RateLimitAssumption
      <4>2. new[i + Limit] = now /\ new[i] = old[i] /\ now - old[i] > Window
        BY <1>2, <1>7, <3>2, <4>1
      <4>3. QED
        BY <4>2
    <3>3. QED
      BY <1>6, <2>1, <3>1, <3>2, RateLimitAssumption
  <2>2. QED
    BY <1>7, <1>12, <2>1 DEF Spaced
<1>15. FullWhenRefused(d)'
  BY <1>3, <1>4 DEF FullWhenRefused, Inductive
<1>16. ASSUME NEW c \in Clients, c # d
       PROVE  BucketIsSuffix(c)' /\ Spaced(c)' /\ FullWhenRefused(c)'
  <2>1. bucket'[c] = bucket[c] /\ log'[c] = log[c] /\ UNCHANGED <<now, refused>>
    BY <1>3, <1>16 DEF Inductive, TypeOK
  <2>2. BucketIsSuffix(c) /\ Spaced(c) /\ FullWhenRefused(c)
    BY DEF Inductive
  <2>3. QED
    BY <2>1, <2>2 DEF BucketIsSuffix, Forgotten, Spaced, FullWhenRefused, OutOfWindow
<1>17. QED
  BY <1>11, <1>13, <1>14, <1>15, <1>16 DEF Inductive

LEMMA InductiveNext == Inductive /\ [Next]_vars => Inductive'
<1> SUFFICES ASSUME Inductive, [Next]_vars PROVE Inductive'
  OBVIOUS
<1>1. CASE UNCHANGED vars
  BY <1>1 DEF vars, Inductive, TypeOK, BucketIsSuffix, Forgotten, Spaced, FullWhenRefused,
     OutOfWindow
<1>2. QED
  BY <1>1, ElapseKeeps, RefuseKeeps, AdmitKeeps DEF Next

LEMMA InductiveAlways == Spec => []Inductive
  BY InductiveInit, InductiveNext, PTL DEF Spec

\* Every variable keeps its type.
THEOREM TypeCorrect == Spec => []TypeOK
<1>1. Inductive => TypeOK
  BY DEF Inductive
<1>2. QED
  BY <1>1, InductiveAlways, PTL

\* RateLimitMiddleware: no window of Window seconds holds more than Limit
\* admitted requests of one client, for any limit, window and clients.
THEOREM LimitHolds == Spec => []NeverOverLimit
<1>1. Inductive => NeverOverLimit
  BY DEF Inductive, Spaced, NeverOverLimit
<1>2. QED
  BY <1>1, InductiveAlways, PTL

\* RateLimitMiddleware: a request is refused only if the window that ends with
\* it holds Limit admitted requests of that client.
THEOREM RefusalsAreDue == Spec => []NeverRefusedEarly
<1>1. Inductive => NeverRefusedEarly
  <2> SUFFICES ASSUME Inductive, NEW c \in Clients, refused[c] = now
               PROVE  /\ Len(log[c]) >= Limit
                      /\ now - log[c][Len(log[c]) - Limit + 1] <= Window
    BY DEF NeverRefusedEarly
  <2> DEFINE n == Len(log[c])
             f == Forgotten(c)
             old == log[c]
  <2>1. /\ now \in Nat /\ n \in Nat /\ Len(bucket[c]) \in Nat
        /\ \A i \in 1..n : old[i] \in Nat
    BY LenProperties, ElementOfSeq, RateLimitAssumption DEF Inductive, TypeOK
  <2>2. Len(bucket[c]) >= Limit /\ ~(now - bucket[c][1] > Window)
    BY DEF Inductive, FullWhenRefused, Full, OutOfWindow
  <2>3. f \in Nat /\ f = n - Len(bucket[c])
    BY DEF Inductive, BucketIsSuffix, Forgotten
  <2>4. bucket[c][1] = old[f + 1]
    <3>1. 1 \in 1..Len(bucket[c])
      BY <2>1, <2>2, RateLimitAssumption
    <3>2. QED
      BY <3>1 DEF Inductive, BucketIsSuffix
  <2>5. \A i, j \in 1..n : i <= j => old[i] <= old[j]
    BY DEF Inductive, BucketIsSuffix
  <2> HIDE DEF n, f, old
  <2>6. /\ n >= Limit
        /\ f + 1 \in 1..n /\ n - Limit + 1 \in 1..n /\ f + 1 <= n - Limit + 1
    BY <2>1, <2>2, <2>3, RateLimitAssumption
  <2>7. now - old[n - Limit + 1] <= Window
    BY <2>1, <2>2, <2>4, <2>5, <2>6, RateLimitAssumption
  <2>8. QED
    BY <2>6, <2>7 DEF n, old
<1>2. QED
  BY <1>1, InductiveAlways, PTL
=============================================================================
