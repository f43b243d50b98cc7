--------------------------- MODULE ServerProofs ---------------------------
(***************************************************************************)
(* The limit of the token bucket holds in every window, for every Count    *)
(* and Period and at every time.  A count of admissions says nothing by    *)
(* itself about the next step: what is inductive is that the count, in     *)
(* units, and the tokens that are left come to no more than a full bucket  *)
(* and what came in since the window opened and before the last refill.    *)
(***************************************************************************)
EXTENDS RequestServer, RateLimit, FiniteSetTheorems, SequenceTheorems, TLAPS

\* What an address was admitted in the window and still has in its bucket.
Spent(ip) ==
  IF bucket[ip] = NoBucket THEN count[ip] = 0
  ELSE /\ bucket[ip].tokens <= Full
       /\ bucket[ip].last <= now
       /\ IF bucket[ip].last < from THEN count[ip] = 0
          ELSE count[ip] * Period + bucket[ip].tokens <= Full + (bucket[ip].last - from) * Count

RateInv == RateTypeOK /\ \A ip \in Ips : Spent(ip)

-----------------------------------------------------------------------------
(* Arithmetic *)

\* A full bucket is a whole number of units.
LEMMA FullNat == Full \in Nat
BY LimitAssumption DEF Full

\* Multiplication distributes: one more second, one more request, two stretches in a row.
LEMMA Distributes == ASSUME NEW x \in Int, NEW y \in Int, NEW c \in Int PROVE (x + y) * c = x * c + y * c
OBVIOUS

\* The same for differences.
LEMMA DistributesMinus == ASSUME NEW x \in Int, NEW y \in Int, NEW c \in Int PROVE (x - y) * c = x * c - y * c
OBVIOUS

\* The product of natural numbers is one, and grows with its first factor.
LEMMA ProductNat == ASSUME NEW x \in Nat, NEW c \in Nat PROVE x * c \in Nat
OBVIOUS

-----------------------------------------------------------------------------
(* The bucket that check works on *)

\* What check finds in the bucket, new or old, after the refill.
LEMMA RefilledBound ==
  ASSUME RateInv, NEW ip \in Ips
  PROVE  /\ Refilled(Bucket(ip)) \in Nat
         /\ count[ip] * Period + Refilled(Bucket(ip)) <= Full + (now - from) * Count
         /\ Refilled(Bucket(ip)) <= Full
<1> DEFINE b == Bucket(ip)
<1>1. now \in Nat /\ from \in Nat /\ from <= now /\ count[ip] \in Nat /\ Full \in Nat
  BY FullNat DEF RateInv, RateTypeOK
<1>2. Count \in Nat /\ Period \in Nat
  BY LimitAssumption
<1>3. (now - from) * Count \in Nat
  BY <1>1, <1>2, ProductNat
<1>4. CASE bucket[ip] = NoBucket
  <2>1. b = [tokens |-> Full, last |-> now]
    BY <1>4 DEF Bucket
  <2>2. (now - now) * Count = 0
    BY <1>1, <1>2
  <2>3. Refilled(b) = Full
    BY <2>1, <2>2, <1>1 DEF Refilled
  <2>4. count[ip] * Period = 0
    BY <1>4, <1>2 DEF RateInv, Spent
  <2> QED
    BY <2>3, <2>4, <1>1, <1>3
<1>5. CASE bucket[ip] # NoBucket
  <2>1. b = bucket[ip] /\ b \in [tokens: Nat, last: Nat]
    BY <1>5 DEF Bucket, RateInv, RateTypeOK
  <2>2. b.tokens \in Nat /\ b.last \in Nat /\ b.tokens <= Full /\ b.last <= now
    BY <2>1, <1>5 DEF RateInv, Spent
  <2>3. (now - b.last) * Count \in Nat
    BY <2>2, <1>1, <1>2, ProductNat
  <2>4. /\ Refilled(b) \in Nat /\ Refilled(b) <= Full
        /\ Refilled(b) <= b.tokens + (now - b.last) * Count
    BY <2>2, <2>3, <1>1 DEF Refilled
  <2>5. CASE b.last < from
    <3>1. count[ip] * Period = 0
      BY <2>5, <2>1, <1>5, <1>2 DEF RateInv, Spent
    <3> QED
      BY <3>1, <2>4, <1>1, <1>3
  <2>6. CASE ~(b.last < from)
    <3>1. count[ip] * Period + b.tokens <= Full + (b.last - from) * Count
      BY <2>6, <2>1, <1>5 DEF RateInv, Spent
    <3>2. (b.last - from) * Count + (now - b.last) * Count = (now - from) * Count
      BY <2>2, <1>1, <1>2, DistributesMinus
    <3>3. count[ip] * Period \in Nat /\ (b.last - from) * Count \in Int
      BY <2>2, <1>1, <1>2, ProductNat
    <3> QED
      BY <3>1, <3>2, <3>3, <2>2, <2>3, <2>4, <1>1, <1>3
  <2> QED
    BY <2>5, <2>6
<1> QED
  BY <1>4, <1>5

-----------------------------------------------------------------------------
(* Steps *)

\* A request settles its bucket at the present time.
LEMMA SettledSpent ==
  ASSUME RateInv, NEW ip \in Ips, NEW tokens \in Nat, Settle(ip, tokens),
         now' = now, from' = from, count' \in [Ips -> Nat],
         \A i \in Ips \ {ip} : count'[i] = count[i],
         tokens <= Full,
         count'[ip] * Period + tokens <= Full + (now - from) * Count
  PROVE  (\A i \in Ips : Spent(i)') /\ bucket' \in [Ips -> [tokens: Nat, last: Nat] \cup {NoBucket}]
<1> DEFINE b == [tokens |-> tokens, last |-> now]
<1>1. bucket' = [bucket EXCEPT ![ip] = b]
  BY DEF Settle
<1>2. bucket \in [Ips -> [tokens: Nat, last: Nat] \cup {NoBucket}] /\ now \in Nat /\ from \in Nat /\ from <= now
  BY DEF RateInv, RateTypeOK
<1>3. b \in [tokens: Nat, last: Nat]
  BY <1>2
<1>4. bucket'[ip] = b /\ \A i \in Ips \ {ip} : bucket'[i] = bucket[i]
  BY <1>1, <1>2
<1>5. bucket' \in [Ips -> [tokens: Nat, last: Nat] \cup {NoBucket}]
  BY <1>1, <1>2, <1>3
<1>6. Full' = Full
  BY DEF Full
<1>7. Spent(ip)'
  <2>1. bucket'[ip] # NoBucket
    BY <1>3, <1>4, LimitAssumption
  <2>2. bucket'[ip].tokens = tokens /\ bucket'[ip].last = now
    BY <1>4
  <2> QED
    BY <2>1, <2>2, <1>2, <1>6 DEF Spent
<1>8. ASSUME NEW i \in Ips \ {ip} PROVE Spent(i)'
  BY <1>4, <1>6 DEF RateInv, Spent
<1> QED
  BY <1>5, <1>7, <1>8

\* Nobody has a bucket at the start, and nobody was admitted.
LEMMA RateInvInit == RateInit => RateInv
<1> SUFFICES ASSUME RateInit PROVE RateInv
  OBVIOUS
<1>1. RateTypeOK
  BY DEF RateInit, RateTypeOK
<1>2. ASSUME NEW ip \in Ips PROVE Spent(ip)
  BY DEF RateInit, Spent
<1> QED
  BY <1>1, <1>2 DEF RateInv

\* Every step of the limiter, of the clock and of the observer keeps the invariant.
LEMMA RateInvNext == RateInv /\ [RateNext]_rateVars => RateInv'
<1> SUFFICES ASSUME RateInv, [RateNext]_rateVars PROVE RateInv'
  OBVIOUS
<1>0. /\ now \in Nat /\ from \in Nat /\ from <= now /\ Full \in Nat /\ Full' = Full
      /\ Count \in Nat /\ Period \in Nat \ {0}
      /\ count \in [Ips -> Nat] /\ log \in [Ips -> Seq(Nat)] /\ refused \subseteq Ips
      /\ bucket \in [Ips -> [tokens: Nat, last: Nat] \cup {NoBucket}]
  BY FullNat, LimitAssumption DEF RateInv, RateTypeOK, Full
<1>1. ASSUME NEW ip \in Ips, Admit(ip) PROVE RateInv'
  <2> DEFINE left == Refilled(Bucket(ip)) - Period
  <2>1. Refilled(Bucket(ip)) \in Nat /\ Refilled(Bucket(ip)) <= Full /\ Refilled(Bucket(ip)) >= Period
        /\ count[ip] * Period + Refilled(Bucket(ip)) <= Full + (now - from) * Count
    BY <1>1, RefilledBound DEF Admit
  <2>2. left \in Nat /\ left <= Full
    BY <2>1, <1>0
  <2>3. Settle(ip, left) /\ now' = now /\ from' = from
    BY <1>1 DEF Admit
  <2>4. count' \in [Ips -> Nat] /\ count'[ip] = count[ip] + 1 /\ \A i \in Ips \ {ip} : count'[i] = count[i]
    BY <1>0, <1>1 DEF Admit
  <2>5. count'[ip] * Period + left <= Full + (now - from) * Count
    <3>1. (count[ip] + 1) * Period = count[ip] * Period + 1 * Period
      BY <1>0, Distributes
    <3>2. count[ip] * Period \in Nat /\ (now - from) * Count \in Nat
      BY <1>0, ProductNat
    <3> QED
      BY <3>1, <3>2, <2>1, <2>4, <1>0
  <2>6. (\A i \in Ips : Spent(i)') /\ bucket' \in [Ips -> [tokens: Nat, last: Nat] \cup {NoBucket}]
    BY <2>2, <2>3, <2>4, <2>5, SettledSpent
  <2>7. log' \in [Ips -> Seq(Nat)] /\ refused' \subseteq Ips
    BY <1>0, <1>1 DEF Admit
  <2> QED
    BY <2>3, <2>4, <2>6, <2>7, <1>0 DEF RateInv, RateTypeOK
<1>2. ASSUME NEW ip \in Ips, Refuse(ip) PROVE RateInv'
  <2>1. Refilled(Bucket(ip)) \in Nat /\ Refilled(Bucket(ip)) <= Full
        /\ count[ip] * Period + Refilled(Bucket(ip)) <= Full + (now - from) * Count
    BY RefilledBound
  <2>2. Settle(ip, Refilled(Bucket(ip))) /\ now' = now /\ from' = from /\ count' = count /\ log' = log
        /\ refused' \subseteq Ips
    BY <1>0, <1>2 DEF Refuse
  <2>3. (\A i \in Ips : Spent(i)') /\ bucket' \in [Ips -> [tokens: Nat, last: Nat] \cup {NoBucket}]
    BY <2>1, <2>2, <1>0, SettledSpent
  <2> QED
    BY <2>2, <2>3, <1>0 DEF RateInv, RateTypeOK
<1>3. CASE Tick
  <2>1. now' = now + 1 /\ from' = from /\ bucket' = bucket /\ count' = count /\ log' = log /\ refused' = {}
    BY <1>3 DEF Tick
  <2>2. ASSUME NEW i \in Ips PROVE Spent(i)'
    <3>1. CASE bucket[i] = NoBucket
      BY <2>1, <3>1 DEF RateInv, Spent
    <3>2. CASE bucket[i] # NoBucket
      <4>1. bucket[i].last \in Nat
        BY <1>0, <3>2
      <4> QED
        BY <2>1, <3>2, <4>1, <1>0 DEF RateInv, Spent
    <3> QED
      BY <3>1, <3>2
  <2> QED
    BY <2>1, <2>2, <1>0 DEF RateInv, RateTypeOK
<1>4. CASE OpenWindow
  <2>1. from' = now /\ now' = now /\ bucket' = bucket /\ log' = log /\ refused' = refused
        /\ count' = [ip \in Ips |-> 0]
    BY <1>4 DEF OpenWindow
  <2>2. ASSUME NEW i \in Ips PROVE Spent(i)'
    <3>0. count'[i] = 0
      BY <2>1
    <3>1. CASE bucket[i] = NoBucket
      BY <2>1, <3>0, <3>1 DEF Spent
    <3>2. CASE bucket[i] # NoBucket
      <4>1. bucket[i].last \in Nat /\ bucket[i].tokens \in Nat /\ bucket[i].tokens <= Full /\ bucket[i].last <= now
        BY <1>0, <3>2 DEF RateInv, Spent
      <4>2. ~(bucket[i].last < now) => (bucket[i].last - now) * Count = 0 /\ 0 * Period = 0
        BY <4>1, <1>0
      <4> QED
        BY <2>1, <3>0, <3>2, <4>1, <4>2, <1>0 DEF Spent
    <3> QED
      BY <3>1, <3>2
  <2> QED
    BY <2>1, <2>2, <1>0 DEF RateInv, RateTypeOK
<1>5. CASE UNCHANGED rateVars
  <2>1. ASSUME NEW i \in Ips PROVE Spent(i)'
    BY <1>0, <1>5 DEF RateInv, Spent, rateVars
  <2> QED
    BY <1>5, <2>1 DEF RateInv, RateTypeOK, rateVars
<1> QED
  BY <1>1, <1>2, <1>3, <1>4, <1>5 DEF RateNext

-----------------------------------------------------------------------------
(* Theorems *)

\* The variables of the limiter keep their types: no bucket goes below zero.
THEOREM RateLimitType == RateSpec => []RateTypeOK
<1>1. RateInv => RateTypeOK
  BY DEF RateInv
<1> QED
  BY <1>1, RateInvInit, RateInvNext, PTL DEF RateSpec

\* The invariant implies the limit: the tokens that are left are not negative, and the
\* last refill was not later than now.
LEMMA RateInvBound == RateInv => AdmitsAtMost
<1> SUFFICES ASSUME RateInv, NEW ip \in Ips PROVE count[ip] * Period <= Full + (now - from) * Count
  BY DEF AdmitsAtMost
<1>1. count[ip] * Period + Refilled(Bucket(ip)) <= Full + (now - from) * Count /\ Refilled(Bucket(ip)) \in Nat
  BY RefilledBound
<1>2. count[ip] * Period \in Nat /\ (now - from) * Count \in Int /\ Full \in Nat
  BY FullNat, LimitAssumption, ProductNat DEF RateInv, RateTypeOK
<1> QED
  BY <1>1, <1>2

\* In any window that opens at any moment, an address is admitted at most a full bucket and
\* the refill of the window (RateLimiter::check), for every limit.
THEOREM RateLimitHolds == RateSpec => []AdmitsAtMost
BY RateInvInit, RateInvNext, RateInvBound, PTL DEF RateSpec

-----------------------------------------------------------------------------
(* Refusals *)

\* The admissions of an address since start.
Since(ip, start) == {i \in DOMAIN log[ip] : log[ip][i] >= start}

\* In some stretch of time up to the last refill an address used all that it lacks now.
Used(ip) ==
  bucket[ip] # NoBucket =>
    \E start \in 0 .. bucket[ip].last :
      Cardinality(Since(ip, start)) * Period + bucket[ip].tokens
        >= Full + (bucket[ip].last - start) * Count

\* An address that was refused in this second has less than a token, and had its refill.
Short(ip) ==
  ip \in refused =>
    /\ bucket[ip] # NoBucket
    /\ bucket[ip].last = now
    /\ bucket[ip].tokens < Period

ExcessInv == \A ip \in Ips : Used(ip) /\ Short(ip)

\* The admissions of a stretch can be counted.
LEMMA SinceFinite ==
  ASSUME RateTypeOK, NEW ip \in Ips, NEW start
  PROVE  IsFiniteSet(Since(ip, start)) /\ Cardinality(Since(ip, start)) \in Nat
<1>1. log[ip] \in Seq(Nat)
  BY DEF RateTypeOK
<1>2. DOMAIN log[ip] = 1 .. Len(log[ip]) /\ Len(log[ip]) \in Nat
  BY <1>1
<1>3. IsFiniteSet(1 .. Len(log[ip]))
  BY <1>2, FS_Interval
<1>4. Since(ip, start) \in SUBSET (1 .. Len(log[ip]))
  BY <1>2 DEF Since
<1>5. IsFiniteSet(Since(ip, start))
  BY <1>3, <1>4, FS_Subset
<1> QED
  BY <1>5, FS_CardinalityType

\* An admission counts in every stretch that reaches to the present.
LEMMA SinceAdmit ==
  ASSUME RateTypeOK, NEW ip \in Ips, NEW start \in 0 .. now,
         log' = [log EXCEPT ![ip] = Append(@, now)]
  PROVE  Cardinality(Since(ip, start)') = Cardinality(Since(ip, start)) + 1
<1> DEFINE n == Len(log[ip])
<1>1. log[ip] \in Seq(Nat) /\ log \in [Ips -> Seq(Nat)] /\ now \in Nat
  BY DEF RateTypeOK
<1>2. log'[ip] = Append(log[ip], now)
  BY <1>1
<1>3. n \in Nat /\ DOMAIN log[ip] = 1 .. n /\ DOMAIN log'[ip] = 1 .. (n + 1)
  BY <1>1, <1>2
<1>4. log'[ip][n + 1] = now /\ \A i \in 1 .. n : log'[ip][i] = log[ip][i]
  BY <1>1, <1>2
<1>5. now >= start
  BY <1>1
<1>6. Since(ip, start)' = Since(ip, start) \cup {n + 1}
  <2>1. Since(ip, start)' = {i \in 1 .. (n + 1) : log'[ip][i] >= start}
    BY <1>3 DEF Since
  <2>2. Since(ip, start) = {i \in 1 .. n : log[ip][i] >= start}
    BY <1>3 DEF Since
  <2>3. 1 .. (n + 1) = (1 .. n) \cup {n + 1}
    BY <1>3
  <2>4. n + 1 \notin 1 .. n
    BY <1>3
  <2> QED
    BY <2>1, <2>2, <2>3, <2>4, <1>4, <1>5
<1>7. n + 1 \notin Since(ip, start)
  BY <1>3 DEF Since
<1> QED
  BY <1>6, <1>7, SinceFinite, FS_AddElement

\* What an address used, counted up to the present: the refill is what it lacks now, and a
\* bucket that is full lacks nothing in the stretch that begins now.
LEMMA RefilledUsed ==
  ASSUME RateInv, ExcessInv, NEW ip \in Ips
  PROVE  \E start \in 0 .. now :
           Cardinality(Since(ip, start)) * Period + Refilled(Bucket(ip)) >= Full + (now - start) * Count
<1> DEFINE b == Bucket(ip)
<1>1. now \in Nat /\ Full \in Nat /\ Count \in Nat /\ Period \in Nat
  BY FullNat, LimitAssumption DEF RateInv, RateTypeOK
<1>2. ASSUME NEW start PROVE Cardinality(Since(ip, start)) * Period \in Nat
  BY <1>1, SinceFinite, ProductNat DEF RateInv
<1>3. CASE Refilled(b) = Full
  <2>1. (now - now) * Count = 0 /\ now \in 0 .. now
    BY <1>1
  <2>2. Cardinality(Since(ip, now)) * Period + Refilled(b) >= Full + (now - now) * Count
    BY <2>1, <1>1, <1>2, <1>3
  <2> QED
    BY <2>1, <2>2
<1>4. CASE Refilled(b) # Full
  <2>1. bucket[ip] # NoBucket
    <3>1. SUFFICES ASSUME bucket[ip] = NoBucket PROVE Refilled(b) = Full
      BY <1>4
    <3>2. b = [tokens |-> Full, last |-> now] /\ (now - now) * Count = 0
      BY <3>1, <1>1 DEF Bucket
    <3> QED
      BY <3>2, <1>1 DEF Refilled
  <2>2. b = bucket[ip] /\ b.tokens \in Nat /\ b.last \in Nat /\ b.last <= now
    BY <2>1 DEF Bucket, RateInv, RateTypeOK, Spent
  <2>3. Refilled(b) = b.tokens + (now - b.last) * Count
    BY <1>4 DEF Refilled
  <2>4. PICK start \in 0 .. b.last :
          Cardinality(Since(ip, start)) * Period + b.tokens >= Full + (b.last - start) * Count
    BY <2>1, <2>2 DEF ExcessInv, Used
  <2>5. (b.last - start) * Count + (now - b.last) * Count = (now - start) * Count
    BY <2>2, <1>1, DistributesMinus
  <2>6. (b.last - start) * Count \in Int /\ (now - b.last) * Count \in Int /\ (now - start) * Count \in Int
    BY <2>2, <1>1
  <2>7. start \in 0 .. now
    BY <2>2, <1>1
  <2>8. Cardinality(Since(ip, start)) * Period + Refilled(b) >= Full + (now - start) * Count
    BY <2>2, <2>3, <2>4, <2>5, <2>6, <1>1, <1>2
  <2> QED
    BY <2>7, <2>8
<1> QED
  BY <1>3, <1>4

\* Nobody has a bucket at the start, and nobody was refused.
LEMMA ExcessInit == RateInit => ExcessInv
BY DEF RateInit, ExcessInv, Used, Short

\* Every step of the limiter, of the clock and of the observer keeps the account of refusals.
LEMMA ExcessNext == RateInv /\ ExcessInv /\ [RateNext]_rateVars => ExcessInv'
<1> SUFFICES ASSUME RateInv, ExcessInv, [RateNext]_rateVars PROVE ExcessInv'
  OBVIOUS
<1>0. /\ RateTypeOK /\ now \in Nat /\ Full \in Nat /\ Full' = Full /\ Count \in Nat /\ Period \in Nat \ {0}
      /\ bucket \in [Ips -> [tokens: Nat, last: Nat] \cup {NoBucket}] /\ log \in [Ips -> Seq(Nat)]
      /\ NoBucket \notin [tokens: Nat, last: Nat]
  BY FullNat, LimitAssumption DEF RateInv, RateTypeOK, Full
<1>1. ASSUME NEW ip \in Ips, NEW i \in Ips \ {ip}, NEW tokens, Settle(ip, tokens), now' = now,
             log'[i] = log[i], i \in refused' => i \in refused
      PROVE  Used(i)' /\ Short(i)'
  <2>1. bucket'[i] = bucket[i]
    BY <1>0, <1>1 DEF Settle
  <2>2. \A start : Since(i, start)' = Since(i, start)
    BY <1>1 DEF Since
  <2> QED
    BY <1>0, <1>1, <2>1, <2>2 DEF ExcessInv, Used, Short
<1>2. ASSUME NEW ip \in Ips, Admit(ip) PROVE ExcessInv'
  <2> DEFINE rest == Refilled(Bucket(ip)) - Period
  <2>1. Settle(ip, rest) /\ now' = now /\ log' = [log EXCEPT ![ip] = Append(@, now)] /\ refused' = refused \ {ip}
    BY <1>2 DEF Admit
  <2>2. ASSUME NEW i \in Ips \ {ip} PROVE Used(i)' /\ Short(i)'
    BY <1>0, <1>1, <2>1
  <2>3. Short(ip)'
    BY <2>1 DEF Short
  <2>4. Refilled(Bucket(ip)) \in Nat
    BY RefilledBound
  <2>5. bucket'[ip] = [tokens |-> rest, last |-> now]
    BY <1>0, <2>1 DEF Settle
  <2>6. PICK start \in 0 .. now :
          Cardinality(Since(ip, start)) * Period + Refilled(Bucket(ip)) >= Full + (now - start) * Count
    BY RefilledUsed
  <2>7. Cardinality(Since(ip, start)') = Cardinality(Since(ip, start)) + 1 /\ Cardinality(Since(ip, start)) \in Nat
    BY <1>0, <2>1, SinceAdmit, SinceFinite
  <2>8. (Cardinality(Since(ip, start)) + 1) * Period = Cardinality(Since(ip, start)) * Period + Period
    BY <1>0, <2>7, Distributes
  <2>9. Cardinality(Since(ip, start)) * Period \in Nat /\ (now - start) * Count \in Int
    BY <1>0, <2>7, ProductNat
  <2>10. Cardinality(Since(ip, start)') * Period + rest >= Full + (now - start) * Count
    BY <1>0, <2>4, <2>6, <2>7, <2>8, <2>9
  <2>11. bucket'[ip].last = now /\ bucket'[ip].tokens = rest
    BY <2>5
  <2>12. Cardinality(Since(ip, start)') * Period + bucket'[ip].tokens >= Full' + (bucket'[ip].last - start) * Count
    BY <1>0, <2>10, <2>11
  <2>13. start \in 0 .. bucket'[ip].last
    BY <2>11
  <2>14. Used(ip)'
    BY <2>12, <2>13 DEF Used
  <2> QED
    BY <2>2, <2>3, <2>14 DEF ExcessInv
<1>3. ASSUME NEW ip \in Ips, Refuse(ip) PROVE ExcessInv'
  <2> DEFINE rest == Refilled(Bucket(ip))
  <2>1. Settle(ip, rest) /\ now' = now /\ log' = log /\ refused' = refused \cup {ip} /\ rest < Period
    BY <1>3 DEF Refuse
  <2>2. ASSUME NEW i \in Ips \ {ip} PROVE Used(i)' /\ Short(i)'
    BY <1>0, <1>1, <2>1
  <2>3. rest \in Nat
    BY RefilledBound
  <2>4. bucket'[ip] = [tokens |-> rest, last |-> now]
    BY <1>0, <2>1 DEF Settle
  <2>5. [tokens |-> rest, last |-> now] # NoBucket
    BY <1>0, <2>3
  <2>6. Short(ip)'
    BY <2>1, <2>4, <2>5 DEF Short
  <2>7. \A start : Since(ip, start)' = Since(ip, start)
    BY <2>1 DEF Since
  <2>8. Used(ip)'
    BY <1>0, <2>1, <2>4, <2>7, RefilledUsed DEF Used
  <2> QED
    BY <2>2, <2>6, <2>8 DEF ExcessInv
<1>4. CASE Tick
  BY <1>0, <1>4 DEF Tick, ExcessInv, Used, Short, Since
<1>5. CASE OpenWindow
  BY <1>0, <1>5 DEF OpenWindow, ExcessInv, Used, Short, Since
<1>6. CASE UNCHANGED rateVars
  BY <1>0, <1>6 DEF rateVars, ExcessInv, Used, Short, Since
<1> QED
  BY <1>2, <1>3, <1>4, <1>5, <1>6 DEF RateNext

\* An address that lacks a token used more than the limit minus one request.
LEMMA ExcessBound == RateInv /\ ExcessInv => RefusesOnlyExcess
<1> SUFFICES ASSUME RateInv, ExcessInv, NEW ip \in refused
             PROVE  \E start \in 0 .. now :
                      (Cardinality(Since(ip, start)) + 1) * Period > Full + (now - start) * Count
  BY DEF RefusesOnlyExcess, Since
<1>1. ip \in Ips /\ now \in Nat /\ Full \in Nat /\ Count \in Nat /\ Period \in Nat
  BY FullNat, LimitAssumption DEF RateInv, RateTypeOK
<1>2. bucket[ip] # NoBucket /\ bucket[ip].last = now /\ bucket[ip].tokens < Period
  BY <1>1 DEF ExcessInv, Short
<1>3. bucket[ip].tokens \in Nat
  BY <1>1, <1>2 DEF RateInv, RateTypeOK
<1>4. PICK start \in 0 .. now :
        Cardinality(Since(ip, start)) * Period + bucket[ip].tokens >= Full + (now - start) * Count
  BY <1>1, <1>2 DEF ExcessInv, Used
<1>5. Cardinality(Since(ip, start)) \in Nat
  BY <1>1, SinceFinite DEF RateInv
<1>6. (Cardinality(Since(ip, start)) + 1) * Period = Cardinality(Since(ip, start)) * Period + Period
  BY <1>1, <1>5, Distributes
<1>7. Cardinality(Since(ip, start)) * Period \in Nat /\ (now - start) * Count \in Int
  BY <1>1, <1>5, ProductNat
<1> QED
  BY <1>1, <1>2, <1>3, <1>4, <1>6, <1>7

\* A request is refused only when admitting it would have exceeded the limit in some stretch
\* of time that ends now (RateLimiter::check), for every limit.
THEOREM RateLimitRefusesOnlyExcess == RateSpec => []RefusesOnlyExcess
<1>1. RateInv /\ ExcessInv /\ [RateNext]_rateVars => RateInv' /\ ExcessInv'
  BY RateInvNext, ExcessNext
<1> QED
  BY <1>1, RateInvInit, ExcessInit, ExcessBound, PTL DEF RateSpec

-----------------------------------------------------------------------------
(* The requests: types *)

\* The overlays that edits make are overlays.
LEMMA OverlayOps ==
  ASSUME NEW o \in Overlays, NEW r \in Requests, NEW p
  PROVE  /\ Patched(o, r) \in Overlays /\ Inserted(o, r) \in Overlays
         /\ Without(o, p) \in Overlays /\ Fresh(o) \in Overlays /\ Empty \in Overlays
         /\ Edits(o) \subseteq Requests /\ Vectors(o) \in Outputs /\ HitsKey(o) \in Keys
         /\ Patched(o, r).patches = o.patches \cup {r} /\ Patched(o, r).direct = o.direct
         /\ Inserted(o, r).patches = o.patches /\ Inserted(o, r).direct = o.direct \cup {r}
         /\ Without(o, p).patches = o.patches \ {p} /\ Without(o, p).direct = {}
         /\ Fresh(o).patches = {} /\ Fresh(o).direct = {}
<1>1. o.patches \subseteq Requests /\ o.direct \subseteq Requests /\ o.vecs \subseteq Requests
  BY DEF Overlays
<1>2. Edits(o) \subseteq Requests
  BY <1>1 DEF Edits
<1>3. Vectors(o) \in Outputs /\ HitsKey(o) \in Keys
  BY <1>1, <1>2 DEF Vectors, Outputs, HitsKey, Keys, Changing
<1>4. Changing({r}, "base") \subseteq Requests
  BY DEF Changing
<1> QED
  BY <1>1, <1>2, <1>3, <1>4 DEF Overlays, Patched, Inserted, Without, Fresh, Empty

\* Leaving a queue without repetitions takes one element out of it.
LEMMA RemoveFirstOne ==
  ASSUME NEW s \in Seq(Requests), IsInjective(s), NEW r \in Range(s)
  PROVE  /\ RemoveFirst(s, r) \in Seq(Requests)
         /\ IsInjective(RemoveFirst(s, r))
         /\ Range(RemoveFirst(s, r)) = Range(s) \ {r}
<1>1. Len(s) \in Nat /\ DOMAIN s = 1 .. Len(s) /\ \A i \in 1 .. Len(s) : s[i] \in Requests
  BY LenProperties
<1>2. PICK k \in 1 .. Len(s) : s[k] = r
  BY <1>1 DEF Range
<1>3. {i \in 1 .. Len(s) : s[i] = r} = {k}
  BY <1>1, <1>2 DEF IsInjective
<1>4. Min({k}) = k
  BY <1>1, <1>2 DEF Min
<1>5. RemoveFirst(s, r) = SubSeq(s, 1, k - 1) \o SubSeq(s, k + 1, Len(s))
  BY <1>2, <1>3, <1>4 DEF RemoveFirst, RemoveAt, SelectInSeq
<1>6. PICK a : a = SubSeq(s, 1, k - 1)
  OBVIOUS
<1>7. a \in Seq(Requests) /\ Len(a) = k - 1 /\ \A i \in 1 .. k - 1 : a[i] = s[i]
  <2>1. \A i \in 1 .. k - 1 : s[i] \in Requests
    BY <1>1
  <2>2. /\ SubSeq(s, 1, k - 1) \in Seq(Requests)
        /\ Len(SubSeq(s, 1, k - 1)) = IF 1 <= k - 1 THEN (k - 1) - 1 + 1 ELSE 0
        /\ \A i \in 1 .. (k - 1) - 1 + 1 : SubSeq(s, 1, k - 1)[i] = s[1 + i - 1]
    BY <1>1, <2>1, SubSeqProperties
  <2>3. (k - 1) - 1 + 1 = k - 1 /\ \A i \in 1 .. k - 1 : 1 + i - 1 = i
    BY <1>1
  <2>4. Len(a) = k - 1
    BY <1>1, <1>6, <2>2, <2>3
  <2> QED
    BY <1>6, <2>2, <2>3, <2>4
<1>8. PICK b : b = SubSeq(s, k + 1, Len(s))
  OBVIOUS
<1>9. b \in Seq(Requests) /\ Len(b) = Len(s) - k /\ \A i \in 1 .. Len(s) - k : b[i] = s[k + i]
  <2>1. \A i \in (k + 1) .. Len(s) : s[i] \in Requests
    BY <1>1
  <2>2. k + 1 \in Int /\ Len(s) \in Int /\ Len(s) - (k + 1) + 1 = Len(s) - k
    BY <1>1
  <2>3. /\ b \in Seq(Requests)
        /\ Len(b) = IF k + 1 <= Len(s) THEN Len(s) - (k + 1) + 1 ELSE 0
        /\ \A i \in 1 .. Len(s) - (k + 1) + 1 : b[i] = s[(k + 1) + i - 1]
    BY <1>8, <2>1, <2>2, SubSeqProperties
  <2>4. Len(b) = Len(s) - k
    <3>0. k \in Int /\ Len(s) \in Int /\ k <= Len(s)
      BY <1>1
    <3>1. CASE k = Len(s)
      BY <3>1, <2>3, <1>1
    <3>2. CASE k < Len(s)
      <4>1. k + 1 <= Len(s)
        BY <3>2, <1>1
      <4> QED
        BY <4>1, <2>2, <2>3
    <3> QED
      BY <3>0, <3>1, <3>2
  <2>5. \A i \in 1 .. Len(s) - k : (k + 1) + i - 1 = k + i
    BY <1>1
  <2> QED
    BY <2>2, <2>3, <2>4, <2>5
<1>10. PICK t : t = a \o b
  OBVIOUS
<1>11. /\ t \in Seq(Requests) /\ Len(t) = Len(s) - 1
       /\ \A i \in 1 .. Len(s) - 1 : t[i] = IF i <= Len(a) THEN a[i] ELSE b[i - Len(a)]
  <2>1. /\ t \in Seq(Requests) /\ Len(t) = Len(a) + Len(b)
        /\ \A i \in 1 .. Len(a) + Len(b) : t[i] = IF i <= Len(a) THEN a[i] ELSE b[i - Len(a)]
    BY <1>7, <1>9, <1>10, ConcatProperties
  <2>2. Len(a) + Len(b) = Len(s) - 1
    BY <1>1, <1>7, <1>9
  <2> QED
    BY <2>1, <2>2
<1> DEFINE origin(i) == IF i < k THEN i ELSE i + 1
<1>12. \A i \in 1 .. Len(s) - 1 : t[i] = s[origin(i)] /\ origin(i) \in (1 .. Len(s)) \ {k}
  <2>1. SUFFICES ASSUME NEW i \in 1 .. Len(s) - 1
                 PROVE  t[i] = s[origin(i)] /\ origin(i) \in (1 .. Len(s)) \ {k}
    OBVIOUS
  <2>2. t[i] = IF i <= Len(a) THEN a[i] ELSE b[i - Len(a)]
    BY <1>11
  <2>3. CASE i < k
    <3>1. i \in 1 .. k - 1 /\ i <= Len(a) /\ origin(i) = i /\ i \in (1 .. Len(s)) \ {k}
      BY <2>3, <1>1, <1>7
    <3>2. t[i] = a[i] /\ a[i] = s[i]
      BY <3>1, <2>2, <1>7
    <3> QED
      BY <3>1, <3>2
  <2>4. CASE i >= k
    <3>1. PICK j \in Int : j = i - Len(a)
      BY <1>1, <1>7
    <3>2. j \in 1 .. Len(s) - k /\ k + j = i + 1 /\ origin(i) = i + 1
          /\ ~ (i <= Len(a)) /\ i + 1 \in (1 .. Len(s)) \ {k}
      BY <3>1, <2>4, <1>1, <1>7
    <3>3. t[i] = b[j] /\ b[j] = s[k + j]
      BY <3>1, <3>2, <2>2, <1>9
    <3> QED
      BY <3>2, <3>3
  <2> QED
    BY <2>3, <2>4, <1>1
<1>13. DOMAIN t = 1 .. Len(s) - 1
  BY <1>11, LenProperties
<1>14. IsInjective(t)
  <2>1. SUFFICES ASSUME NEW i \in 1 .. Len(s) - 1, NEW j \in 1 .. Len(s) - 1, t[i] = t[j] PROVE i = j
    BY <1>13 DEF IsInjective
  <2>2. origin(i) = origin(j)
    BY <2>1, <1>1, <1>12 DEF IsInjective
  <2> QED
    BY <2>2, <1>1
<1>15. Range(t) = Range(s) \ {r}
  <2>1. ASSUME NEW q \in Range(t) PROVE q \in Range(s) \ {r}
    <3>1. PICK i \in 1 .. Len(s) - 1 : t[i] = q
      BY <1>13 DEF Range
    <3>2. q = s[origin(i)] /\ origin(i) \in (1 .. Len(s)) \ {k}
      BY <3>1, <1>12
    <3> QED
      BY <3>2, <1>1, <1>3 DEF Range
  <2>2. ASSUME NEW q \in Range(s) \ {r} PROVE q \in Range(t)
    <3>1. PICK i \in 1 .. Len(s) : s[i] = q
      BY <1>1 DEF Range
    <3>2. i # k
      BY <3>1, <1>2
    <3> DEFINE j == IF i < k THEN i ELSE i - 1
    <3>3. j \in 1 .. Len(s) - 1 /\ origin(j) = i
      BY <3>2, <1>1
    <3>4. t[j] = q
      BY <3>1, <3>3, <1>12
    <3> QED
      BY <3>3, <3>4, <1>13 DEF Range
  <2> QED
    BY <2>1, <2>2
<1> QED
  BY <1>5, <1>6, <1>8, <1>10, <1>11, <1>14, <1>15

-----------------------------------------------------------------------------
(* The requests: the invariant *)

LoadPlaces == {"cell", "init", "loading", "weights"}

\* Where the handler of r may be.
Places(r) ==
  {"idle", "done"} \cup
  CASE Kind[r] = "apply" -> IF Sid[r] = None THEN {"patched"} ELSE {"sessions", "clone", "commit"}
    [] Kind[r] = "insert" ->
         LoadPlaces \cup {"residuals"}
         \cup IF Sid[r] = None THEN {"patched", "commit"} ELSE {"sessions", "clone"}
    [] Kind[r] = "infer" ->
         LoadPlaces \cup {"patched", "pass"} \cup IF Sid[r] = None THEN {} ELSE {"sessions"}
    [] Kind[r] \in {"generate", "walk", "q8k"} -> LoadPlaces \cup {"patched", "pass"}
    [] Kind[r] = "describe" -> {"lookup", "patched", "put"}
    [] OTHER -> IF Sid[r] = None THEN {"patched"} ELSE {"sessions"}

PlaceInv == \A r \in Requests : pc[r] \in Places(r)

\* The weights cell and the mutex of its first users.
LoadInv ==
  /\ loads = IF loaded THEN 1 ELSE 0
  /\ \A r \in Requests : pc[r] = "loading" <=> loader = r
  /\ loader # None => ~ loaded

\* A guard for writing excludes every other guard of its lock.
GuardsExclude ==
  \A q, r \in Requests : q # r =>
    \A g \in holds[q], h \in holds[r] : g[1] = h[1] => g[2] = "r" /\ h[2] = "r"

\* An insert into a session has the session map locked until it is in.
InsertHolds(r) ==
  Kind[r] = "insert" /\ Sid[r] # None /\ pc[r] \in LoadPlaces \cup {"clone", "residuals"} =>
    /\ <<"sessions", "w">> \in holds[r]
    /\ pc[r] = "clone" <=> session[Sid[r]] = None

\* A walk computes under a guard of the shared overlay.
WalkHolds(r) == Kind[r] = "walk" /\ pc[r] = "pass" => <<"patched", "r">> \in holds[r]

\* The patches of an overlay are those of its own client, its edits are inserts.
OwnEdits(o, s) ==
  /\ \A e \in o.patches : Kind[e] = "apply" /\ Sid[e] = s
  /\ \A e \in o.direct : Kind[e] = "insert" /\ Sid[e] = s

OverlayInv ==
  /\ \A s \in Sessions \cup {None} : OwnEdits(Overlay(s), s)
  /\ \A r \in Requests : pc[r] = "commit" /\ Kind[r] = "apply" =>
       clone[r] # None /\ clone[r].patches = {} /\ clone[r].direct = {}

\* Whoever succeeded is done, only an inference is answered before its end, and what was in
\* force when r came in is still in force for it, or removed.
InForce(r, o) == \A e \in before[r] : Kind[e] = "apply" => e \in o.patches \/ Removed(e)

BeforeInv(r) ==
  /\ reply[r] = "ok" => pc[r] = "done"
  /\ Kind[r] # "infer" /\ pc[r] # "done" => reply[r] = None
  /\ InForce(r, Overlay(Sid[r]))

\* An inference that found no session had nothing in force.
InferInv(r) ==
  Kind[r] = "infer" =>
    /\ pc[r] = "patched" /\ Sid[r] # None => InForce(r, Empty)
    /\ pc[r] = "pass" \/ reply[r] = "ok" => InForce(r, seen[r].overlay)

\* What a DESCRIBE puts into the cache is a description.
PutInv(r) == pc[r] = "put" => seen[r] \in Descriptions

\* An output is cached only for a layer without overrides.
CacheInv == \A k \in Keys : l2[k] # None => l2[k] = [gates |-> {}, vecs |-> {}]

ServerInv ==
  /\ PlaceInv /\ LoadInv /\ GuardsExclude
  /\ \A r \in Requests : InsertHolds(r) /\ WalkHolds(r)
  /\ OverlayInv /\ AckedPatchStays
  /\ \A r \in Requests : BeforeInv(r) /\ InferInv(r) /\ PutInv(r)
  /\ CacheInv /\ CachedIsCurrent

-----------------------------------------------------------------------------
(* The requests: the queue *)

\* The steps of r that take a lock, and those that need none, or wait for one.
Takes(r) ==
  \/ TakeWeights(r) \/ InferSession(r) \/ ReadPatched(r) \/ EditGlobal(r) \/ ApplySession(r)
  \/ CloneBase(r) \/ CommitSession(r) \/ RemoveSession(r) \/ InsertBegins(r) \/ InsertGlobal(r)
  \/ Describe(r)

Goes(r) ==
  \/ Arrive(r) \/ EnsureCell(r) \/ LockInit(r) \/ Load(r) \/ LoadFails(r) \/ EndPass(r)
  \/ InsertComputed(r) \/ LookUp(r) \/ Put(r)

\* These are all the steps of a request.
LEMMA StepKinds ==
  ASSUME NEW r \in Requests, Arrive(r) \/ Step(r) \/ TimesOut(r)
  PROVE  Takes(r) \/ Goes(r) \/ Ask(r) \/ TimesOut(r)
BY DEF Step, Takes, Goes

\* A step that takes a lock: which place it goes to, and what it holds then.
LEMMA TakesLock ==
  ASSUME TypeOK, NEW r \in Requests, Takes(r)
  PROVE  /\ Waiting(r) /\ Blockers(r) = {} /\ Want(r) # None
         /\ line' = RemoveFirst(line, r)
         /\ \E x \in Labels : pc' = [pc EXCEPT ![r] = x]
         /\ \E g : g \subseteq holds[r] \cup {Want(r)} /\ holds' = [holds EXCEPT ![r] = g]
<1>1. r \in Range(line) => Want(r) # None
  BY DEF TypeOK
<1>2. CASE TakeWeights(r)
  BY <1>1, <1>2 DEF TakeWeights, Take, Waiting, Goto, Labels
<1>3. CASE InferSession(r)
  BY <1>1, <1>3 DEF InferSession, Take, Waiting, Goto, Labels, Guards
<1>4. CASE ReadPatched(r)
  BY <1>1, <1>4 DEF ReadPatched, Take, Waiting, Goto, Labels, Guards
<1>5. CASE EditGlobal(r)
  BY <1>1, <1>5 DEF EditGlobal, Take, Waiting, Goto, Done, Labels
<1>6. CASE ApplySession(r)
  BY <1>1, <1>6 DEF ApplySession, Take, Waiting, Goto, Done, Labels
<1>7. CASE CloneBase(r)
  BY <1>1, <1>7 DEF CloneBase, Take, Waiting, Goto, Labels
<1>8. CASE CommitSession(r)
  BY <1>1, <1>8 DEF CommitSession, Take, Waiting, Goto, Done, Labels
<1>9. CASE RemoveSession(r)
  BY <1>1, <1>9 DEF RemoveSession, Take, Waiting, Goto, Done, Labels
<1>10. CASE InsertBegins(r)
  BY <1>1, <1>10 DEF InsertBegins, Take, Waiting, Goto, Labels
<1>11. CASE InsertGlobal(r)
  BY <1>1, <1>11 DEF InsertGlobal, Take, Waiting, Goto, Done, Labels
<1>12. CASE Describe(r)
  BY <1>1, <1>12 DEF Describe, Take, Waiting, Goto, Labels
<1> QED
  BY <1>2, <1>3, <1>4, <1>5, <1>6, <1>7, <1>8, <1>9, <1>10, <1>11, <1>12 DEF Takes

\* A step that needs no lock: it was not waiting, and keeps its guards or drops them.
LEMMA GoesOn ==
  ASSUME TypeOK, NEW r \in Requests, Goes(r)
  PROVE  /\ Want(r) = None /\ line' = line
         /\ \E x \in Labels : pc' = [pc EXCEPT ![r] = x]
         /\ holds' = holds \/ holds' = [holds EXCEPT ![r] = {}]
<1>1. CASE Arrive(r)
  BY <1>1 DEF Arrive, Entry, Goto, Labels, Want, lockVars
<1>2. CASE EnsureCell(r)
  BY <1>2 DEF EnsureCell, Goto, Labels, Want, lockVars
<1>3. CASE LockInit(r)
  BY <1>3 DEF LockInit, Goto, Labels, Want, lockVars
<1>4. CASE Load(r)
  BY <1>4 DEF Load, Goto, Labels, Want, lockVars
<1>5. CASE LoadFails(r)
  BY <1>5 DEF LoadFails, Goto, Labels, Want, lockVars
<1>6. CASE EndPass(r)
  BY <1>6 DEF EndPass, Done, Goto, Labels, Want, lockVars
<1>7. CASE InsertComputed(r)
  BY <1>7 DEF InsertComputed, Done, Goto, Labels, Want, lockVars
<1>8. CASE LookUp(r)
  BY <1>8 DEF LookUp, Done, Goto, Labels, Want, lockVars
<1>9. CASE Put(r)
  BY <1>9 DEF Put, Done, Goto, Labels, Want, lockVars
<1> QED
  BY <1>1, <1>2, <1>3, <1>4, <1>5, <1>6, <1>7, <1>8, <1>9 DEF Goes

LineOK == line \in Seq(Requests) /\ IsInjective(line) /\ \A r \in Range(line) : Want(r) # None

\* What a request waits for depends on where it is, and on nothing else that changes.
LEMMA WantKept == ASSUME NEW q, pc'[q] = pc[q] PROVE Want(q)' = Want(q)
BY DEF Want

\* The places and the guards of the others, and the queue, in a step of one request.
LEMMA StepLocks ==
  ASSUME TypeOK, NEW r \in Requests, Arrive(r) \/ Step(r) \/ TimesOut(r)
  PROVE  /\ pc' \in [Requests -> Labels] /\ holds' \in [Requests -> SUBSET Guard]
         /\ \A q \in Requests \ {r} : pc'[q] = pc[q] /\ holds'[q] = holds[q]
         /\ LineOK'
<1>0. /\ pc \in [Requests -> Labels] /\ holds \in [Requests -> SUBSET Guard]
      /\ line \in Seq(Requests) /\ IsInjective(line) /\ \A q \in Range(line) : Want(q) # None
      /\ Range(line) \subseteq Requests
  BY LenProperties DEF TypeOK, Range
<1>1. Want(r) # None => Want(r) \in Guard
  BY DEF Want, Guard
<1>2. CASE Takes(r)
  <2>1. PICK x \in Labels : pc' = [pc EXCEPT ![r] = x]
    BY <1>2, TakesLock
  <2>2. PICK g : g \subseteq holds[r] \cup {Want(r)} /\ holds' = [holds EXCEPT ![r] = g]
    BY <1>2, TakesLock
  <2>3. Want(r) \in Guard /\ r \in Range(line) /\ line' = RemoveFirst(line, r)
    BY <1>1, <1>2, TakesLock DEF Waiting
  <2>4. g \in SUBSET Guard
    BY <1>0, <2>2, <2>3
  <2>5. line' \in Seq(Requests) /\ IsInjective(line') /\ Range(line') = Range(line) \ {r}
    BY <1>0, <2>3, RemoveFirstOne
  <2>6. \A q \in Range(line') : Want(q)' # None
    BY <1>0, <2>1, <2>5, WantKept
  <2>7. LineOK'
    BY <2>5, <2>6 DEF LineOK
  <2> QED
    BY <1>0, <2>1, <2>2, <2>4, <2>7
<1>3. CASE Goes(r)
  <2>1. PICK x \in Labels : pc' = [pc EXCEPT ![r] = x]
    BY <1>3, GoesOn
  <2>2. Want(r) = None /\ line' = line /\ (holds' = holds \/ holds' = [holds EXCEPT ![r] = {}])
    BY <1>3, GoesOn
  <2>3. \A q \in Range(line') : Want(q)' # None
    BY <1>0, <2>1, <2>2, WantKept
  <2>4. LineOK'
    BY <1>0, <2>2, <2>3 DEF LineOK
  <2> QED
    BY <1>0, <2>1, <2>2, <2>4
<1>4. CASE Ask(r)
  <2>1. Want(r) # None /\ r \notin Range(line) /\ line' = Append(line, r) /\ pc' = pc /\ holds' = holds
    BY <1>4 DEF Ask, Waiting
  <2>2. /\ line' \in Seq(Requests) /\ Len(line') = Len(line) + 1
        /\ \A i \in 1 .. Len(line) : line'[i] = line[i]
        /\ line'[Len(line) + 1] = r
    BY <1>0, <2>1, AppendProperties
  <2>3. DOMAIN line = 1 .. Len(line) /\ DOMAIN line' = 1 .. (Len(line) + 1) /\ Len(line) \in Nat
    BY <1>0, <2>2, LenProperties
  <2>4. Range(line') = Range(line) \cup {r}
    BY <2>2, <2>3 DEF Range
  <2>5. IsInjective(line')
    BY <1>0, <2>1, <2>2, <2>3 DEF IsInjective, Range
  <2>6. \A q \in Range(line') : Want(q)' # None
    BY <1>0, <2>1, <2>4, WantKept
  <2>7. LineOK'
    BY <2>2, <2>5, <2>6 DEF LineOK
  <2> QED
    BY <1>0, <2>1, <2>7
<1>5. CASE TimesOut(r)
  <2>1. pc' = pc /\ line' = line /\ holds' = holds
    BY <1>5 DEF TimesOut, lockVars
  <2>2. LineOK'
    BY <1>0, <2>1, WantKept DEF LineOK
  <2> QED
    BY <1>0, <2>1, <2>2
<1> QED
  BY <1>2, <1>3, <1>4, <1>5, StepKinds

-----------------------------------------------------------------------------
(* The requests: their data *)

WeightsOK == loaded \in BOOLEAN /\ loader \in Requests \cup {None} /\ loads \in Nat

Seen == Descriptions \cup Outputs \cup [overlay: Overlays, stale: BOOLEAN] \cup {None}

DataOK ==
  /\ global \in Overlays
  /\ session \in [Sessions -> Overlays \cup {None}]
  /\ expired \subseteq Sessions
  /\ clone \in [Requests -> Overlays \cup {None}]
  /\ cached \in [{CacheKey(r) : r \in Requests} -> Descriptions \cup {None}]
  /\ l2 \in [Keys -> Outputs \cup {None}]
  /\ seen \in [Requests -> Seen]

AnswersOK ==
  /\ reply \in [Requests -> {None, "ok", "error", "timeout"}]
  /\ before \in [Requests -> SUBSET Requests]

\* The type invariant, by its parts.
LEMMA TypeParts ==
  TypeOK <=> /\ pc \in [Requests -> Labels] /\ holds \in [Requests -> SUBSET Guard]
             /\ LineOK /\ WeightsOK /\ DataOK /\ AnswersOK
BY DEF TypeOK, LineOK, WeightsOK, DataOK, AnswersOK, Seen

\* An answer is given once, and the first one counts.
LEMMA AnswerType ==
  ASSUME AnswersOK, NEW r \in Requests, NEW what \in {"ok", "error", "timeout"}, Answer(r, what)
  PROVE  reply' \in [Requests -> {None, "ok", "error", "timeout"}]
BY DEF Answer, AnswersOK

\* What a step does to the replies: at most one answer, to the request itself.
LEMMA StepReply ==
  ASSUME NEW r \in Requests, Arrive(r) \/ Step(r) \/ TimesOut(r)
  PROVE  reply' = reply \/ \E what \in {"ok", "error", "timeout"} : Answer(r, what)
<1>1. CASE Takes(r)
  BY <1>1 DEF Takes, TakeWeights, InferSession, ReadPatched, EditGlobal, ApplySession, CloneBase,
     CommitSession, RemoveSession, InsertBegins, InsertGlobal, Describe, Done
<1>2. CASE Goes(r)
  BY <1>2 DEF Goes, Arrive, EnsureCell, LockInit, Load, LoadFails, EndPass, InsertComputed, LookUp, Put, Done
<1>3. CASE Ask(r)
  BY <1>3 DEF Ask
<1>4. CASE TimesOut(r)
  BY <1>4 DEF TimesOut
<1> QED
  BY <1>1, <1>2, <1>3, <1>4, StepKinds

\* Only Arrive looks at what is in force.
LEMMA StepBefore ==
  ASSUME NEW r \in Requests, Arrive(r) \/ Step(r) \/ TimesOut(r)
  PROVE  before' = before \/ Arrive(r)
<1>1. CASE Takes(r)
  BY <1>1 DEF Takes, TakeWeights, InferSession, ReadPatched, EditGlobal, ApplySession, CloneBase,
     CommitSession, RemoveSession, InsertBegins, InsertGlobal, Describe
<1>2. CASE Goes(r)
  BY <1>2 DEF Goes, EnsureCell, LockInit, Load, LoadFails, EndPass, InsertComputed, LookUp, Put
<1>3. CASE Ask(r)
  BY <1>3 DEF Ask
<1>4. CASE TimesOut(r)
  BY <1>4 DEF TimesOut
<1> QED
  BY <1>1, <1>2, <1>3, <1>4, StepKinds

\* The overlay of a client is an overlay.
LEMMA OverlayType ==
  ASSUME DataOK, NEW s \in Sessions \cup {None}
  PROVE  Overlay(s) \in Overlays /\ Edits(Overlay(s)) \subseteq Requests
<1>1. Empty \in Overlays
  BY DEF Overlays, Empty
<1>2. Overlay(s) \in Overlays
  BY <1>1 DEF DataOK, Overlay
<1> QED
  BY <1>2 DEF Edits, Overlays

\* The replies and what was in force keep their types.
LEMMA AnswersNext ==
  ASSUME TypeOK, NEW r \in Requests, Arrive(r) \/ Step(r) \/ TimesOut(r)
  PROVE  AnswersOK'
<1>1. AnswersOK /\ DataOK
  BY TypeParts
<1>2. reply' \in [Requests -> {None, "ok", "error", "timeout"}]
  BY <1>1, StepReply, AnswerType DEF AnswersOK
<1>3. CASE Arrive(r)
  <2>1. Sid[r] \in Sessions \cup {None}
    BY DEF Sessions
  <2>2. {e \in Edits(Overlay(Sid[r])) : reply[e] = "ok"} \in SUBSET Requests
    BY <1>1, <2>1, OverlayType
  <2> QED
    BY <1>1, <1>2, <1>3, <2>2 DEF Arrive, AnswersOK
<1>4. CASE before' = before
  BY <1>1, <1>2, <1>4 DEF AnswersOK
<1> QED
  BY <1>3, <1>4, StepBefore

\* The weights cell keeps its type.
LEMMA WeightsNext ==
  ASSUME TypeOK, NEW r \in Requests, Arrive(r) \/ Step(r) \/ TimesOut(r)
  PROVE  WeightsOK'
<1>0. WeightsOK
  BY TypeParts
<1>1. CASE weightVars' = weightVars
  BY <1>0, <1>1 DEF WeightsOK, weightVars
<1>2. CASE LockInit(r)
  BY <1>0, <1>2 DEF LockInit, WeightsOK
<1>3. CASE Load(r)
  BY <1>0, <1>3 DEF Load, WeightsOK
<1>4. CASE LoadFails(r)
  BY <1>0, <1>4 DEF LoadFails, WeightsOK
<1>5. CASE Takes(r)
  BY <1>1, <1>5 DEF Takes, TakeWeights, InferSession, ReadPatched, EditGlobal, ApplySession, CloneBase,
     CommitSession, RemoveSession, InsertBegins, InsertGlobal, Describe
<1>6. CASE Goes(r)
  BY <1>1, <1>2, <1>3, <1>4, <1>6 DEF Goes, Arrive, EnsureCell, EndPass, InsertComputed, LookUp, Put
<1>7. CASE Ask(r) \/ TimesOut(r)
  BY <1>1, <1>7 DEF Ask, TimesOut
<1> QED
  BY <1>5, <1>6, <1>7, StepKinds

\* What the place of a request says about its kind and its session.
LEMMA PlaceFacts ==
  ASSUME PlaceInv, NEW r \in Requests
  PROVE  /\ pc[r] = "sessions" => Sid[r] \in Sessions
         /\ pc[r] = "clone" => Kind[r] \in {"apply", "insert"} /\ Sid[r] \in Sessions
         /\ pc[r] = "commit" /\ Kind[r] = "apply" => Sid[r] \in Sessions
         /\ pc[r] = "commit" /\ Kind[r] = "insert" => Sid[r] = None
         /\ pc[r] = "residuals" => Kind[r] = "insert"
         /\ pc[r] = "patched" /\ Kind[r] \in {"apply", "insert", "remove"} => Sid[r] = None
         /\ pc[r] = "pass" => Kind[r] \in {"infer", "generate", "walk", "q8k"}
         /\ pc[r] \in {"lookup", "put"} => Kind[r] = "describe"
BY DEF PlaceInv, Places, LoadPlaces, Sessions

\* Overlays, caches and readings keep their types.
LEMMA DataNext ==
  ASSUME TypeOK, ServerInv, NEW r \in Requests, Arrive(r) \/ Step(r) \/ TimesOut(r)
  PROVE  DataOK'
<1>0. DataOK /\ Empty \in Overlays /\ PlaceInv
  BY TypeParts DEF Overlays, Empty, ServerInv
<1>a. /\ global \in Overlays /\ session \in [Sessions -> Overlays \cup {None}] /\ expired \subseteq Sessions
      /\ clone \in [Requests -> Overlays \cup {None}] /\ l2 \in [Keys -> Outputs \cup {None}]
      /\ seen \in [Requests -> Seen]
      /\ cached \in [{CacheKey(q) : q \in Requests} -> Descriptions \cup {None}]
  BY <1>0 DEF DataOK
<1>b. None \notin Overlays
  BY NoneAssumption DEF Overlays
<1>1. CASE dataVars' = dataVars
  BY <1>0, <1>1 DEF DataOK, dataVars
<1>2. CASE InferSession(r)
  <2>1. Sid[r] \in Sessions
    BY <1>0, <1>2, PlaceFacts DEF InferSession
  <2>2. session[Sid[r]] # None => [overlay |-> session[Sid[r]], stale |-> Sid[r] \in expired] \in Seen
    BY <1>a, <2>1 DEF Seen
  <2>3. seen' \in [Requests -> Seen]
    BY <1>a, <1>2, <2>2 DEF InferSession, Reads
  <2> QED
    BY <1>a, <1>2, <2>3 DEF InferSession, DataOK
<1>3. CASE ReadPatched(r)
  <2>0. Vectors(global) \in Outputs /\ HitsKey(global) \in Keys
    BY <1>a, OverlayOps
  <2>1. Output \in Outputs
    BY <1>a, <2>0 DEF Output
  <2>2. Output \in Seen /\ [overlay |-> global, stale |-> FALSE] \in Seen
    BY <1>a, <2>1 DEF Seen
  <2>3. seen' \in [Requests -> Seen] /\ l2' \in [Keys -> Outputs \cup {None}]
    BY <1>a, <1>3, <2>0, <2>1, <2>2 DEF ReadPatched, Reads
  <2> QED
    BY <1>a, <1>3, <2>3 DEF ReadPatched, DataOK
<1>4. CASE EditGlobal(r)
  <2>1. Patched(global, r) \in Overlays
    BY <1>a, OverlayOps
  <2>2. Without(global, Removes[r]) \in Overlays
    BY <1>a, OverlayOps
  <2>3. global' \in Overlays
    BY <1>a, <1>4, <2>1, <2>2 DEF EditGlobal
  <2> QED
    BY <1>a, <1>4, <2>3 DEF EditGlobal, DataOK
<1>5. CASE ApplySession(r)
  <2>1. Sid[r] \in Sessions
    BY <1>0, <1>5, PlaceFacts DEF ApplySession
  <2>2. session[Sid[r]] # None => Patched(session[Sid[r]], r) \in Overlays
    BY <1>a, <2>1, OverlayOps
  <2>3. session' \in [Sessions -> Overlays \cup {None}] /\ expired' \subseteq Sessions
    BY <1>a, <1>5, <2>2 DEF ApplySession, Touch
  <2> QED
    BY <1>a, <1>5, <2>3 DEF ApplySession, DataOK
<1>6. CASE CloneBase(r)
  <2>1. Fresh(global) \in Overlays
    BY <1>a, OverlayOps
  <2>2. session' \in [Sessions -> Overlays \cup {None}] /\ clone' \in [Requests -> Overlays \cup {None}]
    BY <1>a, <1>6, <2>1 DEF CloneBase
  <2> QED
    BY <1>a, <1>6, <2>2 DEF CloneBase, DataOK
<1>7. CASE CommitSession(r)
  <2>1. Sid[r] \in Sessions
    BY <1>0, <1>7, PlaceFacts DEF CommitSession
  <2>2. clone[r] \in Overlays
    BY <1>a, <1>7 DEF CommitSession, ServerInv, OverlayInv
  <2> DEFINE o == IF session[Sid[r]] = None THEN clone[r] ELSE session[Sid[r]]
  <2>3. o \in Overlays
    BY <1>a, <2>1, <2>2
  <2>4. Patched(o, r) \in Overlays
    BY <2>3, OverlayOps
  <2>5. session' = [session EXCEPT ![Sid[r]] = Patched(o, r)] /\ expired' \subseteq expired
    BY <1>7 DEF CommitSession, Touch
  <2>6. session' \in [Sessions -> Overlays \cup {None}]
    BY <1>a, <2>4, <2>5
  <2> QED
    BY <1>a, <1>7, <2>5, <2>6 DEF CommitSession, DataOK
<1>8. CASE RemoveSession(r)
  <2>1. Sid[r] \in Sessions
    BY <1>0, <1>8, PlaceFacts DEF RemoveSession
  <2>2. ASSUME session[Sid[r]] # None PROVE Without(session[Sid[r]], Removes[r]) \in Overlays
    <3>1. session[Sid[r]] \in Overlays
      BY <1>a, <2>1, <2>2
    <3> QED
      BY <3>1, OverlayOps
  <2>3. session' \in [Sessions -> Overlays \cup {None}]
    BY <1>a, <1>8, <2>2 DEF RemoveSession
  <2> QED
    BY <1>a, <1>8, <2>3 DEF RemoveSession, DataOK
<1>9. CASE InsertBegins(r)
  BY <1>a, <1>9 DEF InsertBegins, DataOK
<1>10. CASE InsertComputed(r)
  <2>1. Sid[r] # None => session[Sid[r]] \in Overlays
    <3>1. Sid[r] # None => Sid[r] \in Sessions
      BY DEF Sessions
    <3>2. Sid[r] # None => session[Sid[r]] # None
      BY <1>0, <1>10, PlaceFacts DEF InsertComputed, ServerInv, InsertHolds
    <3> QED
      BY <1>a, <3>1, <3>2
  <2>2. session' \in [Sessions -> Overlays \cup {None}]
    <3>1. Sid[r] # None => Inserted(session[Sid[r]], r) \in Overlays
      BY <2>1, OverlayOps
    <3> QED
      BY <1>a, <1>10, <3>1 DEF InsertComputed
  <2> QED
    BY <1>a, <1>10, <2>2 DEF InsertComputed, DataOK
<1>11. CASE InsertGlobal(r)
  BY <1>a, <1>11, OverlayOps DEF InsertGlobal, DataOK
<1>12. CASE LookUp(r)
  <2>1. cached[CacheKey(r)] \in Descriptions \cup {None}
    BY <1>a
  <2>2. seen' \in [Requests -> Seen]
    BY <1>a, <1>12, <2>1 DEF LookUp, Reads, Seen
  <2> QED
    BY <1>a, <1>12, <2>2 DEF LookUp, DataOK
<1>13. CASE Describe(r)
  <2>1. [overlay |-> global, score |-> MinScore[r]] \in Seen
    BY <1>a DEF Descriptions, Seen
  <2>2. seen' \in [Requests -> Seen]
    BY <1>a, <1>13, <2>1 DEF Describe, Reads
  <2> QED
    BY <1>a, <1>13, <2>2 DEF Describe, DataOK
<1>14. CASE Put(r)
  <2>1. seen[r] \in Descriptions
    BY <1>14 DEF Put, ServerInv, PutInv
  <2>2. cached' \in [{CacheKey(q) : q \in Requests} -> Descriptions \cup {None}]
    BY <1>a, <1>14, <2>1 DEF Put
  <2> QED
    BY <1>a, <1>14, <2>2 DEF Put, DataOK
<1>15. CASE Ask(r) \/ TimesOut(r)
  BY <1>1, <1>15 DEF Ask, TimesOut
<1>16. CASE Goes(r)
  BY <1>1, <1>10, <1>12, <1>14, <1>16 DEF Goes, Arrive, EnsureCell, LockInit, Load, LoadFails, EndPass
<1>17. CASE TakeWeights(r)
  BY <1>1, <1>17 DEF TakeWeights
<1>18. CASE Takes(r)
  BY <1>2, <1>3, <1>4, <1>5, <1>6, <1>7, <1>8, <1>9, <1>11, <1>13, <1>17, <1>18 DEF Takes
<1> QED
  BY <1>15, <1>16, <1>18, StepKinds

-----------------------------------------------------------------------------
(* The requests: places, weights and guards *)

\* A handler goes from place to place of its kind.
LEMMA PlaceNext ==
  ASSUME TypeOK, ServerInv, NEW r \in Requests, Arrive(r) \/ Step(r) \/ TimesOut(r)
  PROVE  PlaceInv'
<1>0. pc[r] \in Places(r) /\ PlaceInv /\ pc \in [Requests -> Labels]
  BY DEF ServerInv, PlaceInv, TypeOK
<1>1. \A q \in Requests : Places(q)' = Places(q)
  BY DEF Places
<1>2. SUFFICES pc'[r] \in Places(r)
  BY <1>0, <1>1, StepLocks DEF PlaceInv
<1>3. CASE pc' = pc
  BY <1>0, <1>3
<1>4. CASE Arrive(r)
  BY <1>0, <1>4 DEF Arrive, Goto, Entry, Places, LoadPlaces
<1>5. CASE EnsureCell(r) \/ LockInit(r) \/ Load(r)
  BY <1>0, <1>5 DEF EnsureCell, LockInit, Load, Goto, Places, LoadPlaces
<1>6. CASE LoadFails(r)
  BY <1>0, <1>6 DEF LoadFails, Goto, Places, LoadPlaces
<1>7. CASE EndPass(r) \/ LookUp(r) \/ Put(r)
  BY <1>0, <1>7 DEF EndPass, LookUp, Put, Done, Goto, Places, LoadPlaces
<1>8. CASE InsertComputed(r)
  BY <1>0, <1>8 DEF InsertComputed, Done, Goto, Places, LoadPlaces
<1>9. CASE TakeWeights(r)
  BY <1>0, <1>9 DEF TakeWeights, Goto, Places, LoadPlaces
<1>10. CASE InferSession(r)
  BY <1>0, <1>10 DEF InferSession, Goto, Places, LoadPlaces
<1>11. CASE ReadPatched(r)
  BY <1>0, <1>11 DEF ReadPatched, Goto, Places, LoadPlaces
<1>12. CASE EditGlobal(r) \/ ApplySession(r) \/ CommitSession(r) \/ RemoveSession(r)
  BY <1>0, <1>12 DEF EditGlobal, ApplySession, CommitSession, RemoveSession, Done, Goto, Places, LoadPlaces
<1>13. CASE CloneBase(r)
  BY <1>0, <1>13 DEF CloneBase, Goto, Places, LoadPlaces
<1>14. CASE InsertBegins(r) \/ InsertGlobal(r) \/ Describe(r)
  BY <1>0, <1>14 DEF InsertBegins, InsertGlobal, Describe, Done, Goto, Places, LoadPlaces
<1>15. CASE Ask(r) \/ TimesOut(r)
  BY <1>3, <1>15 DEF Ask, TimesOut
<1> QED
  BY <1>4, <1>5, <1>6, <1>7, <1>8, <1>9, <1>10, <1>11, <1>12, <1>13, <1>14, <1>15 DEF Step

\* One request loads at a time, and nobody loads what is there.
LEMMA LoadNext ==
  ASSUME TypeOK, ServerInv, NEW r \in Requests, Arrive(r) \/ Step(r) \/ TimesOut(r)
  PROVE  LoadInv'
<1>0. /\ LoadInv /\ None \notin Requests /\ pc \in [Requests -> Labels]
      /\ loaded \in BOOLEAN /\ loader \in Requests \cup {None}
      /\ \A q \in Requests \ {r} : pc'[q] = pc[q]
  BY NoneAssumption, StepLocks DEF ServerInv, TypeOK
<1>1. CASE weightVars' = weightVars /\ (pc'[r] = "loading" <=> pc[r] = "loading")
  BY <1>0, <1>1 DEF LoadInv, weightVars
<1>2. CASE LockInit(r)
  <2>1. CASE loaded
    BY <1>0, <1>2, <2>1 DEF LockInit, Goto, LoadInv
  <2>2. CASE ~ loaded
    BY <1>0, <1>2, <2>2 DEF LockInit, Goto, LoadInv
  <2> QED
    BY <2>1, <2>2
<1>3. CASE Load(r)
  BY <1>0, <1>3 DEF Load, Goto, LoadInv
<1>4. CASE LoadFails(r)
  <2>1. pc'[r] # "loading"
    BY <1>0, <1>4 DEF LoadFails, Goto
  <2> QED
    BY <1>0, <1>4, <2>1 DEF LoadFails, LoadInv
<1>5. CASE Arrive(r) \/ EnsureCell(r)
  <2>1. pc'[r] # "loading" /\ pc[r] # "loading" /\ weightVars' = weightVars
    BY <1>0, <1>5 DEF Arrive, EnsureCell, Goto, Entry
  <2> QED
    BY <1>1, <2>1
<1>6. CASE EndPass(r) \/ InsertComputed(r) \/ LookUp(r) \/ Put(r)
  <2>1. pc'[r] # "loading" /\ pc[r] # "loading" /\ weightVars' = weightVars
    BY <1>0, <1>6 DEF EndPass, InsertComputed, LookUp, Put, Goto, Done
  <2> QED
    BY <1>1, <2>1
<1>7. CASE TakeWeights(r) \/ InferSession(r) \/ ReadPatched(r) \/ EditGlobal(r) \/ ApplySession(r)
  <2>1. pc'[r] # "loading" /\ pc[r] # "loading" /\ weightVars' = weightVars
    BY <1>0, <1>7 DEF TakeWeights, InferSession, ReadPatched, EditGlobal, ApplySession, Goto, Done
  <2> QED
    BY <1>1, <2>1
<1>8. CASE CloneBase(r) \/ CommitSession(r) \/ RemoveSession(r) \/ InsertBegins(r) \/ InsertGlobal(r) \/ Describe(r)
  <2>1. pc'[r] # "loading" /\ pc[r] # "loading" /\ weightVars' = weightVars
    BY <1>0, <1>8 DEF CloneBase, CommitSession, RemoveSession, InsertBegins, InsertGlobal, Describe, Goto, Done
  <2> QED
    BY <1>1, <2>1
<1>9. CASE Ask(r) \/ TimesOut(r)
  BY <1>1, <1>9 DEF Ask, TimesOut
<1> QED
  BY <1>2, <1>3, <1>4, <1>5, <1>6, <1>7, <1>8, <1>9, StepKinds DEF Takes, Goes

\* Who takes a lock shares it with all who have it.
LEMMA TakesAlone ==
  ASSUME TypeOK, NEW r \in Requests, Takes(r), NEW q \in Requests, NEW g \in holds[q], g[1] = Want(r)[1]
  PROVE  g[2] = "r" /\ Want(r)[2] = "r"
<1>1. q \notin Blockers(r)
  BY TakesLock
<1> QED
  BY <1>1 DEF Blockers, Compatible

\* Guards for writing stay exclusive.
LEMMA ExcludeNext ==
  ASSUME TypeOK, GuardsExclude, NEW r \in Requests, Arrive(r) \/ Step(r) \/ TimesOut(r)
  PROVE  GuardsExclude'
<1>0. holds \in [Requests -> SUBSET Guard] /\ \A q \in Requests \ {r} : holds'[q] = holds[q]
  BY StepLocks DEF TypeOK
<1>1. CASE Takes(r)
  <2>1. PICK g : g \subseteq holds[r] \cup {Want(r)} /\ holds' = [holds EXCEPT ![r] = g]
    BY <1>1, TakesLock
  <2>2. ASSUME NEW q \in Requests \ {r}, NEW h \in holds[q], NEW k \in g, h[1] = k[1]
        PROVE  h[2] = "r" /\ k[2] = "r"
    <3>1. CASE k \in holds[r]
      BY <2>2, <3>1 DEF GuardsExclude
    <3>2. CASE k = Want(r)
      BY <1>1, <2>2, <3>2, TakesAlone
    <3> QED
      BY <2>1, <3>1, <3>2
  <2>3. holds'[r] = g
    BY <1>0, <2>1
  <2> QED
    BY <1>0, <2>2, <2>3 DEF GuardsExclude
<1>2. CASE ~ Takes(r)
  <2>1. holds' = holds \/ holds' = [holds EXCEPT ![r] = {}]
    BY <1>2, StepKinds, GoesOn DEF Ask, TimesOut, lockVars
  <2>2. \A q \in Requests : holds'[q] \subseteq holds[q]
    BY <1>0, <2>1
  <2> QED
    BY <2>2 DEF GuardsExclude
<1> QED
  BY <1>1, <1>2

-----------------------------------------------------------------------------
(* The requests: overlays *)

\* The lock of the session map is with a writer alone.
LEMMA SessionLocked ==
  ASSUME TypeOK, ServerInv, NEW r \in Requests, Arrive(r) \/ Step(r) \/ TimesOut(r),
         session' # session, NEW q \in Requests \ {r}
  PROVE  <<"sessions", "w">> \notin holds[q]
<1>0. PlaceInv /\ GuardsExclude /\ InsertHolds(r)
  BY DEF ServerInv
<1>1. CASE Takes(r) /\ Want(r) = <<"sessions", "w">>
  BY <1>1, TakesAlone
<1>2. CASE <<"sessions", "w">> \in holds[r]
  BY <1>0, <1>2 DEF GuardsExclude
<1>3. CASE ApplySession(r) \/ CommitSession(r) \/ RemoveSession(r)
  <2>1. Want(r) = <<"sessions", "w">>
    BY <1>0, <1>3, PlaceFacts DEF ApplySession, CommitSession, RemoveSession, Want, Sessions
  <2> QED
    BY <1>1, <1>3, <2>1 DEF Takes
<1>4. CASE CloneBase(r)
  <2>1. Kind[r] = "insert" /\ Sid[r] # None /\ pc[r] = "clone"
    BY <1>0, <1>4, PlaceFacts DEF CloneBase, Sessions
  <2> QED
    BY <1>0, <1>2, <2>1 DEF InsertHolds
<1>5. CASE InsertComputed(r)
  <2>1. Kind[r] = "insert" /\ Sid[r] # None /\ pc[r] = "residuals"
    BY <1>0, <1>5, PlaceFacts DEF InsertComputed
  <2> QED
    BY <1>0, <1>2, <2>1 DEF InsertHolds
<1>6. CASE Goes(r)
  BY <1>5, <1>6 DEF Goes, Arrive, EnsureCell, LockInit, Load, LoadFails, EndPass, LookUp, Put, dataVars
<1>7. CASE Takes(r)
  BY <1>3, <1>4, <1>7 DEF Takes, TakeWeights, InferSession, ReadPatched, EditGlobal, InsertBegins,
     InsertGlobal, Describe, dataVars
<1> QED
  BY <1>6, <1>7, StepKinds DEF Ask, TimesOut, dataVars

\* So is the one of the shared overlay.
LEMMA GlobalLocked ==
  ASSUME TypeOK, ServerInv, NEW r \in Requests, Arrive(r) \/ Step(r) \/ TimesOut(r),
         global' # global, NEW q \in Requests \ {r}
  PROVE  <<"patched", "r">> \notin holds[q]
<1>0. PlaceInv
  BY DEF ServerInv
<1>1. CASE EditGlobal(r) \/ InsertGlobal(r)
  <2>1. Want(r) = <<"patched", "w">>
    BY <1>0, <1>1, PlaceFacts DEF EditGlobal, InsertGlobal, Want, Sessions
  <2>2. Takes(r)
    BY <1>1 DEF Takes
  <2> QED
    BY <2>1, <2>2, TakesAlone
<1>2. CASE Goes(r)
  BY <1>2 DEF Goes, Arrive, EnsureCell, LockInit, Load, LoadFails, EndPass, InsertComputed, LookUp, Put, dataVars
<1>3. CASE Takes(r)
  BY <1>1, <1>3 DEF Takes, TakeWeights, InferSession, ReadPatched, ApplySession, CloneBase,
     CommitSession, RemoveSession, InsertBegins, Describe, dataVars
<1> QED
  BY <1>2, <1>3, StepKinds DEF Ask, TimesOut, dataVars

\* An insert into a session keeps the map to its end.
LEMMA InsertHoldsNext ==
  ASSUME TypeOK, ServerInv, NEW r \in Requests, Arrive(r) \/ Step(r) \/ TimesOut(r), NEW q \in Requests
  PROVE  InsertHolds(q)'
<1>0. /\ PlaceInv /\ InsertHolds(r) /\ InsertHolds(q) /\ pc[r] \in Labels /\ DataOK
      /\ \A x \in Requests \ {r} : pc'[x] = pc[x] /\ holds'[x] = holds[x]
      /\ pc \in [Requests -> Labels] /\ holds \in [Requests -> SUBSET Guard]
  BY StepLocks, TypeParts DEF ServerInv
<1>1. CASE q # r
  BY <1>0, <1>1, SessionLocked DEF InsertHolds
<1>2. CASE q = r /\ ~ (Kind[r] = "insert" /\ Sid[r] # None)
  BY <1>2 DEF InsertHolds
<1>3. CASE q = r /\ Kind[r] = "insert" /\ Sid[r] # None
  <2>0. pc[r] \in LoadPlaces \cup {"idle", "done", "residuals", "sessions", "clone"} /\ Sid[r] \in Sessions
    BY <1>0, <1>3 DEF PlaceInv, Places, Sessions
  <2>1. CASE Arrive(r)
    BY <1>0, <1>3, <2>1 DEF Arrive, Entry, Goto, InsertHolds, LoadPlaces
  <2>2. CASE EnsureCell(r) \/ LockInit(r) \/ Load(r) \/ LoadFails(r)
    BY <1>0, <1>3, <2>2 DEF EnsureCell, LockInit, Load, LoadFails, Goto, InsertHolds, LoadPlaces, dataVars, lockVars
  <2>3. CASE TakeWeights(r)
    BY <1>0, <1>3, <2>3 DEF TakeWeights, Take, Goto, InsertHolds, LoadPlaces, dataVars
  <2>4. CASE CloneBase(r)
    <3>1. Fresh(global) # None
      <4>1. Fresh(global) \in Overlays
        BY <1>0, OverlayOps DEF DataOK
      <4> QED
        BY <4>1, NoneAssumption DEF Overlays
    <3>2. session' = [session EXCEPT ![Sid[r]] = Fresh(global)] /\ pc' = [pc EXCEPT ![r] = "cell"]
      BY <1>3, <2>4 DEF CloneBase, Goto
    <3>3. session'[Sid[r]] # None /\ pc'[r] = "cell"
      BY <1>0, <2>0, <3>1, <3>2 DEF DataOK
    <3> QED
      BY <1>0, <1>3, <2>4, <3>3 DEF CloneBase, Take, InsertHolds
  <2>5. CASE InsertBegins(r)
    <3>1. pc[r] = "sessions" /\ Want(r) = <<"sessions", "w">> /\ session' = session
      BY <1>3, <2>0, <2>5 DEF InsertBegins, LoadPlaces, Want
    <3> QED
      BY <1>0, <1>3, <2>5, <3>1 DEF InsertBegins, Take, Goto, InsertHolds, LoadPlaces
  <2>6. CASE InsertComputed(r)
    BY <1>0, <1>3, <2>6 DEF InsertComputed, Done, Goto, InsertHolds, LoadPlaces
  <2>7. CASE Ask(r) \/ TimesOut(r)
    BY <1>0, <1>3, <2>7 DEF Ask, TimesOut, InsertHolds, dataVars, lockVars
  <2>8. CASE Goes(r)
    BY <1>3, <2>0, <2>1, <2>2, <2>6, <2>8 DEF Goes, EndPass, LookUp, Put, LoadPlaces
  <2>9. CASE Takes(r)
    BY <1>3, <2>0, <2>3, <2>4, <2>5, <2>9 DEF Takes, InferSession, ReadPatched, EditGlobal, ApplySession,
       CommitSession, RemoveSession, InsertGlobal, Describe, LoadPlaces
  <2> QED
    BY <1>3, <2>7, <2>8, <2>9, StepKinds
<1> QED
  BY <1>1, <1>2, <1>3

\* What a step may do to the overlay of its client, old, to make it new.
Effect(r, old, new) ==
  \/ new = old
  \/ Kind[r] = "apply" /\ new.patches = old.patches \cup {r} /\ new.direct = old.direct
  \/ Kind[r] = "remove" /\ new.patches = old.patches \ {Removes[r]} /\ new.direct = {}
     /\ reply'[r] = "ok"
  \/ Kind[r] = "insert" /\ new.patches = old.patches /\ new.direct \subseteq old.direct \cup {r}

\* Every client has an overlay, and these are all.
Clients == Sessions \cup {None}

\* To set the overlay of one client leaves the others alone.
LEMMA OverlaySet ==
  ASSUME DataOK, NEW s \in Clients, NEW o \in Overlays,
         IF s = None THEN global' = o /\ session' = session
         ELSE global' = global /\ session' = [session EXCEPT ![s] = o]
  PROVE  Overlay(s)' = o /\ \A t \in Clients \ {s} : Overlay(t)' = Overlay(t)
<1>1. None \notin Sessions /\ o # None /\ session \in [Sessions -> Overlays \cup {None}]
  BY NoneAssumption DEF Sessions, DataOK, Overlays
<1> QED
  BY <1>1 DEF Overlay, Clients

\* An apply, a removal and an insert, each with its effect.
LEMMA EffectOps ==
  ASSUME NEW r \in Requests, NEW o \in Overlays
  PROVE  /\ Kind[r] = "apply" => Effect(r, o, Patched(o, r)) /\ r \in Patched(o, r).patches
         /\ Kind[r] = "remove" /\ reply'[r] = "ok" => Effect(r, o, Without(o, Removes[r]))
         /\ Kind[r] = "insert" => Effect(r, o, Inserted(o, r))
BY DEF Effect, Patched, Without, Inserted

\* A handler of another kind than infer that is done now and was not before says ok.
LEMMA DoneReplies ==
  ASSUME TypeOK, ServerInv, NEW r \in Requests, Done(r), pc[r] # "done", Kind[r] # "infer"
  PROVE  reply'[r] = "ok"
<1>1. reply[r] = None /\ reply \in [Requests -> {None, "ok", "error", "timeout"}]
  BY DEF ServerInv, BeforeInv, TypeOK
<1> QED
  BY <1>1 DEF Done, Answer

\* What a step does to the overlays: it has an effect on the one of its client, and an apply
\* that is answered with it is in its overlay.
LEMMA OverlayStep ==
  ASSUME TypeOK, ServerInv, NEW r \in Requests, Arrive(r) \/ Step(r) \/ TimesOut(r)
  PROVE  /\ \A t \in Clients \ {Sid[r]} : Overlay(t)' = Overlay(t)
         /\ Effect(r, Overlay(Sid[r]), Overlay(Sid[r])')
         /\ Kind[r] = "apply" /\ reply'[r] = "ok" /\ reply[r] # "ok" => r \in Overlay(Sid[r])'.patches
<1>0. /\ PlaceInv /\ DataOK /\ pc[r] \in Places(r) /\ Sid[r] \in Clients
      /\ reply \in [Requests -> {None, "ok", "error", "timeout"}]
  BY TypeParts DEF ServerInv, PlaceInv, Clients, Sessions, AnswersOK
<1>a. /\ global \in Overlays /\ session \in [Sessions -> Overlays \cup {None}] /\ None \notin Overlays
      /\ None \notin Sessions
      /\ Sid[r] # None => Sid[r] \in Sessions
  BY <1>0, NoneAssumption DEF DataOK, Overlays, Sessions
<1>1. CASE global' = global /\ session' = session /\ ~ (Kind[r] = "apply" /\ reply'[r] = "ok" /\ reply[r] # "ok")
  BY <1>1 DEF Effect, Overlay
<1>2. CASE EditGlobal(r)
  <2>1. Sid[r] = None /\ session' = session /\ Overlay(Sid[r]) = global /\ pc[r] = "patched"
    BY <1>0, <1>2, PlaceFacts DEF EditGlobal, Overlay, Sessions
  <2>2. CASE Kind[r] = "remove" /\ Removes[r] \notin global.patches
    BY <1>1, <1>2, <2>1, <2>2 DEF EditGlobal
  <2>3. CASE ~ (Kind[r] = "remove" /\ Removes[r] \notin global.patches)
    <3>1. reply'[r] = "ok"
      BY <1>2, <2>1, <2>3, DoneReplies DEF EditGlobal
    <3>2. PICK o : o = IF Kind[r] = "apply" THEN Patched(global, r) ELSE Without(global, Removes[r])
      OBVIOUS
    <3>3. o \in Overlays /\ global' = o
      BY <1>a, <1>2, <2>3, <3>2, OverlayOps DEF EditGlobal
    <3>4. Overlay(Sid[r])' = o /\ \A t \in Clients \ {Sid[r]} : Overlay(t)' = Overlay(t)
      BY <1>0, <2>1, <3>3, OverlaySet
    <3>5. Effect(r, global, o) /\ (Kind[r] = "apply" => r \in o.patches)
      BY <1>a, <1>2, <3>1, <3>2, EffectOps DEF EditGlobal
    <3> QED
      BY <2>1, <3>4, <3>5
  <2> QED
    BY <2>2, <2>3
<1>3. CASE InsertGlobal(r)
  <2>1. Sid[r] = None /\ session' = session /\ Overlay(Sid[r]) = global /\ Kind[r] = "insert"
    BY <1>0, <1>3, PlaceFacts DEF InsertGlobal, Overlay
  <2>2. PICK o : o = Inserted(global, r)
    OBVIOUS
  <2>3. o \in Overlays /\ global' = o
    BY <1>a, <1>3, <2>2, OverlayOps DEF InsertGlobal
  <2>4. Overlay(Sid[r])' = o /\ \A t \in Clients \ {Sid[r]} : Overlay(t)' = Overlay(t)
    BY <1>0, <2>1, <2>3, OverlaySet
  <2>5. Effect(r, global, o)
    BY <1>a, <2>1, <2>2, EffectOps
  <2> QED
    BY <2>1, <2>4, <2>5
<1>4. ASSUME Sid[r] \in Sessions, NEW o \in Overlays, global' = global,
             session' = [session EXCEPT ![Sid[r]] = o], Effect(r, Overlay(Sid[r]), o),
             Kind[r] = "apply" => r \in o.patches
      PROVE  /\ \A t \in Clients \ {Sid[r]} : Overlay(t)' = Overlay(t)
             /\ Effect(r, Overlay(Sid[r]), Overlay(Sid[r])')
             /\ Kind[r] = "apply" /\ reply'[r] = "ok" /\ reply[r] # "ok" => r \in Overlay(Sid[r])'.patches
  <2>1. Overlay(Sid[r])' = o /\ \A t \in Clients \ {Sid[r]} : Overlay(t)' = Overlay(t)
    BY <1>0, <1>a, <1>4, OverlaySet
  <2> QED
    BY <1>4, <2>1
<1>5. CASE ApplySession(r)
  <2>1. Sid[r] \in Sessions /\ global' = global /\ Kind[r] = "apply"
    BY <1>0, <1>5, PlaceFacts DEF ApplySession
  <2>2. CASE session[Sid[r]] = None
    BY <1>1, <1>5, <2>2 DEF ApplySession
  <2>3. CASE session[Sid[r]] # None
    <3>1. Overlay(Sid[r]) = session[Sid[r]] /\ session[Sid[r]] \in Overlays
      BY <1>a, <2>1, <2>3 DEF Overlay
    <3>2. PICK o : o = Patched(Overlay(Sid[r]), r)
      OBVIOUS
    <3>3. o \in Overlays /\ Effect(r, Overlay(Sid[r]), o) /\ r \in o.patches
      BY <2>1, <3>1, <3>2, OverlayOps, EffectOps
    <3>4. session' = [session EXCEPT ![Sid[r]] = o]
      BY <1>5, <2>3, <3>1, <3>2 DEF ApplySession
    <3> QED
      BY <1>4, <2>1, <3>3, <3>4
  <2> QED
    BY <2>2, <2>3
<1>6. CASE CloneBase(r)
  <2>1. Sid[r] \in Sessions /\ global' = global /\ Kind[r] \in {"apply", "insert"} /\ reply' = reply
    BY <1>0, <1>6, PlaceFacts DEF CloneBase
  <2>2. CASE Kind[r] = "apply"
    BY <1>1, <1>6, <2>1, <2>2 DEF CloneBase
  <2>3. CASE Kind[r] = "insert"
    <3>1. session[Sid[r]] = None
      BY <1>a, <1>6, <2>1, <2>3 DEF CloneBase, ServerInv, InsertHolds
    <3>2. Overlay(Sid[r]) = Empty
      BY <1>a, <2>1, <3>1 DEF Overlay
    <3>3. PICK o : o = Fresh(global)
      OBVIOUS
    <3>4. o \in Overlays /\ session' = [session EXCEPT ![Sid[r]] = o]
      BY <1>a, <1>6, <2>3, <3>3, OverlayOps DEF CloneBase
    <3>5. o.patches = {} /\ o.direct = {}
      BY <3>3 DEF Fresh
    <3>6. Effect(r, Overlay(Sid[r]), o)
      BY <2>3, <3>2, <3>5 DEF Effect, Empty
    <3> QED
      BY <1>4, <2>1, <2>3, <3>4, <3>6
  <2> QED
    BY <2>1, <2>2, <2>3
<1>7. CASE CommitSession(r)
  <2>1. Sid[r] \in Sessions /\ global' = global /\ Kind[r] = "apply" /\ pc[r] = "commit"
    BY <1>0, <1>7, PlaceFacts DEF CommitSession
  <2>2. PICK b : b = IF session[Sid[r]] = None THEN clone[r] ELSE session[Sid[r]]
    OBVIOUS
  <2>3. clone[r] # None /\ clone[r].patches = {} /\ clone[r].direct = {}
    BY <2>1 DEF ServerInv, OverlayInv
  <2>4. b \in Overlays
    BY <1>0, <1>a, <2>1, <2>2, <2>3 DEF DataOK
  <2>5. b.patches = Overlay(Sid[r]).patches /\ b.direct = Overlay(Sid[r]).direct
    BY <1>a, <2>1, <2>2, <2>3 DEF Overlay, Empty
  <2>6. PICK o : o = Patched(b, r)
    OBVIOUS
  <2>7. session' = [session EXCEPT ![Sid[r]] = o]
    BY <1>7, <2>2, <2>6 DEF CommitSession
  <2>8. o \in Overlays
    BY <2>4, <2>6, OverlayOps
  <2>9. o.patches = Overlay(Sid[r]).patches \cup {r} /\ o.direct = Overlay(Sid[r]).direct
    BY <2>5, <2>6 DEF Patched
  <2>10. Effect(r, Overlay(Sid[r]), o) /\ r \in o.patches
    BY <2>1, <2>9 DEF Effect
  <2> QED
    BY <1>4, <2>1, <2>7, <2>8, <2>10
<1>8. CASE RemoveSession(r)
  <2>1. Sid[r] \in Sessions /\ global' = global /\ Kind[r] = "remove" /\ pc[r] = "sessions"
    BY <1>0, <1>8, PlaceFacts DEF RemoveSession
  <2>2. CASE ~ (session[Sid[r]] # None /\ Removes[r] \in session[Sid[r]].patches)
    BY <1>1, <1>8, <2>1, <2>2 DEF RemoveSession
  <2>3. CASE session[Sid[r]] # None /\ Removes[r] \in session[Sid[r]].patches
    <3>1. Overlay(Sid[r]) = session[Sid[r]] /\ session[Sid[r]] \in Overlays
      BY <1>a, <2>1, <2>3 DEF Overlay
    <3>2. PICK o : o = Without(Overlay(Sid[r]), Removes[r])
      OBVIOUS
    <3>3. session' = [session EXCEPT ![Sid[r]] = o] /\ Done(r)
      BY <1>8, <2>3, <3>1, <3>2 DEF RemoveSession
    <3>4. reply'[r] = "ok"
      BY <2>1, <3>3, DoneReplies
    <3>5. o \in Overlays
      BY <3>1, <3>2, OverlayOps
    <3>6. Effect(r, Overlay(Sid[r]), o)
      BY <2>1, <3>1, <3>2, <3>4, EffectOps
    <3> QED
      BY <1>4, <2>1, <3>3, <3>5, <3>6
  <2> QED
    BY <2>2, <2>3
<1>9. CASE InsertComputed(r)
  <2>1. Kind[r] = "insert" /\ global' = global /\ pc[r] = "residuals"
    BY <1>0, <1>9, PlaceFacts DEF InsertComputed
  <2>2. CASE Sid[r] = None
    BY <1>1, <1>9, <2>1, <2>2 DEF InsertComputed
  <2>3. CASE Sid[r] # None
    <3>1. session[Sid[r]] # None
      BY <2>1, <2>3 DEF ServerInv, InsertHolds
    <3>2. Overlay(Sid[r]) = session[Sid[r]] /\ session[Sid[r]] \in Overlays
      BY <1>a, <2>3, <3>1 DEF Overlay
    <3>3. PICK o : o = Inserted(Overlay(Sid[r]), r)
      OBVIOUS
    <3>4. session' = [session EXCEPT ![Sid[r]] = o]
      BY <1>9, <2>3, <3>2, <3>3 DEF InsertComputed
    <3>5. o \in Overlays /\ Effect(r, Overlay(Sid[r]), o)
      BY <2>1, <3>2, <3>3, OverlayOps, EffectOps
    <3> QED
      BY <1>4, <1>a, <2>1, <2>3, <3>4, <3>5
  <2> QED
    BY <2>2, <2>3
<1>10. CASE LoadFails(r)
  <2>1. reply' = reply \/ Answer(r, "error")
    BY <1>10 DEF LoadFails
  <2>2. reply'[r] = "ok" => reply[r] = "ok"
    BY <1>0, <2>1 DEF Answer
  <2> QED
    BY <1>1, <1>10, <2>2 DEF LoadFails, dataVars
<1>11. CASE EndPass(r) \/ LookUp(r) \/ Put(r)
  <2>1. Kind[r] # "apply"
    BY <1>0, <1>11, PlaceFacts DEF EndPass, LookUp, Put
  <2> QED
    BY <1>1, <1>11, <2>1 DEF EndPass, LookUp, Put, dataVars
<1>12. CASE Arrive(r) \/ EnsureCell(r) \/ LockInit(r) \/ Load(r) \/ Ask(r)
  BY <1>1, <1>12 DEF Arrive, EnsureCell, LockInit, Load, Ask, dataVars
<1>13. CASE TimesOut(r)
  BY <1>1, <1>13 DEF TimesOut, dataVars
<1>14. CASE TakeWeights(r) \/ InferSession(r) \/ ReadPatched(r) \/ InsertBegins(r) \/ Describe(r)
  BY <1>1, <1>14 DEF TakeWeights, InferSession, ReadPatched, InsertBegins, Describe, dataVars
<1> QED
  BY <1>2, <1>3, <1>5, <1>6, <1>7, <1>8, <1>9, <1>10, <1>11, <1>12, <1>13, <1>14 DEF Step

-----------------------------------------------------------------------------
(* The requests: what stays in force *)

\* Where the step of r starts, and that it answers only as it ends, but for a timeout.
LEMMA StepPlace ==
  ASSUME TypeOK, ServerInv, NEW r \in Requests, Arrive(r) \/ Step(r) \/ TimesOut(r)
  PROVE  /\ pc[r] # "done" /\ reply[r] # "ok"
         /\ reply' = reply \/ pc'[r] = "done" \/ (Kind[r] = "infer" /\ Answer(r, "timeout"))
<1>0. pc \in [Requests -> Labels] /\ (reply[r] = "ok" => pc[r] = "done")
  BY DEF TypeOK, ServerInv, BeforeInv
<1>1. SUFFICES /\ pc[r] # "done"
               /\ reply' = reply \/ pc'[r] = "done" \/ (Kind[r] = "infer" /\ Answer(r, "timeout"))
  BY <1>0
<1>2. CASE Takes(r)
  <2>1. pc[r] # "done"
    BY <1>2, TakesLock DEF Want
  <2> QED
    BY <1>0, <1>2, <2>1 DEF Takes, TakeWeights, InferSession, ReadPatched, EditGlobal, ApplySession, CloneBase,
       CommitSession, RemoveSession, InsertBegins, InsertGlobal, Describe, Done, Goto
<1>3. CASE Goes(r)
  BY <1>0, <1>3 DEF Goes, Arrive, EnsureCell, LockInit, Load, LoadFails, EndPass, InsertComputed, LookUp, Put,
     Done, Goto
<1>4. CASE Ask(r) \/ TimesOut(r)
  BY <1>0, <1>4 DEF Ask, TimesOut, Want
<1> QED
  BY <1>2, <1>3, <1>4, StepKinds

\* An answer stays, and the others get none.
LEMMA RepliesStay ==
  ASSUME TypeOK, NEW r \in Requests, Arrive(r) \/ Step(r) \/ TimesOut(r), NEW q \in Requests
  PROVE  /\ reply[q] # None => reply'[q] = reply[q]
         /\ q # r => reply'[q] = reply[q]
<1>1. reply \in [Requests -> {None, "ok", "error", "timeout"}]
  BY DEF TypeOK
<1> QED
  BY <1>1, StepReply DEF Answer

\* A removal stays answered.
LEMMA RemovedStays ==
  ASSUME TypeOK, NEW r \in Requests, Arrive(r) \/ Step(r) \/ TimesOut(r), NEW e, Removed(e)
  PROVE  Removed(e)'
<1>1. PICK q \in Requests : Kind[q] = "remove" /\ Removes[q] = e /\ reply[q] = "ok"
  BY DEF Removed
<1>2. reply'[q] = "ok"
  BY <1>1, RepliesStay, NoneAssumption
<1> QED
  BY <1>1, <1>2 DEF Removed

\* A patch stays in its overlay, or is removed.
LEMMA PatchStays ==
  ASSUME TypeOK, ServerInv, NEW r \in Requests, Arrive(r) \/ Step(r) \/ TimesOut(r),
         NEW s \in Clients, NEW e \in Overlay(s).patches
  PROVE  e \in Overlay(s)'.patches \/ Removed(e)'
<1>1. CASE s # Sid[r]
  BY <1>1, OverlayStep
<1>2. CASE s = Sid[r]
  <2>1. Effect(r, Overlay(s), Overlay(s)')
    BY <1>2, OverlayStep
  <2>2. CASE Kind[r] = "remove" /\ Removes[r] = e /\ reply'[r] = "ok"
    BY <2>2 DEF Removed
  <2> QED
    BY <2>1, <2>2 DEF Effect
<1> QED
  BY <1>1, <1>2

\* The overlay of a client has its own patches and inserts alone.
LEMMA OwnNext ==
  ASSUME TypeOK, ServerInv, NEW r \in Requests, Arrive(r) \/ Step(r) \/ TimesOut(r), NEW s \in Clients
  PROVE  OwnEdits(Overlay(s)', s)
<1>1. OwnEdits(Overlay(s), s)
  BY DEF ServerInv, OverlayInv, Clients
<1>2. CASE s # Sid[r]
  BY <1>1, <1>2, OverlayStep
<1>3. CASE s = Sid[r]
  <2>1. Effect(r, Overlay(s), Overlay(s)')
    BY <1>3, OverlayStep
  <2> QED
    BY <1>1, <1>3, <2>1 DEF Effect, OwnEdits
<1> QED
  BY <1>2, <1>3

\* A clone is without edits until it is committed.
LEMMA CloneNext ==
  ASSUME TypeOK, ServerInv, NEW r \in Requests, Arrive(r) \/ Step(r) \/ TimesOut(r),
         NEW q \in Requests, pc'[q] = "commit", Kind[q] = "apply"
  PROVE  clone'[q] # None /\ clone'[q].patches = {} /\ clone'[q].direct = {}
<1>0. /\ DataOK /\ clone \in [Requests -> Overlays \cup {None}] /\ global \in Overlays
      /\ pc \in [Requests -> Labels] /\ PlaceInv
      /\ pc[q] = "commit" => clone[q] # None /\ clone[q].patches = {} /\ clone[q].direct = {}
      /\ \A x \in Requests \ {r} : pc'[x] = pc[x]
  BY TypeParts, StepLocks DEF ServerInv, OverlayInv, DataOK
<1>1. CASE CloneBase(r) /\ Kind[r] = "apply"
  <2>1. clone' = [clone EXCEPT ![r] = Fresh(global)]
    BY <1>1 DEF CloneBase
  <2>2. Fresh(global) \in Overlays /\ Fresh(global).patches = {} /\ Fresh(global).direct = {}
    BY <1>0, OverlayOps DEF Fresh
  <2>3. Fresh(global) # None
    BY <2>2, NoneAssumption DEF Overlays
  <2> QED
    BY <1>0, <2>1, <2>2, <2>3
<1>2. CASE ~ (CloneBase(r) /\ Kind[r] = "apply")
  <2>1. clone' = clone
    <3>1. CASE Goes(r) \/ Ask(r) \/ TimesOut(r)
      BY <3>1 DEF Goes, Arrive, EnsureCell, LockInit, Load, LoadFails, EndPass, InsertComputed, LookUp, Put,
         Ask, TimesOut, dataVars
    <3>2. CASE Takes(r)
      BY <1>2, <3>2 DEF Takes, TakeWeights, InferSession, ReadPatched, EditGlobal, ApplySession, CloneBase,
         CommitSession, RemoveSession, InsertBegins, InsertGlobal, Describe, dataVars
    <3> QED
      BY <3>1, <3>2, StepKinds
  <2>2. pc[q] = "commit"
    <3>1. CASE q # r
      BY <1>0, <3>1
    <3>2. CASE q = r /\ (Goes(r) \/ Ask(r) \/ TimesOut(r))
      BY <1>0, <3>2, PlaceFacts DEF Goes, Arrive, Entry, EnsureCell, LockInit, Load, LoadFails, EndPass, InsertComputed,
         LookUp, Put, Ask, TimesOut, Done, Goto
    <3>3. CASE q = r /\ Takes(r)
      BY <1>0, <1>2, <3>3 DEF Takes, TakeWeights, InferSession, ReadPatched, EditGlobal, ApplySession, CloneBase,
         CommitSession, RemoveSession, InsertBegins, InsertGlobal, Describe, Done, Goto
    <3> QED
      BY <3>1, <3>2, <3>3, StepKinds
  <2> QED
    BY <1>0, <2>1, <2>2
<1> QED
  BY <1>1, <1>2

\* Overlays stay those of their clients.
LEMMA OverlayNext ==
  ASSUME TypeOK, ServerInv, NEW r \in Requests, Arrive(r) \/ Step(r) \/ TimesOut(r)
  PROVE  OverlayInv' /\ AckedPatchStays'
<1>1. OverlayInv'
  BY OwnNext, CloneNext DEF OverlayInv, OwnEdits, Clients
<1>2. ASSUME NEW q \in Requests, Kind[q] = "apply", reply'[q] = "ok"
      PROVE  q \in Overlay(Sid[q])'.patches \/ Removed(q)'
  <2>0. Sid[q] \in Clients
    BY DEF Clients, Sessions
  <2>1. CASE reply[q] = "ok"
    <3>1. q \in Overlay(Sid[q]).patches \/ Removed(q)
      BY <1>2, <2>1 DEF ServerInv, AckedPatchStays
    <3> QED
      BY <2>0, <3>1, PatchStays, RemovedStays
  <2>2. CASE reply[q] # "ok"
    <3>1. q = r
      BY <1>2, <2>2, RepliesStay
    <3> QED
      BY <1>2, <2>2, <3>1, OverlayStep
  <2> QED
    BY <2>1, <2>2
<1> QED
  BY <1>1, <1>2 DEF AckedPatchStays

\* What is in force for q with overlay o once the step is done.
InForceNext(q, o) == \A e \in before'[q] : Kind[e] = "apply" => e \in o.patches \/ Removed(e)'

LEMMA InForceStays ==
  ASSUME TypeOK, NEW r \in Requests, Arrive(r) \/ Step(r) \/ TimesOut(r), NEW q \in Requests,
         before'[q] = before[q], NEW o, InForce(q, o)
  PROVE  InForceNext(q, o)
BY RemovedStays DEF InForce, InForceNext

LEMMA BeforeNext ==
  ASSUME TypeOK, ServerInv, NEW r \in Requests, Arrive(r) \/ Step(r) \/ TimesOut(r), NEW q \in Requests
  PROVE  BeforeInv(q)'
<1>0. /\ BeforeInv(q) /\ AnswersOK /\ DataOK /\ Sid[q] \in Clients /\ pc \in [Requests -> Labels]
      /\ \A x \in Requests \ {r} : pc'[x] = pc[x] /\ reply'[x] = reply[x]
      /\ OwnEdits(Overlay(Sid[q]), Sid[q])
  BY StepLocks, RepliesStay, TypeParts DEF ServerInv, Clients, Sessions, OverlayInv
<1>1. InForceNext(q, Overlay(Sid[q])')
  <2>1. CASE before'[q] = before[q]
    <3>1. ASSUME NEW e \in before[q], Kind[e] = "apply"
          PROVE  e \in Overlay(Sid[q])'.patches \/ Removed(e)'
      <4>1. e \in Overlay(Sid[q]).patches \/ Removed(e)
        BY <1>0, <3>1 DEF BeforeInv, InForce
      <4> QED
        BY <1>0, <4>1, PatchStays, RemovedStays
    <3> QED
      BY <2>1, <3>1 DEF InForceNext
  <2>2. CASE Arrive(r) /\ q = r
    <3>1. before'[q] = {e \in Edits(Overlay(Sid[q])) : reply[e] = "ok"} /\ global' = global /\ session' = session
      BY <1>0, <2>2 DEF Arrive, dataVars, AnswersOK
    <3>2. Overlay(Sid[q])' = Overlay(Sid[q])
      BY <3>1 DEF Overlay
    <3>3. \A e \in before'[q] : Kind[e] = "apply" => e \in Overlay(Sid[q]).patches
      BY <1>0, <3>1 DEF Edits, OwnEdits
    <3> QED
      BY <3>2, <3>3 DEF InForceNext
  <2>3. CASE Arrive(r) /\ q # r
    BY <1>0, <2>1, <2>3 DEF Arrive, AnswersOK
  <2> QED
    BY <2>1, <2>2, <2>3, StepBefore
<1>2. CASE q # r
  BY <1>0, <1>1, <1>2 DEF BeforeInv, InForceNext, InForce
<1>3. CASE q = r
  <2>1. reply'[r] = "ok" => pc'[r] = "done"
    BY <1>0, StepPlace, NoneAssumption DEF Answer, AnswersOK
  <2>2. Kind[r] # "infer" /\ pc'[r] # "done" => reply'[r] = None
    BY <1>0, <1>3, StepPlace DEF BeforeInv
  <2> QED
    BY <1>1, <1>3, <2>1, <2>2 DEF BeforeInv, InForceNext, InForce
<1> QED
  BY <1>2, <1>3

-----------------------------------------------------------------------------
(* The requests: what they read *)

\* Only these actions read something, or reach a place where it counts.
Readers(r) == InferSession(r) \/ ReadPatched(r) \/ LookUp(r) \/ Describe(r)

LEMMA OthersReadNothing ==
  ASSUME TypeOK, ServerInv, NEW r \in Requests, Arrive(r) \/ Step(r) \/ TimesOut(r), ~ Readers(r)
  PROVE  /\ seen' = seen /\ l2' = l2
         /\ pc'[r] \in {"pass", "put"} => pc[r] = pc'[r] \/ (Kind[r] = "q8k" /\ pc'[r] = "pass")
         /\ pc'[r] = "patched" /\ Kind[r] = "infer" => pc[r] = "patched" \/ Sid[r] = None
<1>0. pc \in [Requests -> Labels] /\ PlaceInv
  BY DEF TypeOK, ServerInv
<1>1. CASE Goes(r)
  BY <1>0, <1>1, PlaceFacts DEF Readers, Goes, Arrive, Entry, EnsureCell, LockInit, Load, LoadFails, EndPass,
     InsertComputed, LookUp, Put, Done, Goto, dataVars
<1>2. CASE Takes(r)
  BY <1>0, <1>2, PlaceFacts DEF Readers, Takes, TakeWeights, EditGlobal, ApplySession, CloneBase,
     CommitSession, RemoveSession, InsertBegins, InsertGlobal, Done, Goto, dataVars
<1>3. CASE Ask(r) \/ TimesOut(r)
  BY <1>0, <1>3 DEF Ask, TimesOut, dataVars
<1> QED
  BY <1>1, <1>2, <1>3, StepKinds

\* A request reads for itself.
LEMMA ReadsOwn ==
  ASSUME TypeOK, ServerInv, NEW r \in Requests, Arrive(r) \/ Step(r) \/ TimesOut(r), NEW q \in Requests \ {r}
  PROVE  seen'[q] = seen[q] /\ pc'[q] = pc[q] /\ reply'[q] = reply[q] /\ before'[q] = before[q]
<1>0. seen \in [Requests -> Seen] /\ before \in [Requests -> SUBSET Requests]
  BY TypeParts DEF DataOK, AnswersOK
<1>1. seen'[q] = seen[q]
  BY <1>0, OthersReadNothing DEF Readers, InferSession, ReadPatched, LookUp, Describe, Reads
<1>2. before'[q] = before[q]
  BY <1>0, StepBefore DEF Arrive
<1> QED
  BY <1>1, <1>2, StepLocks, RepliesStay

\* An inference reads an overlay in which everything is that was in force for it.
LEMMA InferNext ==
  ASSUME TypeOK, ServerInv, NEW r \in Requests, Arrive(r) \/ Step(r) \/ TimesOut(r), NEW q \in Requests
  PROVE  InferInv(q)'
<1>0. /\ InferInv(q) /\ InForce(q, Overlay(Sid[q])) /\ PlaceInv /\ (reply[q] = "ok" => pc[q] = "done")
      /\ pc \in [Requests -> Labels] /\ seen \in [Requests -> Seen]
      /\ reply \in [Requests -> {None, "ok", "error", "timeout"}]
  BY TypeParts DEF ServerInv, BeforeInv, DataOK, AnswersOK
<1>1. SUFFICES ASSUME Kind[q] = "infer"
      PROVE  /\ pc'[q] = "patched" /\ Sid[q] # None => InForceNext(q, Empty)
             /\ pc'[q] = "pass" \/ reply'[q] = "ok" => InForceNext(q, seen'[q].overlay)
  BY DEF InferInv, InForce, InForceNext
<1>2. CASE q # r
  <2>1. seen'[q] = seen[q] /\ pc'[q] = pc[q] /\ reply'[q] = reply[q] /\ before'[q] = before[q]
    BY <1>2, ReadsOwn
  <2> QED
    BY <1>0, <1>1, <2>1, InForceStays DEF InferInv
<1>3. CASE q = r /\ Arrive(r)
  BY <1>0, <1>1, <1>3 DEF Arrive, Goto, Entry
<1>4. CASE q = r /\ InferSession(r)
  <2>1. Sid[r] \in Sessions /\ before' = before /\ reply' = reply
    BY <1>0, <1>4, PlaceFacts DEF InferSession
  <2>2. CASE session[Sid[r]] = None
    <3>1. InForce(r, Empty)
      BY <1>0, <1>4, <2>1, <2>2 DEF Overlay, Sessions
    <3>2. InForceNext(r, Empty)
      BY <2>1, <3>1, InForceStays
    <3> QED
      BY <1>0, <1>4, <2>1, <2>2, <3>2 DEF InferSession, Goto
  <2>3. CASE session[Sid[r]] # None
    <3>1. PICK o : o = session[Sid[r]]
      OBVIOUS
    <3>2. InForce(r, o)
      BY <1>0, <1>4, <2>1, <2>3, <3>1 DEF Overlay, Sessions
    <3>3. InForceNext(r, o)
      BY <2>1, <3>2, InForceStays
    <3>4. seen'[r].overlay = o /\ pc'[r] = "pass"
      BY <1>0, <1>4, <2>3, <3>1 DEF InferSession, Reads, Goto
    <3> QED
      BY <1>4, <3>3, <3>4
  <2> QED
    BY <2>2, <2>3
<1>5. CASE q = r /\ ReadPatched(r)
  <2>1. PICK o : o = global
    OBVIOUS
  <2>2. seen'[r].overlay = o /\ pc'[r] = "pass" /\ before' = before
    BY <1>0, <1>1, <1>5, <2>1 DEF ReadPatched, Reads, Goto
  <2>3. InForce(r, o)
    BY <1>0, <1>1, <1>5, <2>1 DEF ReadPatched, InferInv, InForce, Overlay, Empty
  <2>4. InForceNext(r, o)
    BY <2>2, <2>3, InForceStays
  <2> QED
    BY <1>5, <2>2, <2>4
<1>6. CASE q = r /\ ~ Arrive(r) /\ ~ InferSession(r) /\ ~ ReadPatched(r)
  <2>1. ~ Readers(r)
    BY <1>1, <1>6, <1>0, PlaceFacts DEF Readers, LookUp, Describe
  <2>2. /\ seen' = seen /\ before' = before
        /\ pc'[r] = "pass" => pc[r] = "pass"
        /\ pc'[r] = "patched" => pc[r] = "patched" \/ Sid[r] = None
    BY <1>1, <1>6, <2>1, OthersReadNothing, StepBefore
  <2>3. reply'[r] = "ok" => reply[r] = "ok" \/ pc[r] = "pass"
    <3>1. CASE EndPass(r)
      BY <3>1 DEF EndPass
    <3>2. CASE LoadFails(r)
      BY <1>0, <3>2 DEF LoadFails, Answer
    <3>3. CASE TimesOut(r)
      BY <1>0, <3>3 DEF TimesOut, Answer
    <3>4. CASE Arrive(r) \/ EnsureCell(r) \/ LockInit(r) \/ Load(r) \/ Ask(r)
      BY <3>4 DEF Arrive, EnsureCell, LockInit, Load, Ask
    <3>5. CASE Takes(r)
      BY <1>0, <1>1, <1>6, <3>5, PlaceFacts DEF Takes, TakeWeights, EditGlobal, ApplySession, CloneBase,
         CommitSession, RemoveSession, InsertBegins, InsertGlobal, Describe
    <3>6. CASE InsertComputed(r) \/ LookUp(r) \/ Put(r)
      BY <1>0, <1>1, <1>6, <3>6, PlaceFacts DEF InsertComputed, LookUp, Put
    <3> QED
      BY <3>1, <3>2, <3>3, <3>4, <3>5, <3>6, StepKinds DEF Goes
  <2>4. /\ pc'[r] = "patched" /\ Sid[r] # None => InForce(r, Empty)
        /\ pc'[r] = "pass" \/ reply'[r] = "ok" => InForce(r, seen[r].overlay)
    BY <1>0, <1>1, <1>6, <2>2, <2>3 DEF InferInv
  <2> QED
    BY <1>6, <2>2, <2>4, InForceStays
<1> QED
  BY <1>2, <1>3, <1>4, <1>5, <1>6

\* A description is what a DESCRIBE puts into its cache.
LEMMA PutNext ==
  ASSUME TypeOK, ServerInv, NEW r \in Requests, Arrive(r) \/ Step(r) \/ TimesOut(r), NEW q \in Requests
  PROVE  PutInv(q)'
<1>0. PutInv(q) /\ DataOK /\ pc \in [Requests -> Labels] /\ seen \in [Requests -> Seen] /\ global \in Overlays
  BY TypeParts DEF ServerInv, DataOK
<1>a. \A x : (x \in Descriptions)' <=> x \in Descriptions
  BY DEF Descriptions, Overlays
<1>1. SUFFICES ASSUME pc'[q] = "put" PROVE seen'[q] \in Descriptions
  BY <1>a DEF PutInv, Descriptions, Overlays
<1>2. CASE q # r
  BY <1>0, <1>1, <1>2, ReadsOwn DEF PutInv
<1>3. CASE q = r /\ Describe(r)
  <2>1. seen'[r] = [overlay |-> global, score |-> MinScore[r]]
    BY <1>0, <1>3 DEF Describe, Reads
  <2> QED
    BY <1>0, <1>3, <2>1 DEF Descriptions
<1>4. CASE q = r /\ (InferSession(r) \/ ReadPatched(r) \/ LookUp(r))
  BY <1>0, <1>1, <1>4 DEF InferSession, ReadPatched, LookUp, Done, Goto
<1>5. CASE q = r /\ ~ Readers(r)
  BY <1>0, <1>1, <1>5, OthersReadNothing DEF PutInv
<1> QED
  BY <1>2, <1>3, <1>4, <1>5 DEF Readers

\* A walk holds the overlay while it computes.
LEMMA WalkHoldsNext ==
  ASSUME TypeOK, ServerInv, NEW r \in Requests, Arrive(r) \/ Step(r) \/ TimesOut(r), NEW q \in Requests
  PROVE  WalkHolds(q)'
<1>0. /\ WalkHolds(q) /\ pc \in [Requests -> Labels] /\ holds \in [Requests -> SUBSET Guard]
      /\ \A x \in Requests \ {r} : pc'[x] = pc[x] /\ holds'[x] = holds[x]
  BY StepLocks DEF ServerInv, TypeOK
<1>1. SUFFICES ASSUME Kind[q] = "walk", pc'[q] = "pass" PROVE <<"patched", "r">> \in holds'[q]
  BY DEF WalkHolds
<1>2. CASE q # r
  BY <1>0, <1>1, <1>2 DEF WalkHolds
<1>3. CASE q = r /\ ReadPatched(r)
  BY <1>0, <1>1, <1>3 DEF ReadPatched, Take, Guards, Want
<1>4. CASE q = r /\ (InferSession(r) \/ LookUp(r) \/ Describe(r))
  BY <1>0, <1>1, <1>4, PlaceFacts DEF InferSession, LookUp, Describe, Done, Goto, ServerInv
<1>5. CASE q = r /\ ~ Readers(r)
  <2>1. pc[r] = "pass" /\ pc'[r] = "pass"
    BY <1>1, <1>5, OthersReadNothing
  <2>2. holds' = holds
    <3>1. CASE Takes(r)
      BY <2>1, <3>1, TakesLock DEF Want
    <3>2. CASE Goes(r)
      BY <1>0, <2>1, <3>2 DEF Goes, Arrive, EnsureCell, LockInit, Load, LoadFails, EndPass, InsertComputed,
         LookUp, Put, Done, Goto
    <3>3. CASE Ask(r) \/ TimesOut(r)
      BY <3>3 DEF Ask, TimesOut, lockVars
    <3> QED
      BY <3>1, <3>2, <3>3, StepKinds
  <2> QED
    BY <1>0, <1>1, <1>5, <2>1, <2>2 DEF WalkHolds
<1> QED
  BY <1>2, <1>3, <1>4, <1>5 DEF Readers

\* What is cached is the output without edits, and a walk ends with the vectors of now.
LEMMA CacheNext ==
  ASSUME TypeOK, ServerInv, NEW r \in Requests, Arrive(r) \/ Step(r) \/ TimesOut(r)
  PROVE  CacheInv' /\ CachedIsCurrent'
<1>0. /\ CacheInv /\ CachedIsCurrent /\ PlaceInv /\ pc \in [Requests -> Labels] /\ seen \in [Requests -> Seen]
      /\ DataOK /\ \A q \in Requests : WalkHolds(q)
  BY TypeParts DEF ServerInv, DataOK
<1>a. HitsKey(global) \in Keys /\ l2 \in [Keys -> Outputs \cup {None}]
  BY <1>0, OverlayOps DEF DataOK
<1>b. Output = Vectors(global) /\ (CachesOutput => Output = [gates |-> {}, vecs |-> {}])
  BY <1>0, <1>a DEF Output, CacheInv, CachesOutput
<1>1. CacheInv'
  <2>1. CASE ReadPatched(r)
    BY <1>0, <1>a, <1>b, <2>1 DEF ReadPatched, CacheInv
  <2>2. CASE ~ ReadPatched(r)
    BY <1>0, <2>2, OthersReadNothing DEF Readers, InferSession, LookUp, Describe, CacheInv
  <2> QED
    BY <2>1, <2>2
<1>2. ASSUME NEW q \in Requests, Kind[q] = "walk", pc'[q] = "pass" PROVE seen'[q] = Vectors(global)'
  <2>1. CASE q # r
    <3>1. pc[q] = "pass" /\ seen'[q] = seen[q]
      BY <1>2, <2>1, ReadsOwn
    <3>2. global' = global
      BY <1>0, <1>2, <2>1, <3>1, GlobalLocked DEF WalkHolds
    <3> QED
      BY <1>0, <1>2, <3>1, <3>2 DEF CachedIsCurrent, Vectors, Edits, Changing
  <2>2. CASE q = r /\ ReadPatched(r)
    <3>1. seen'[r] = Output /\ global' = global
      BY <1>0, <1>2, <2>2 DEF ReadPatched, Reads
    <3> QED
      BY <1>b, <2>2, <3>1 DEF Vectors, Edits, Changing
  <2>3. CASE q = r /\ (InferSession(r) \/ LookUp(r) \/ Describe(r))
    BY <1>0, <1>2, <2>3, PlaceFacts DEF InferSession, LookUp, Describe
  <2>4. CASE q = r /\ ~ Readers(r)
    <3>1. pc[r] = "pass" /\ seen' = seen
      BY <1>2, <2>4, OthersReadNothing
    <3>2. global' = global
      BY <1>0, <1>2, <2>4, <3>1, PlaceFacts DEF Step, Arrive, TimesOut, Ask, EnsureCell, LockInit, Load, LoadFails,
         TakeWeights, InferSession, ReadPatched, EndPass, EditGlobal, ApplySession, CloneBase, CommitSession,
         RemoveSession, InsertBegins, InsertComputed, InsertGlobal, LookUp, Describe, Put, dataVars
    <3> QED
      BY <1>0, <1>2, <2>4, <3>1, <3>2 DEF CachedIsCurrent, Vectors, Edits, Changing
  <2> QED
    BY <2>1, <2>2, <2>3, <2>4 DEF Readers
<1> QED
  BY <1>1, <1>2 DEF CachedIsCurrent

-----------------------------------------------------------------------------
(* The requests: the theorems *)

LEMMA ServerInit0 == Init => TypeOK /\ ServerInv
<1> SUFFICES ASSUME Init PROVE TypeOK /\ ServerInv
  OBVIOUS
<1>0. Empty \in Overlays /\ Edits(Empty) = {}
  BY DEF Empty, Overlays, Edits
<1>1. line = <<>> /\ Range(line) = {} /\ IsInjective(line) /\ line \in Seq(Requests)
  BY LenProperties, EmptySeq DEF Init, Range, IsInjective
<1>2. DataOK
  BY <1>0 DEF Init, DataOK, Seen
<1>3. TypeOK
  BY <1>1, <1>2, TypeParts DEF Init, LineOK, WeightsOK, AnswersOK, Labels
<1>4. \A s \in Clients : Overlay(s) = Empty
  BY DEF Init, Overlay, Clients
<1>5. OverlayInv /\ AckedPatchStays
  BY <1>4, NoneAssumption DEF Init, OverlayInv, AckedPatchStays, OwnEdits, Empty, Clients
<1>6. PlaceInv /\ LoadInv /\ GuardsExclude /\ CacheInv /\ CachedIsCurrent
  BY NoneAssumption DEF Init, PlaceInv, Places, LoadInv, GuardsExclude, CacheInv, CachedIsCurrent
<1>7. ASSUME NEW r \in Requests
      PROVE  InsertHolds(r) /\ WalkHolds(r) /\ BeforeInv(r) /\ InferInv(r) /\ PutInv(r)
  BY NoneAssumption DEF Init, InsertHolds, WalkHolds, BeforeInv, InferInv, PutInv, InForce, LoadPlaces
<1> QED
  BY <1>3, <1>5, <1>6, <1>7 DEF ServerInv

\* A request's step keeps the invariant.
LEMMA ServerStep ==
  ASSUME TypeOK, ServerInv, NEW r \in Requests, Arrive(r) \/ Step(r) \/ TimesOut(r)
  PROVE  TypeOK' /\ ServerInv'
<1>1. DataOK' /\ WeightsOK' /\ AnswersOK'
  BY DataNext, WeightsNext, AnswersNext
<1>2. TypeOK'
  BY <1>1, StepLocks, TypeParts DEF Seen, LineOK, WeightsOK, DataOK, AnswersOK, TypeOK
<1>3. PlaceInv' /\ LoadInv' /\ GuardsExclude'
  BY PlaceNext, LoadNext, ExcludeNext DEF ServerInv
<1>4. \A q \in Requests : InsertHolds(q)' /\ WalkHolds(q)'
  BY InsertHoldsNext, WalkHoldsNext
<1>5. OverlayInv' /\ AckedPatchStays' /\ CacheInv' /\ CachedIsCurrent'
  BY OverlayNext, CacheNext
<1>6. \A q \in Requests : BeforeInv(q)' /\ InferInv(q)' /\ PutInv(q)'
  BY BeforeNext, InferNext, PutNext
<1> QED
  BY <1>2, <1>3, <1>4, <1>5, <1>6 DEF ServerInv

\* An entry that expires, a session that idles and a stutter change nothing it is about.
LEMMA ServerIdle ==
  ASSUME TypeOK, ServerInv, CacheExpires \/ SessionIdles \/ UNCHANGED vars
  PROVE  TypeOK' /\ ServerInv'
<1>1. UNCHANGED <<pc, line, holds, loaded, loader, loads, global, session, clone, l2, seen, reply, before>>
  BY DEF CacheExpires, SessionIdles, vars, lockVars, weightVars, dataVars
<1>2. expired' \subseteq Sessions /\ cached' \in [{CacheKey(r) : r \in Requests} -> Descriptions \cup {None}]
  BY DEF CacheExpires, SessionIdles, vars, dataVars, TypeOK
<1>3. \A q : Want(q)' = Want(q)
  BY <1>1, WantKept
<1>4. TypeOK'
  BY <1>1, <1>2, <1>3 DEF TypeOK
<1>5. \A s : Overlay(s)' = Overlay(s)
  BY <1>1 DEF Overlay
<1>6. PlaceInv' /\ LoadInv' /\ GuardsExclude' /\ CacheInv' /\ CachedIsCurrent'
  <2>1. PlaceInv'
    BY <1>1 DEF ServerInv, PlaceInv, Places
  <2>2. LoadInv' /\ GuardsExclude' /\ CacheInv'
    BY <1>1 DEF ServerInv, LoadInv, GuardsExclude, CacheInv
  <2>3. CachedIsCurrent'
    BY <1>1 DEF ServerInv, CachedIsCurrent, Vectors, Edits, Changing
  <2> QED
    BY <2>1, <2>2, <2>3
<1>7. OverlayInv' /\ AckedPatchStays'
  BY <1>1, <1>5 DEF ServerInv, OverlayInv, AckedPatchStays, OwnEdits, Removed
<1>8. ASSUME NEW r \in Requests
      PROVE  InsertHolds(r)' /\ WalkHolds(r)' /\ BeforeInv(r)' /\ InferInv(r)' /\ PutInv(r)'
  <2>1. InsertHolds(r)' /\ WalkHolds(r)' /\ PutInv(r)'
    BY <1>1 DEF ServerInv, InsertHolds, WalkHolds, PutInv, Descriptions, Overlays
  <2>2. BeforeInv(r)' /\ InferInv(r)'
    BY <1>1, <1>5 DEF ServerInv, BeforeInv, InferInv, InForce, Removed
  <2> QED
    BY <2>1, <2>2
<1> QED
  BY <1>4, <1>6, <1>7, <1>8 DEF ServerInv

LEMMA ServerInductive == TypeOK /\ ServerInv /\ [Next]_vars => TypeOK' /\ ServerInv'
BY ServerStep, ServerIdle DEF Next

LEMMA ServerInvariant == Spec => [](TypeOK /\ ServerInv)
<1> QED
  BY ServerInit0, ServerInductive, PTL DEF Spec

\* The weights are loaded once for any number of requests (ensure_weights_cell, LockedWeights).
THEOREM ServerLoadsOnce == Spec => []LoadedOnce
<1>1. TypeOK /\ ServerInv => LoadedOnce
  BY DEF ServerInv, LoadInv, LoadedOnce
<1> QED
  BY <1>1, ServerInvariant, PTL

\* Sessions keep what their client was told (SessionManager::apply_patch, run_infer, run_insert):
\* an acknowledged patch stays until it is removed, and the inferences sent after it run with it.
THEOREM ServerKeepsSessions == Spec => []SessionsKept
<1>1. TypeOK /\ ServerInv => SessionsKept
  BY DEF ServerInv, InferInv, InForce, InferSeesItsPatches, SessionsKept
<1> QED
  BY <1>1, ServerInvariant, PTL

\* A walk never answers from an output that an edit or its removal made stale (walk_ffn,
\* FfnL2Cache, has_overrides_at), whatever the edits change.
THEOREM ServerCacheIsCurrent == Spec => []CachedIsCurrent
<1>1. TypeOK /\ ServerInv => CachedIsCurrent
  BY DEF ServerInv
<1> QED
  BY <1>1, ServerInvariant, PTL

\* No request writes what another reads or writes: the guards of the three locks exclude each
\* other, which the theorems above rest on.
THEOREM ServerGuardsExclude == Spec => []GuardsExclude
<1>1. TypeOK /\ ServerInv => GuardsExclude
  BY DEF ServerInv
<1> QED
  BY <1>1, ServerInvariant, PTL
==============================================================================
