------------------------------ MODULE RateLimit ------------------------------
(***************************************************************************)
(* The per-address token bucket of larql-server                            *)
(* (crates/larql-server/src/ratelimit.rs).                                 *)
(*                                                                         *)
(* The code counts tokens in f64 and a second brings Count / Period of     *)
(* one.  Here a token is Period units and a second brings Count units,     *)
(* which keeps every amount whole.  An observer opens a window at any      *)
(* moment and counts the requests that are admitted from then on.          *)
(***************************************************************************)
EXTENDS Integers, Sequences, FiniteSets

CONSTANTS
  Ips,
  Count, Period,   \* the limit: Count requests per Period seconds
  NoBucket,        \* an address without a bucket
  MaxTime          \* the bound of a run

ASSUME LimitAssumption ==
  /\ Count \in Nat \ {0}
  /\ Period \in Nat \ {0}
  /\ NoBucket \notin [tokens: Nat, last: Nat]
  /\ MaxTime \in Nat

VARIABLES
  now,      \* the clock, in seconds
  bucket,   \* buckets: the tokens of an address and the time of its last refill
  from,     \* the beginning of the observer's window
  count,    \* what each address was admitted in it
  log,      \* history: the times of all admissions of an address
  refused   \* history: the addresses whose last request, in this second, was refused

rateVars == <<now, bucket, from, count, log, refused>>

Full == Count * Period

RateTypeOK ==
  /\ now \in Nat /\ from \in 0 .. now
  /\ bucket \in [Ips -> [tokens: Nat, last: Nat] \cup {NoBucket}]
  /\ count \in [Ips -> Nat]
  /\ log \in [Ips -> Seq(Nat)]
  /\ refused \subseteq Ips

-----------------------------------------------------------------------------
(* check *)

\* entry().or_insert: a new address has a full bucket.
Bucket(ip) == IF bucket[ip] = NoBucket THEN [tokens |-> Full, last |-> now] ELSE bucket[ip]

\* Mutant of Refilled: a bucket has no size.
RefilledFully(b) == b.tokens + (now - b.last) * Count

Refilled(b) ==
  LET n == b.tokens + (now - b.last) * Count
  IN IF n <= Full THEN n ELSE Full

Settle(ip, tokens) == bucket' = [bucket EXCEPT ![ip] = [tokens |-> tokens, last |-> now]]

Admit(ip) ==
  /\ Refilled(Bucket(ip)) >= Period
  /\ Settle(ip, Refilled(Bucket(ip)) - Period)
  /\ count' = [count EXCEPT ![ip] = @ + 1]
  /\ log' = [log EXCEPT ![ip] = Append(@, now)]
  /\ refused' = refused \ {ip}
  /\ UNCHANGED <<now, from>>

\* Mutant of Refuse: the part of a token that is there is lost.
RefuseAndDrain(ip) ==
  /\ Refilled(Bucket(ip)) < Period
  /\ Settle(ip, 0)
  /\ refused' = refused \cup {ip}
  /\ UNCHANGED <<now, from, count, log>>

Refuse(ip) ==
  /\ Refilled(Bucket(ip)) < Period
  /\ Settle(ip, Refilled(Bucket(ip)))
  /\ refused' = refused \cup {ip}
  /\ UNCHANGED <<now, from, count, log>>

-----------------------------------------------------------------------------

Tick ==
  /\ now < MaxTime
  /\ now' = now + 1
  /\ refused' = {}
  /\ UNCHANGED <<bucket, from, count, log>>

OpenWindow ==
  /\ from' = now
  /\ count' = [ip \in Ips |-> 0]
  /\ UNCHANGED <<now, bucket, log, refused>>

RateInit ==
  /\ now = 0 /\ from = 0
  /\ bucket = [ip \in Ips |-> NoBucket]
  /\ count = [ip \in Ips |-> 0]
  /\ log = [ip \in Ips |-> <<>>]
  /\ refused = {}

RateNext ==
  \/ \E ip \in Ips : Admit(ip) \/ Refuse(ip)
  \/ Tick
  \/ OpenWindow

RateSpec == RateInit /\ [][RateNext]_rateVars

-----------------------------------------------------------------------------
(* Properties *)

\* In any stretch of time, whatever came before it, check admits no more than a full
\* bucket and what the stretch itself brings.
AdmitsAtMost ==
  \A ip \in Ips : count[ip] * Period <= Full + (now - from) * Count

\* check refuses no request that it could have admitted under that limit: some stretch
\* of time that ends now would have had too many.
RefusesOnlyExcess ==
  \A ip \in refused : \E start \in 0 .. now :
    LET admitted == Cardinality({i \in DOMAIN log[ip] : log[ip][i] >= start})
    IN (admitted + 1) * Period > Full + (now - start) * Count
=============================================================================
