------------------------------ MODULE JobLists ------------------------------
(***************************************************************************)
(* Sequences that carry jobs.  A key says which job an element of a queue  *)
(* or of the stream carries; an element that carries none has NoKey.       *)
(***************************************************************************)
EXTENDS Integers, Sequences, FiniteSetTheorems, TLAPS

NoKey == -3

\* The keys of s, by the key function f, are those of X, each of them once.
Lists(s, f, X) ==
    /\ \A i \in DOMAIN s : f[s[i]] # NoKey => f[s[i]] \in X
    /\ \A i, j \in DOMAIN s : f[s[i]] # NoKey /\ f[s[i]] = f[s[j]] => i = j
    /\ \A x \in X : \E i \in DOMAIN s : f[s[i]] = x
-----------------------------------------------------------------------------
LEMMA Element ==
    ASSUME NEW T, NEW s \in Seq(T), NEW i \in DOMAIN s
    PROVE  s[i] \in T
OBVIOUS

\* queue_pull, or the read of a message: the first element is the one that
\* its key is no longer listed with.
LEMMA ListsTail ==
    ASSUME NEW T, NEW s \in Seq(T), NEW f, NEW X, NoKey \notin X,
           s # <<>>, Lists(s, f, X)
    PROVE  /\ Tail(s) \in Seq(T)
           /\ Head(s) \in T
           /\ f[Head(s)] # NoKey => f[Head(s)] \in X
           /\ Lists(Tail(s), f, X \ {f[Head(s)]})
<1> DEFINE t == Tail(s)
<1>1. /\ t \in Seq(T) /\ Head(s) \in T /\ Head(s) = s[1]
      /\ Len(s) \in Nat /\ Len(s) >= 1 /\ Len(t) = Len(s) - 1
      /\ DOMAIN s = 1 .. Len(s) /\ DOMAIN t = 1 .. Len(t)
    OBVIOUS
<1>2. \A i \in DOMAIN t : t[i] = s[i + 1] /\ i + 1 \in DOMAIN s /\ i + 1 # 1
    BY <1>1
<1>3. f[Head(s)] # NoKey => f[Head(s)] \in X
    BY <1>1 DEF Lists
<1>4. ASSUME NEW i \in DOMAIN t, f[t[i]] # NoKey
      PROVE  f[t[i]] \in X \ {f[Head(s)]}
    <2>1. f[s[i + 1]] \in X /\ i + 1 \in DOMAIN s
        BY <1>2, <1>4 DEF Lists
    <2>2. f[s[i + 1]] # f[s[1]]
        BY <1>1, <1>2, <1>4, <2>1 DEF Lists
    <2>3. QED BY <1>1, <1>2, <2>1, <2>2
<1>5. ASSUME NEW i \in DOMAIN t, NEW j \in DOMAIN t, f[t[i]] # NoKey, f[t[i]] = f[t[j]]
      PROVE  i = j
    <2>1. i + 1 = j + 1
        BY <1>2, <1>5 DEF Lists
    <2>2. QED BY <1>1, <2>1
<1>6. ASSUME NEW x \in X \ {f[Head(s)]}
      PROVE  \E i \in DOMAIN t : f[t[i]] = x
    <2>1. PICK i \in DOMAIN s : f[s[i]] = x
        BY DEF Lists
    <2>2. i # 1 /\ i - 1 \in DOMAIN t /\ t[i - 1] = s[i]
        BY <1>1, <1>6, <2>1
    <2>3. QED BY <2>1, <2>2
<1>7. Lists(t, f, X \ {f[Head(s)]})
    BY <1>4, <1>5, <1>6 DEF Lists
<1>8. QED BY <1>1, <1>3, <1>7

\* queue_push, or the sending of a message that carries a job.
LEMMA ListsAppend ==
    ASSUME NEW T, NEW s \in Seq(T), NEW e \in T, NEW f, NEW X,
           f[e] # NoKey, f[e] \notin X, Lists(s, f, X)
    PROVE  /\ Append(s, e) \in Seq(T)
           /\ Lists(Append(s, e), f, X \cup {f[e]})
<1> DEFINE t == Append(s, e)
<1>1. /\ t \in Seq(T) /\ Len(s) \in Nat /\ Len(t) = Len(s) + 1
      /\ DOMAIN s = 1 .. Len(s) /\ DOMAIN t = 1 .. Len(t)
      /\ t[Len(t)] = e /\ Len(t) \in DOMAIN t
    OBVIOUS
<1>2. \A i \in DOMAIN t : i # Len(t) => i \in DOMAIN s /\ t[i] = s[i]
    BY <1>1
<1>3. \A i \in DOMAIN s : i \in DOMAIN t /\ t[i] = s[i]
    BY <1>1
<1>4. ASSUME NEW i \in DOMAIN t, f[t[i]] # NoKey
      PROVE  f[t[i]] \in X \cup {f[e]}
    BY <1>1, <1>2, <1>4 DEF Lists
<1>5. ASSUME NEW i \in DOMAIN t, NEW j \in DOMAIN t, f[t[i]] # NoKey, f[t[i]] = f[t[j]]
      PROVE  i = j
    <2>1. CASE i # Len(t) /\ j # Len(t)
        BY <1>2, <1>5, <2>1 DEF Lists
    <2>2. CASE i = Len(t) /\ j # Len(t)
        BY <1>1, <1>2, <1>5, <2>2 DEF Lists
    <2>3. CASE i # Len(t) /\ j = Len(t)
        BY <1>1, <1>2, <1>5, <2>3 DEF Lists
    <2>4. QED BY <2>1, <2>2, <2>3
<1>6. ASSUME NEW x \in X \cup {f[e]}
      PROVE  \E i \in DOMAIN t : f[t[i]] = x
    BY <1>1, <1>3 DEF Lists
<1>7. Lists(t, f, X \cup {f[e]})
    BY <1>4, <1>5, <1>6 DEF Lists
<1>8. QED BY <1>1, <1>7

\* The sending of a message that carries no job.
LEMMA ListsAppendOther ==
    ASSUME NEW T, NEW s \in Seq(T), NEW e \in T, NEW f, NEW X,
           NoKey \notin X, f[e] = NoKey, Lists(s, f, X)
    PROVE  /\ Append(s, e) \in Seq(T)
           /\ Lists(Append(s, e), f, X)
<1> DEFINE t == Append(s, e)
<1>1. /\ t \in Seq(T) /\ Len(s) \in Nat /\ Len(t) = Len(s) + 1
      /\ DOMAIN s = 1 .. Len(s) /\ DOMAIN t = 1 .. Len(t)
      /\ t[Len(t)] = e /\ Len(t) \in DOMAIN t
    OBVIOUS
<1>2. \A i \in DOMAIN t : f[t[i]] # NoKey => i \in DOMAIN s /\ t[i] = s[i]
    BY <1>1
<1>3. \A i \in DOMAIN s : i \in DOMAIN t /\ t[i] = s[i]
    BY <1>1
<1>4. Lists(t, f, X)
    BY <1>2, <1>3 DEF Lists
<1>5. QED BY <1>1, <1>4

\* A queue is no longer than the number of the jobs it can hold.
LEMMA ListsLen ==
    ASSUME NEW T, NEW s \in Seq(T), NEW f, NEW X, NEW Y,
           Lists(s, f, X), \A i \in DOMAIN s : f[s[i]] # NoKey /\ f[s[i]] \in Y,
           IsFiniteSet(Y)
    PROVE  Len(s) <= Cardinality(Y)
<1> DEFINE g == [i \in 1 .. Len(s) |-> f[s[i]]]
<1>1. Len(s) \in Nat /\ DOMAIN s = 1 .. Len(s)
    OBVIOUS
<1>2. g \in Injection(1 .. Len(s), Y)
    <2>1. g \in [1 .. Len(s) -> Y]
        BY <1>1
    <2>2. ASSUME NEW i \in 1 .. Len(s), NEW j \in 1 .. Len(s), g[i] = g[j]
          PROVE  i = j
        BY <1>1, <2>2 DEF Lists
    <2>3. QED BY <2>1, <2>2 DEF Injection, IsInjective
<1>3. Cardinality(1 .. Len(s)) <= Cardinality(Y)
    BY <1>2, FS_Injection
<1>4. Cardinality(1 .. Len(s)) = Len(s)
    BY <1>1, FS_Interval
<1>5. QED BY <1>3, <1>4
=============================================================================
