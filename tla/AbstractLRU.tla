---------------------------- MODULE AbstractLRU -----------------------------
(***************************************************************************)
(* What the least-recently-used cache promises to its callers: a map of at *)
(* most Size keys in which a new key displaces the one whose last use is   *)
(* the longest ago.  Fetching and storing are uses.  Storing a key that is *)
(* present counts as a use and leaves its value alone.                     *)
(***************************************************************************)
EXTENDS Integers, FiniteSets

CONSTANTS Key, Value, Size, Missing

VARIABLES
  content,   \* the value of every key, or Missing
  order,     \* <<j, k>> when key j was used before key k
  result,    \* what the last fetch returned
  open       \* FALSE once the cache has been freed

vars == <<content, order, result, open>>

Cached == {k \in Key : content[k] # Missing}

\* Key k is now the last used of the keys S.
Used(k, S) == {p \in order : p[1] # k /\ p[2] # k} \union {<<j, k>> : j \in S \ {k}}

\* What is known of the order once key k is gone.
Forget(k) == {p \in order : p[1] # k /\ p[2] # k}

Stalest(k) == k \in Cached /\ \A j \in Cached \ {k} : <<k, j>> \in order

Init ==
  /\ content = [k \in Key |-> Missing]
  /\ order = {}
  /\ result = Missing
  /\ open = TRUE

Fetch(k) ==
  /\ open
  /\ result' = content[k]
  /\ order' = IF k \in Cached THEN Used(k, Cached) ELSE order
  /\ UNCHANGED <<content, open>>

Refresh(k) ==
  /\ k \in Cached
  /\ order' = Used(k, Cached)
  /\ UNCHANGED content

Add(k, v) ==
  /\ k \notin Cached
  /\ Size = 0 \/ Cardinality(Cached) < Size
  /\ content' = [content EXCEPT ![k] = v]
  /\ order' = Used(k, Cached)

Displace(k, v) ==
  /\ k \notin Cached
  /\ Size # 0 /\ Cardinality(Cached) >= Size
  /\ \E j \in Key :
       /\ Stalest(j)
       /\ content' = [content EXCEPT ![j] = Missing, ![k] = v]
       /\ order' = Forget(j) \union {<<i, k>> : i \in Cached \ {j}}

Store(k, v) ==
  /\ open
  /\ Refresh(k) \/ Add(k, v) \/ Displace(k, v)
  /\ UNCHANGED <<result, open>>

Delete(k) ==
  /\ open
  /\ k \in Cached
  /\ content' = [content EXCEPT ![k] = Missing]
  /\ order' = Forget(k)
  /\ UNCHANGED <<result, open>>

Free ==
  /\ open
  /\ open' = FALSE
  /\ content' = [k \in Key |-> Missing]
  /\ order' = {}
  /\ UNCHANGED result

Next ==
  \/ \E k \in Key : Fetch(k) \/ Delete(k)
  \/ \E k \in Key, v \in Value : Store(k, v)
  \/ Free

Spec == Init /\ [][Next]_vars
=============================================================================
