------------------------ MODULE RequestWatcherProofs ------------------------
(***************************************************************************)
(* Whatever the number of requests and of failing reads, the polling chain *)
(* of the watcher is single and lives exactly as long as requests are      *)
(* watched, no connection is answered twice, and the end of a round        *)
(* removes the entries that it answered and no other.                      *)
(***************************************************************************)
EXTENDS RequestWatcher, FiniteSetTheorems, TLAPS

IsSequence(s) == s \in Seq({s[k] : k \in DOMAIN s})

\* OneChain counts, so it needs that what is counted are sequences
IInv == /\ IsSequence(requests)
        /\ IsSequence(rounds)
        /\ timers \in Nat
        /\ OneChain

\* A sequence over any set is a sequence.
LEMMA SequenceOf ==
    ASSUME NEW S, NEW s \in Seq(S)
    PROVE  IsSequence(s)
<1>1. DOMAIN s = 1 .. Len(s) /\ Len(s) \in Nat /\ s = [k \in 1 .. Len(s) |-> s[k]]
  OBVIOUS
<1> QED
  BY <1>1 DEF IsSequence

\* So is a function on 1 .. n, and n is its length.
LEMMA FunctionIsSequence ==
    ASSUME NEW n \in Nat, NEW s, s = [k \in 1 .. n |-> s[k]]
    PROVE  IsSequence(s) /\ Len(s) = n
<1> DEFINE S == {s[k] : k \in 1 .. n}
<1>1. s \in [1 .. n -> S]
  OBVIOUS
<1>2. s \in Seq(S) /\ Len(s) = n
  BY <1>1
<1> QED
  BY <1>2, SequenceOf

\* Appending gives a sequence that is one longer.
LEMMA Appended ==
    ASSUME NEW s, IsSequence(s), NEW e
    PROVE  IsSequence(Append(s, e)) /\ Len(Append(s, e)) = Len(s) + 1
<1> DEFINE S == {s[k] : k \in DOMAIN s} \cup {e}
<1>1. s \in Seq(S)
  <2>1. s \in Seq({s[k] : k \in DOMAIN s})
    BY DEF IsSequence
  <2> QED
    BY <2>1
<1>2. Append(s, e) \in Seq(S) /\ Len(Append(s, e)) = Len(s) + 1
  BY <1>1
<1> QED
  BY <1>2, SequenceOf

\* What is left of a sequence after a splice is a sequence.
LEMMA SplicedIsSequence ==
    ASSUME NEW s, IsSequence(s), NEW toDelete
    PROVE  IsSequence(Spliced(s, toDelete)) /\ Len(Spliced(s, toDelete)) \in Nat
<1> DEFINE D == {toDelete[k] : k \in DOMAIN toDelete}
           n == Cardinality(DOMAIN s \ D)
<1>1. Len(s) \in Nat /\ DOMAIN s = 1 .. Len(s)
  BY DEF IsSequence
<1>2. IsFiniteSet(DOMAIN s)
  BY <1>1, FS_Interval
<1>3. n \in Nat
  BY <1>2, FS_Difference, FS_CardinalityType
<1>4. Spliced(s, toDelete) = [k \in 1 .. n |-> Spliced(s, toDelete)[k]]
  BY DEF Spliced, Without
<1> QED
  BY <1>3, <1>4, FunctionIsSequence

\* Without the round whose read completed there is one round less.
LEMMA OneRoundLess ==
    ASSUME IsSequence(rounds), NEW k \in DOMAIN rounds
    PROVE  IsSequence(AllBut(k)) /\ Len(AllBut(k)) = Len(rounds) - 1 /\ Len(rounds) >= 1
<1>1. Len(rounds) \in Nat /\ DOMAIN rounds = 1 .. Len(rounds)
  BY DEF IsSequence
<1>2. Len(rounds) - 1 \in Nat
  BY <1>1
<1>3. AllBut(k) = [j \in 1 .. Len(rounds) - 1 |-> AllBut(k)[j]]
  BY DEF AllBut
<1> HIDE DEF AllBut
<1> QED
  BY <1>1, <1>2, <1>3, FunctionIsSequence

\* checkRequest hands the chain on: to a read or to a timeout, unless the
\* list has become empty.
LEMMA CheckKeepsOneChain ==
    ASSUME IInv,
           NEW STATE index, NEW STATE toDelete, NEW STATE others, IsSequence(others),
           NEW STATE armed, armed \in Nat, armed + Len(others) = 0, Len(requests) > 0,
           Check(index, toDelete, others, armed)
    PROVE  IInv'
<1>1. Len(others) \in Nat /\ Len(requests) \in Nat
  BY DEF IsSequence, IInv
<1>2. Len(others) = 0 /\ armed = 0
  BY <1>1
<1>3. CASE index <= Len(requests)
  <2> DEFINE r == [index |-> index, toDelete |-> toDelete, therequest |-> requests[index]]
  <2>1. /\ rounds' = Append(others, r)
        /\ timers' = armed /\ requests' = requests
    BY <1>3 DEF Check
  <2>2. IsSequence(Append(others, r)) /\ Len(Append(others, r)) = Len(others) + 1
    <3> HIDE DEF r
    <3> QED
      BY Appended
  <2> QED
    <3>1. rounds' = Append(others, r) /\ timers' = 0 /\ requests' = requests
      BY <1>2, <2>1
    <3> HIDE DEF r
    <3>2. IsSequence(rounds') /\ Len(rounds') = 1
      BY <1>2, <2>2, <3>1
    <3> QED
      BY <1>1, <3>1, <3>2 DEF IInv, OneChain
<1>4. CASE ~(index <= Len(requests))
  <2>1. /\ rounds' = others
        /\ requests' = Spliced(requests, toDelete)
        /\ timers' = IF Len(requests') > 0 THEN armed + 1 ELSE armed
    BY <1>4 DEF Check
  <2>2. IsSequence(requests') /\ Len(requests') \in Nat
    BY <2>1, SplicedIsSequence DEF IInv
  <2>3. IsSequence(rounds') /\ Len(rounds') = 0
    BY <1>2, <2>1
  <2>4. timers' = IF Len(requests') = 0 THEN 0 ELSE 1
    BY <1>2, <2>1, <2>2
  <2> QED
    BY <2>2, <2>3, <2>4 DEF IInv, OneChain
<1> QED
  BY <1>3, <1>4

\* At the start nothing is watched and nothing polls ...
LEMMA InitChain == Init => IInv
<1> SUFFICES ASSUME Init PROVE IInv
  OBVIOUS
<1>1. requests = << >> /\ rounds = << >> /\ timers = 0
  BY DEF Init
<1>2. << >> \in Seq({})
  OBVIOUS
<1>3. IsSequence(<< >>)
  BY <1>2, SequenceOf
<1> QED
  BY <1>1, <1>3 DEF IInv, OneChain

\* ... and every step keeps polling and watching together.
LEMMA NextChain == IInv /\ [Next]_vars => IInv'
<1> SUFFICES ASSUME IInv, [Next]_vars PROVE IInv'
  OBVIOUS
<1>0. Len(requests) \in Nat /\ Len(rounds) \in Nat /\ DOMAIN rounds = 1 .. Len(rounds)
  BY DEF IInv, IsSequence
<1>1. ASSUME checkRequests PROVE IInv'
  <2>1. timers > 0 /\ Check(1, << >>, rounds, timers - 1)
    BY <1>1 DEF checkRequests
  <2>2. timers = 1 /\ Len(rounds) = 0 /\ Len(requests) > 0
    BY <1>0, <2>1 DEF IInv, OneChain
  <2>3. IsSequence(rounds) /\ timers - 1 \in Nat /\ (timers - 1) + Len(rounds) = 0
    BY <2>2 DEF IInv
  <2> QED
    BY <2>1, <2>2, <2>3, CheckKeepsOneChain
<1>2. ASSUME NEW k \in DOMAIN rounds, NEW STATE index, NEW STATE toDelete,
             Check(index, toDelete, AllBut(k), timers)
      PROVE  IInv'
  <2>1. IsSequence(AllBut(k)) /\ Len(AllBut(k)) = Len(rounds) - 1 /\ Len(rounds) >= 1
    BY OneRoundLess DEF IInv
  <2>2. timers = 0 /\ Len(rounds) = 1 /\ Len(requests) > 0
    BY <1>0, <2>1 DEF IInv, OneChain
  <2>3. timers \in Nat /\ timers + Len(AllBut(k)) = 0
    BY <2>1, <2>2
  <2> QED
    BY <1>2, <2>1, <2>2, <2>3, CheckKeepsOneChain
<1>3. ASSUME NEW k \in DOMAIN rounds, ReadFinished(k) \/ ReadOpen(k) \/ ReadFails(k)
      PROVE  IInv'
  BY <1>2, <1>3 DEF ReadFinished, ReadOpen, ReadFails
<1>4. ASSUME NEW i \in Id, addRequest(i) PROVE IInv'
  <2>1. /\ requests' = Append(requests, i) /\ rounds' = rounds
        /\ timers' = IF Len(requests') = 1 THEN timers + 1 ELSE timers
    BY <1>4 DEF addRequest
  <2>2. IsSequence(requests') /\ Len(requests') = Len(requests) + 1
    BY <2>1, Appended DEF IInv
  <2>3. timers' \in Nat /\ timers' + Len(rounds') = 1
    <3>1. CASE Len(requests) = 0
      BY <1>0, <2>1, <2>2, <3>1 DEF IInv, OneChain
    <3>2. CASE Len(requests) # 0
      BY <1>0, <2>1, <2>2, <3>2 DEF IInv, OneChain
    <3> QED
      BY <3>1, <3>2
  <2>4. Len(requests') # 0
    BY <1>0, <2>2
  <2> QED
    BY <2>1, <2>2, <2>3, <2>4 DEF IInv, OneChain
<1>5. ASSUME UNCHANGED <<requests, timers, rounds>> PROVE IInv'
  BY <1>5 DEF IInv, OneChain
<1> QED
  BY <1>1, <1>3, <1>4, <1>5 DEF Next, Polling, Deleted, Finish, vars

\* As long as requests are watched there is exactly one timeout set or one
\* round in progress, and none when the list is empty (addRequest sets a
\* timeout only for the first request and every round hands the chain on).
THEOREM ChainIsSingle == Spec => []OneChain
<1>1. Init => IInv
  BY InitChain
<1>2. IInv /\ [Next]_vars => IInv'
  BY NextChain
<1>3. IInv => OneChain
  BY DEF IInv
<1> QED
  BY <1>1, <1>2, <1>3, PTL DEF Spec

-----------------------------------------------------------------------------
(* What a splice leaves: the elements at the other positions, each once. *)

\* Positions of an array are finitely many.
LEMMA PositionsFinite ==
    ASSUME NEW n \in Nat, NEW A \in SUBSET (1 .. n)
    PROVE  IsFiniteSet(A) /\ Cardinality(A) \in Nat
<1>1. IsFiniteSet(1 .. n)
  BY FS_Interval
<1>2. IsFiniteSet(A)
  BY <1>1, FS_Subset
<1> QED
  BY <1>2, FS_CardinalityType

\* Count(A, p) is the place that p has in the set A of positions.
Count(A, p) == Cardinality({q \in A : q <= p})

\* The positions of a set are numbered without gaps and without repetition.
LEMMA CountsDiffer ==
    ASSUME NEW n \in Nat, NEW A \in SUBSET (1 .. n)
    PROVE  /\ \A p \in A : Count(A, p) \in 1 .. Cardinality(A)
           /\ \A p, q \in A : Count(A, p) = Count(A, q) => p = q
<1>1. IsFiniteSet(A) /\ Cardinality(A) \in Nat
  BY PositionsFinite
<1>2. ASSUME NEW p \in A PROVE Count(A, p) \in 1 .. Cardinality(A)
  <2> DEFINE B == {q \in A : q <= p}
  <2>1. p \in B /\ B \in SUBSET A
    OBVIOUS
  <2>2. IsFiniteSet(B) /\ Cardinality(B) \in Nat /\ Cardinality(B) <= Cardinality(A)
    BY <1>1, <2>1, FS_Subset, FS_CardinalityType
  <2>3. Cardinality(B) # 0
    BY <2>1, <2>2, FS_EmptySet
  <2> QED
    BY <1>1, <2>2, <2>3 DEF Count
<1>3. ASSUME NEW p \in A, NEW q \in A, p < q PROVE Count(A, p) # Count(A, q)
  <2> DEFINE B == {x \in A : x <= p}
             C == {x \in A : x <= q}
  <2>0. \A x \in A : x \in Nat
    OBVIOUS
  <2>1. \A x \in A : x <= p => x <= q
    BY <1>3, <2>0
  <2>2. q <= q /\ ~(q <= p)
    BY <1>3, <2>0
  <2>3. B \in SUBSET C /\ q \in C /\ q \notin B /\ C \in SUBSET A
    BY <2>1, <2>2
  <2>4. IsFiniteSet(C)
    BY <1>1, <2>3, FS_Subset
  <2>5. Cardinality(C) # Cardinality(B)
    BY <2>3, <2>4, FS_Subset
  <2> QED
    BY <2>5 DEF Count
<1> QED
  BY <1>2, <1>3

\* Every place is taken.
LEMMA CountsReachAll ==
    ASSUME NEW n \in Nat, NEW A \in SUBSET (1 .. n), NEW k \in 1 .. Cardinality(A)
    PROVE  \E p \in A : Count(A, p) = k
<1> DEFINE N == Cardinality(A)
           f == [p \in A |-> Count(A, p)]
<1>1. IsFiniteSet(A) /\ N \in Nat
  BY PositionsFinite
<1>2. IsFiniteSet(1 .. N) /\ Cardinality(1 .. N) = N
  BY <1>1, FS_Interval
<1>3. /\ \A p \in A : Count(A, p) \in 1 .. N
      /\ \A p, q \in A : Count(A, p) = Count(A, q) => p = q
  BY CountsDiffer
<1>4. f \in [A -> 1 .. N] /\ \A p \in A : f[p] = Count(A, p)
  BY <1>3
<1> HIDE DEF N, f
<1>5. f \in Injection(A, 1 .. N)
  BY <1>3, <1>4 DEF Injection, IsInjective
<1>6. f \in Surjection(A, 1 .. N)
  BY <1>1, <1>2, <1>5, FS_Injection DEF N
<1> QED
  BY <1>4, <1>6 DEF Surjection, N

\* t is s without the positions D.
LEMMA SplicedElements ==
    ASSUME NEW S, NEW s \in Seq(S), NEW toDelete,
           NEW D, D = {toDelete[k] : k \in DOMAIN toDelete}, NEW t, t = Spliced(s, toDelete)
    PROVE  /\ t \in Seq(S)
           /\ \A k \in DOMAIN t : \E p \in DOMAIN s \ D : t[k] = s[p] /\ Count(DOMAIN s \ D, p) = k
           /\ \A p \in DOMAIN s \ D : \E k \in DOMAIN t : t[k] = s[p]
<1> DEFINE A == DOMAIN s \ D
           n == Cardinality(A)
<1>1. Len(s) \in Nat /\ A \in SUBSET (1 .. Len(s)) /\ A \subseteq DOMAIN s
  OBVIOUS
<1>2. IsFiniteSet(A) /\ n \in Nat
  BY <1>1, PositionsFinite
<1>3. t = [k \in 1 .. n |-> s[Kept(s, D, k)]]
  BY DEF Spliced, Without
<1>4. \A k : Kept(s, D, k) = CHOOSE p \in A : Count(A, p) = k
  BY DEF Kept, Count
<1> HIDE DEF A, n
<1>5. ASSUME NEW k \in 1 .. n PROVE Kept(s, D, k) \in A /\ Count(A, Kept(s, D, k)) = k
  <2>1. \E p \in A : Count(A, p) = k
    BY <1>1, CountsReachAll DEF n
  <2> QED
    BY <1>4, <2>1
<1>6. ASSUME NEW p \in A PROVE Count(A, p) \in 1 .. n /\ Kept(s, D, Count(A, p)) = p
  <2>1. Count(A, p) \in 1 .. n /\ \A q \in A : Count(A, q) = Count(A, p) => q = p
    BY <1>1, CountsDiffer DEF n
  <2> QED
    BY <1>5, <2>1
<1>7. DOMAIN t = 1 .. n /\ \A k \in 1 .. n : t[k] = s[Kept(s, D, k)]
  BY <1>3
<1>8. t \in Seq(S)
  <2>1. \A p \in DOMAIN s : s[p] \in S
    OBVIOUS
  <2>2. t \in [1 .. n -> S]
    BY <1>1, <1>3, <1>5, <2>1
  <2> QED
    BY <1>2, <2>2
<1>9. \A k \in DOMAIN t : \E p \in A : t[k] = s[p] /\ Count(A, p) = k
  BY <1>5, <1>7
<1>10. \A p \in A : \E k \in DOMAIN t : t[k] = s[p]
  BY <1>6, <1>7
<1> QED
  BY <1>8, <1>9, <1>10 DEF A

-----------------------------------------------------------------------------
(***************************************************************************)
(* Who is watched.  D are the positions that the round will remove: whoever*)
(* is there was answered, and nobody else who is watched.                  *)
(***************************************************************************)
Entries(reqs, D, rep, st, del) ==
    /\ reqs \in Seq(Id)
    /\ \A p, q \in DOMAIN reqs : reqs[p] = reqs[q] => p = q
    /\ \A p \in DOMAIN reqs : rep[reqs[p]] = IF p \in D THEN 1 ELSE 0
    /\ \A p \in DOMAIN reqs : p \notin D => st[reqs[p]] # "none"
    /\ \A i \in Id : (\A p \in DOMAIN reqs : reqs[p] # i) =>
                         rep[i] = 1 \/ (rep[i] = 0 /\ st[i] = "none")
    /\ \A i \in Id : rep[i] = 0 => i \notin del

Doomed == {p \in Nat : \E k \in DOMAIN rounds :
                           \E d \in DOMAIN rounds[k].toDelete : rounds[k].toDelete[d] = p}

\* A round reads the request it has the index of, and removes earlier ones.
RoundOK(r) ==
    /\ r \in Round
    /\ r.index \in DOMAIN requests /\ requests[r.index] = r.therequest
    /\ \A d \in DOMAIN r.toDelete : r.toDelete[d] < r.index

StoreTypes == /\ store \in [Id -> {"none", "open", "finished"}]
              /\ deleting \subseteq Id
              /\ replies \in [Id -> Nat]
              /\ errors \in 0 .. MaxErrors

WInv == /\ StoreTypes
        /\ rounds \in Seq(Round) /\ \A k \in DOMAIN rounds : RoundOK(rounds[k])
        /\ Entries(requests, Doomed, replies, store, deleting)

\* A splice removes those who were answered, and nobody else.
LEMMA SplicedEntries ==
    ASSUME NEW reqs, NEW toDelete, NEW rep, NEW st, NEW del,
           Entries(reqs, {toDelete[k] : k \in DOMAIN toDelete}, rep, st, del)
    PROVE  Entries(Spliced(reqs, toDelete), {}, rep, st, del)
<1> DEFINE D == {toDelete[k] : k \in DOMAIN toDelete}
           A == DOMAIN reqs \ D
           t == Spliced(reqs, toDelete)
<1>1. /\ reqs \in Seq(Id)
      /\ \A p, q \in DOMAIN reqs : reqs[p] = reqs[q] => p = q
      /\ \A p \in DOMAIN reqs : rep[reqs[p]] = IF p \in D THEN 1 ELSE 0
      /\ \A p \in DOMAIN reqs : p \notin D => st[reqs[p]] # "none"
      /\ \A i \in Id : (\A p \in DOMAIN reqs : reqs[p] # i) =>
                           rep[i] = 1 \/ (rep[i] = 0 /\ st[i] = "none")
      /\ \A i \in Id : rep[i] = 0 => i \notin del
  BY DEF Entries
<1>2. /\ t \in Seq(Id)
      /\ \A k \in DOMAIN t : \E p \in A : t[k] = reqs[p] /\ Count(A, p) = k
      /\ \A p \in A : \E k \in DOMAIN t : t[k] = reqs[p]
  <2>1. reqs \in Seq(Id)
    BY <1>1
  <2> QED
    BY <2>1, SplicedElements
<1> HIDE DEF D, t
<1>3. \A k, l \in DOMAIN t : t[k] = t[l] => k = l
  BY <1>1, <1>2
<1>4. \A k \in DOMAIN t : rep[t[k]] = 0 /\ st[t[k]] # "none"
  BY <1>1, <1>2
<1>5. ASSUME NEW i \in Id, \A k \in DOMAIN t : t[k] # i
      PROVE  rep[i] = 1 \/ (rep[i] = 0 /\ st[i] = "none")
  <2>1. CASE \A p \in DOMAIN reqs : reqs[p] # i
    BY <1>1, <2>1
  <2>2. CASE \E p \in DOMAIN reqs : reqs[p] = i
    BY <1>1, <1>2, <1>5, <2>2
  <2> QED
    BY <2>1, <2>2
<1>6. Entries(t, {}, rep, st, del)
  BY <1>1, <1>2, <1>3, <1>4, <1>5 DEF Entries
<1> QED
  BY <1>6 DEF t

\* checkRequest goes on to a read of the next entry, or ends the round.
LEMMA CheckKeepsEntries ==
    ASSUME NEW STATE index, index \in Nat \ {0},
           NEW STATE toDelete, toDelete \in Seq(Nat \ {0}),
           \A d \in DOMAIN toDelete : toDelete[d] < index,
           NEW STATE armed, Check(index, toDelete, << >>, armed), StoreTypes',
           Entries(requests, {toDelete[d] : d \in DOMAIN toDelete}, replies', store', deleting')
    PROVE  WInv'
<1> DEFINE D == {toDelete[d] : d \in DOMAIN toDelete}
<1>1. requests \in Seq(Id)
  BY DEF Entries
<1>2. CASE index <= Len(requests)
  <2> DEFINE r == [index |-> index, toDelete |-> toDelete, therequest |-> requests[index]]
  <2>1. requests' = requests /\ rounds' = Append(<< >>, r)
    BY <1>2 DEF Check
  <2>2. index \in DOMAIN requests /\ requests[index] \in Id
    BY <1>1, <1>2
  <2>3. r \in Round /\ r.index = index /\ r.toDelete = toDelete /\ r.therequest = requests[index]
    BY <2>2 DEF Round
  <2> HIDE DEF r
  <2>4. rounds' \in Seq(Round) /\ DOMAIN rounds' = {1} /\ rounds'[1] = r
    BY <2>1, <2>3
  <2>5. \A k \in DOMAIN rounds' : RoundOK(rounds[k])'
    BY <2>1, <2>2, <2>3, <2>4 DEF RoundOK
  <2>6. \A p \in DOMAIN requests : p \in Doomed' <=> p \in D
    <3>1. \A p \in DOMAIN requests : p \in Nat
      BY <1>1
    <3> QED
      BY <2>3, <2>4, <3>1 DEF Doomed
  <2>7. Entries(requests, Doomed, replies, store, deleting)'
    BY <2>1, <2>6 DEF Entries
  <2> QED
    BY <2>4, <2>5, <2>7 DEF WInv
<1>3. CASE ~(index <= Len(requests))
  <2>1. requests' = Spliced(requests, toDelete) /\ rounds' = << >>
    BY <1>3 DEF Check
  <2>2. Entries(requests', {}, replies', store', deleting')
    BY <2>1, SplicedEntries
  <2>3. Doomed' = {} /\ rounds' \in Seq(Round) /\ \A k \in DOMAIN rounds' : RoundOK(rounds[k])'
    BY <2>1 DEF Doomed
  <2> QED
    BY <2>2, <2>3 DEF WInv
<1> QED
  BY <1>2, <1>3

\* Nothing is watched at the start.
LEMMA InitEntries == Init => WInv
<1> SUFFICES ASSUME Init PROVE WInv
  OBVIOUS
<1>1. requests = << >> /\ rounds = << >> /\ StoreTypes
  BY MaxErrorsAssumption DEF Init, StoreTypes
<1>2. Entries(requests, Doomed, replies, store, deleting)
  BY <1>1 DEF Init, Entries
<1> QED
  BY <1>1, <1>2 DEF WInv

\* A round is the only one, and no timeout is set beside it.
LEMMA OnlyRound ==
    ASSUME IInv, WInv, NEW k \in DOMAIN rounds
    PROVE  /\ DOMAIN rounds = {k} /\ AllBut(k) = << >> /\ RoundOK(rounds[k])
           /\ Doomed = {rounds[k].toDelete[d] : d \in DOMAIN rounds[k].toDelete}
<1>1. Len(rounds) \in Nat /\ DOMAIN rounds = 1 .. Len(rounds) /\ timers \in Nat
  BY DEF IInv, IsSequence
<1>2. Len(rounds) = 1
  BY <1>1 DEF IInv, OneChain
<1>3. DOMAIN rounds = {k}
  BY <1>1, <1>2
<1>4. IsSequence(AllBut(k)) /\ Len(AllBut(k)) = 0
  BY <1>2, OneRoundLess DEF IInv
<1>5. AllBut(k) = << >>
  BY <1>4 DEF IsSequence
<1>6. RoundOK(rounds[k])
  BY DEF WInv
<1>7. \A d \in DOMAIN rounds[k].toDelete : rounds[k].toDelete[d] \in Nat
  BY <1>6 DEF RoundOK, Round
<1>8. Doomed = {rounds[k].toDelete[d] : d \in DOMAIN rounds[k].toDelete}
  BY <1>3, <1>7 DEF Doomed
<1> QED
  BY <1>3, <1>5, <1>6, <1>8

\* The read found the request open, gone or not at all: nothing was answered.
LEMMA ReadNothingKeeps ==
    ASSUME IInv, WInv, NEW STATE k, k \in DOMAIN rounds,
           Check(rounds[k].index + 1, rounds[k].toDelete, AllBut(k), timers),
           UNCHANGED <<store, deleting, replies>>, errors' \in 0 .. MaxErrors
    PROVE  WInv'
<1> DEFINE r == rounds[k]
<1>1. /\ AllBut(k) = << >> /\ RoundOK(r)
      /\ Doomed = {r.toDelete[d] : d \in DOMAIN r.toDelete}
  BY OnlyRound
<1>2. /\ r.index + 1 \in Nat \ {0} /\ r.toDelete \in Seq(Nat \ {0})
      /\ \A d \in DOMAIN r.toDelete : r.toDelete[d] < r.index + 1
  BY <1>1 DEF RoundOK, Round
<1>3. /\ StoreTypes'
      /\ Entries(requests, {r.toDelete[d] : d \in DOMAIN r.toDelete}, replies', store', deleting')
  BY <1>1 DEF WInv, StoreTypes
<1> QED
  BY <1>1, <1>2, <1>3, CheckKeepsEntries

\* A read that finds a finished request answers it, and dooms its position.
LEMMA ReadFinishedKeeps ==
    ASSUME IInv, WInv, NEW STATE k, k \in DOMAIN rounds, ReadFinished(k)
    PROVE  WInv'
<1> DEFINE r == rounds[k]
           i == r.therequest
           toDelete == Append(r.toDelete, r.index)
           D == {r.toDelete[d] : d \in DOMAIN r.toDelete}
<1>1. /\ AllBut(k) = << >> /\ RoundOK(r) /\ Doomed = D
  BY OnlyRound
<1>2. /\ r.index \in Nat \ {0} /\ r.toDelete \in Seq(Nat \ {0}) /\ i \in Id
      /\ r.index \in DOMAIN requests /\ requests[r.index] = i
      /\ \A d \in DOMAIN r.toDelete : r.toDelete[d] < r.index
  BY <1>1 DEF RoundOK, Round
<1>3. /\ toDelete \in Seq(Nat \ {0})
      /\ {toDelete[d] : d \in DOMAIN toDelete} = D \cup {r.index}
  <2> DEFINE n == Len(r.toDelete)
  <2>1. n \in Nat /\ DOMAIN r.toDelete = 1 .. n
    BY <1>2
  <2>2. /\ toDelete \in Seq(Nat \ {0}) /\ DOMAIN toDelete = 1 .. n + 1
        /\ toDelete[n + 1] = r.index /\ \A d \in 1 .. n : toDelete[d] = r.toDelete[d]
    BY <1>2, <2>1
  <2> HIDE DEF n, toDelete
  <2>3. 1 .. n + 1 = (1 .. n) \cup {n + 1}
    BY <2>1
  <2> QED
    BY <2>1, <2>2, <2>3
<1>4. \A d \in DOMAIN toDelete : toDelete[d] < r.index + 1
  BY <1>2
<1>5. r.index \notin D
  BY <1>2
<1>6. /\ Check(r.index + 1, toDelete, << >>, timers)
      /\ replies' = [replies EXCEPT ![i] = @ + 1] /\ deleting' = deleting \cup {i}
      /\ store' = store /\ errors' = errors
  BY <1>1 DEF ReadFinished
<1> HIDE DEF D, toDelete, r, i
<1>7. StoreTypes'
  BY <1>2, <1>6 DEF WInv, StoreTypes
<1>8. Entries(requests, D \cup {r.index}, replies', store', deleting')
  <2>1. Entries(requests, D, replies, store, deleting) /\ replies \in [Id -> Nat]
    BY <1>1 DEF WInv, StoreTypes
  <2>2. requests \in Seq(Id) /\ \A p, q \in DOMAIN requests : requests[p] = requests[q] => p = q
    BY <2>1 DEF Entries
  <2>3. \A p \in DOMAIN requests : requests[p] \in Id
    BY <2>2
  <2>4. replies'[i] = 1
    BY <1>2, <1>5, <1>6, <2>1 DEF Entries
  <2>5. \A j \in Id : j # i => replies'[j] = replies[j]
    BY <1>6, <2>1
  <2>6. \A p \in DOMAIN requests : p # r.index => requests[p] # i
    BY <1>2, <2>2
  <2>7. \A p \in DOMAIN requests :
            replies'[requests[p]] = IF p \in D \cup {r.index} THEN 1 ELSE 0
    BY <1>2, <2>1, <2>3, <2>4, <2>5, <2>6 DEF Entries
  <2>8. \A j \in Id : (\A p \in DOMAIN requests : requests[p] # j) =>
                          replies'[j] = 1 \/ (replies'[j] = 0 /\ store'[j] = "none")
    BY <1>6, <2>1, <2>4, <2>5 DEF Entries
  <2>9. \A j \in Id : replies'[j] = 0 => j \notin deleting'
    BY <1>6, <2>1, <2>4, <2>5 DEF Entries
  <2>10. \A p \in DOMAIN requests : p \notin D \cup {r.index} => store'[requests[p]] # "none"
    BY <1>6, <2>1 DEF Entries
  <2> QED
    BY <2>2, <2>7, <2>8, <2>9, <2>10 DEF Entries
<1>9. r.index + 1 \in Nat \ {0}
  BY <1>2
<1> QED
  BY <1>3, <1>4, <1>6, <1>7, <1>8, <1>9, CheckKeepsEntries DEF r, toDelete

\* A request that is added was never watched, and no round removes its position.
LEMMA AddKeeps ==
    ASSUME IInv, WInv, NEW i \in Id, addRequest(i)
    PROVE  WInv'
<1> DEFINE n == Len(requests)
<1>1. /\ store[i] = "none" /\ i \notin deleting /\ replies[i] = 0
      /\ store' = [store EXCEPT ![i] = "open"] /\ requests' = Append(requests, i)
      /\ UNCHANGED <<rounds, deleting, replies, errors>>
  BY DEF addRequest
<1>2. Entries(requests, Doomed, replies, store, deleting)
  BY DEF WInv
<1>3. n \in Nat /\ DOMAIN requests = 1 .. n /\ requests \in Seq(Id)
  BY <1>2 DEF Entries
<1>4. /\ requests' \in Seq(Id) /\ DOMAIN requests' = 1 .. n + 1
      /\ requests'[n + 1] = i /\ \A p \in 1 .. n : requests'[p] = requests[p]
  BY <1>1, <1>3
<1>5. /\ \A p \in 1 .. n + 1 : p \in 1 .. n \/ p = n + 1
      /\ n + 1 \notin 1 .. n /\ n + 1 \in 1 .. n + 1 /\ 1 .. n \subseteq 1 .. n + 1
  BY <1>3
<1>6. \A p \in 1 .. n : requests[p] \in Id /\ requests[p] # i
  BY <1>1, <1>2, <1>3 DEF Entries
<1>7. n + 1 \notin Doomed
  <2> SUFFICES ASSUME NEW k \in DOMAIN rounds, NEW d \in DOMAIN rounds[k].toDelete,
                      rounds[k].toDelete[d] = n + 1
               PROVE  FALSE
    BY DEF Doomed
  <2>1. rounds[k].toDelete[d] < rounds[k].index /\ rounds[k].index \in 1 .. n
    BY <1>3 DEF WInv, RoundOK
  <2> QED
    BY <1>3, <2>1
<1> HIDE DEF n
<1>8. StoreTypes'
  BY <1>1 DEF WInv, StoreTypes
<1>9. rounds' \in Seq(Round) /\ \A k \in DOMAIN rounds' : RoundOK(rounds[k])'
  BY <1>1, <1>3, <1>4, <1>5 DEF WInv, RoundOK
<1>10. \A j \in Id : store'[j] = IF j = i THEN "open" ELSE store[j]
  BY <1>1 DEF WInv, StoreTypes
<1>11. Entries(requests', Doomed, replies, store', deleting)
  <2>1. \A p, q \in 1 .. n + 1 : requests'[p] = requests'[q] => p = q
    BY <1>2, <1>3, <1>4, <1>5, <1>6 DEF Entries
  <2>2. \A p \in 1 .. n + 1 : replies[requests'[p]] = IF p \in Doomed THEN 1 ELSE 0
    BY <1>1, <1>2, <1>3, <1>4, <1>5, <1>7 DEF Entries
  <2>3. \A p \in 1 .. n + 1 : p \notin Doomed => store'[requests'[p]] # "none"
    BY <1>2, <1>3, <1>4, <1>5, <1>6, <1>10 DEF Entries
  <2>4. \A j \in Id : (\A p \in 1 .. n + 1 : requests'[p] # j) =>
                          replies[j] = 1 \/ (replies[j] = 0 /\ store'[j] = "none")
    BY <1>2, <1>3, <1>4, <1>5, <1>10 DEF Entries
  <2> QED
    BY <1>2, <1>4, <2>1, <2>2, <2>3, <2>4 DEF Entries
<1>12. Doomed' = Doomed
  BY <1>1 DEF Doomed
<1> QED
  BY <1>1, <1>8, <1>9, <1>11, <1>12 DEF WInv

\* A document is deleted only when its connection was answered.
LEMMA StoreKeeps ==
    ASSUME WInv, NEW i \in Id, Deleted(i) \/ Finish(i)
    PROVE  WInv'
<1>1. UNCHANGED <<requests, rounds, replies, errors>>
  BY DEF Deleted, Finish
<1>2. Entries(requests, Doomed, replies, store, deleting) /\ StoreTypes
  BY DEF WInv
<1>3. StoreTypes'
  BY <1>2 DEF StoreTypes, Deleted, Finish
<1>4. \A p \in DOMAIN requests : requests[p] \in Id
  BY <1>2 DEF Entries
<1>5. Entries(requests, Doomed, replies, store', deleting')
  <2>1. CASE Deleted(i)
    <3>1. i \in deleting /\ deleting' = deleting \ {i} /\ replies[i] # 0
          /\ \A j \in Id : store'[j] = IF j = i THEN "none" ELSE store[j]
      BY <1>2, <2>1 DEF Deleted, Entries, StoreTypes
    <3>2. \A p \in DOMAIN requests : p \notin Doomed => requests[p] # i
      BY <1>2, <3>1 DEF Entries
    <3> QED
      BY <1>2, <1>4, <3>1, <3>2 DEF Entries
  <2>2. CASE Finish(i)
    <3>1. store[i] = "open" /\ deleting' = deleting
          /\ \A j \in Id : store'[j] = IF j = i THEN "finished" ELSE store[j]
      BY <1>2, <2>2 DEF Finish, StoreTypes
    <3> QED
      BY <1>2, <1>4, <3>1 DEF Entries
  <2> QED
    BY <2>1, <2>2
<1>6. Doomed' = Doomed
  BY <1>1 DEF Doomed
<1>7. rounds' \in Seq(Round) /\ \A k \in DOMAIN rounds' : RoundOK(rounds[k])'
  BY <1>1 DEF WInv, RoundOK
<1> QED
  BY <1>1, <1>3, <1>5, <1>6, <1>7 DEF WInv

\* The timeout fires, while no round is in progress.
LEMMA TimeoutKeeps ==
    ASSUME IInv, WInv, checkRequests
    PROVE  WInv'
<1>1. /\ Check(1, << >>, rounds, timers - 1) /\ timers > 0
      /\ UNCHANGED <<store, deleting, replies, errors>>
  BY DEF checkRequests
<1>2. Len(rounds) \in Nat /\ timers \in Nat /\ IsSequence(rounds)
  BY DEF IInv, IsSequence
<1>3. Len(rounds) = 0
  BY <1>1, <1>2 DEF IInv, OneChain
<1>4. rounds = << >>
  BY <1>2, <1>3 DEF IsSequence
<1>5. Doomed = {}
  BY <1>4 DEF Doomed
<1> DEFINE none == << >>
<1>6. /\ none \in Seq(Nat \ {0}) /\ \A d \in DOMAIN none : none[d] < 1
      /\ {none[d] : d \in DOMAIN none} = {}
  OBVIOUS
<1>7. Check(1, none, << >>, timers - 1)
  BY <1>1, <1>4
<1>8. StoreTypes' /\ Entries(requests, {none[d] : d \in DOMAIN none}, replies', store', deleting')
  BY <1>1, <1>5, <1>6 DEF WInv, StoreTypes
<1> HIDE DEF none
<1>9. 1 \in Nat \ {0}
  OBVIOUS
<1> QED
  BY <1>6, <1>7, <1>8, <1>9, CheckKeepsEntries

\* Every step keeps what entries, answers and positions have to do with each other.
LEMMA NextEntries == IInv /\ WInv /\ [Next]_vars => WInv'
<1> SUFFICES ASSUME IInv, WInv, [Next]_vars PROVE WInv'
  OBVIOUS
<1>1. ASSUME NEW k \in DOMAIN rounds, ReadOpen(k) \/ ReadFails(k) PROVE WInv'
  <2>1. /\ Check(rounds[k].index + 1, rounds[k].toDelete, AllBut(k), timers)
        /\ UNCHANGED <<store, deleting, replies>>
    BY <1>1 DEF ReadOpen, ReadFails
  <2>2. errors \in 0 .. MaxErrors
    BY DEF WInv, StoreTypes
  <2>3. errors' \in 0 .. MaxErrors
    BY <1>1, <2>2, MaxErrorsAssumption DEF ReadOpen, ReadFails
  <2> QED
    BY <2>1, <2>3, ReadNothingKeeps
<1>2. ASSUME NEW k \in DOMAIN rounds, ReadFinished(k) PROVE WInv'
  BY <1>2, ReadFinishedKeeps
<1>3. CASE UNCHANGED vars
  BY <1>3 DEF vars, WInv, StoreTypes, RoundOK, Doomed
<1> QED
  BY <1>1, <1>2, <1>3, TimeoutKeeps, AddKeeps, StoreKeeps DEF Next, Polling

\* So that holds throughout.
LEMMA WatchAlways == Spec => [](IInv /\ WInv)
BY InitChain, NextChain, InitEntries, NextEntries, PTL DEF Spec

\* The variables of the watcher keep their types, the positions kept for the
\* removal and the fields of a round included.
THEOREM WatcherTyped == Spec => []TypeOK
<1>1. IInv /\ WInv => TypeOK
  BY DEF IInv, WInv, StoreTypes, Entries, TypeOK
<1> QED
  BY WatchAlways, <1>1, PTL

\* No connection is answered twice, however often its document is read while its
\* deletion is under way.
THEOREM NoSecondAnswer == Spec => []AnsweredOnce
<1>1. ASSUME WInv PROVE AnsweredOnce
  <2> SUFFICES ASSUME NEW i \in Id PROVE replies[i] <= 1
    BY DEF AnsweredOnce
  <2>1. \/ \E p \in DOMAIN requests : requests[p] = i
        \/ replies[i] = 1 \/ replies[i] = 0
    BY <1>1 DEF WInv, Entries
  <2>2. replies[i] = 1 \/ replies[i] = 0
    BY <1>1, <2>1 DEF WInv, Entries
  <2> QED
    BY <2>2
<1> QED
  BY WatchAlways, <1>1, PTL

\* The end of a round removes the entries it answered and no other, whatever was
\* added while it ran.
THEOREM WatchedTillAnswer == Spec => []WatchedUntilAnswered
<1>1. ASSUME WInv PROVE WatchedUntilAnswered
  <2> SUFFICES ASSUME NEW i \in Id, store[i] # "none" \/ replies[i] > 0
               PROVE  LET positions == {p \in DOMAIN requests : requests[p] = i}
                          removed == {p \in positions : \E k \in DOMAIN rounds :
                                  \E d \in DOMAIN rounds[k].toDelete : rounds[k].toDelete[d] = p}
                      IN  /\ Cardinality(positions) <= 1
                          /\ replies[i] = 0 <=> positions \ removed # {}
    BY DEF WatchedUntilAnswered
  <2> DEFINE positions == {p \in DOMAIN requests : requests[p] = i}
             removed == {p \in positions : \E k \in DOMAIN rounds :
                             \E d \in DOMAIN rounds[k].toDelete : rounds[k].toDelete[d] = p}
  <2>1. /\ Entries(requests, Doomed, replies, store, deleting)
        /\ \A p \in DOMAIN requests : p \in Nat
    BY <1>1 DEF WInv, Entries
  <2>2. \A p \in positions : p \in removed <=> p \in Doomed
    BY <2>1 DEF Doomed
  <2>3. positions = {} \/ \E p : positions = {p}
    <3>1. ASSUME NEW p \in DOMAIN requests, requests[p] = i PROVE positions = {p}
      <4>1. \A q \in DOMAIN requests : requests[q] = i => q = p
        BY <2>1, <3>1 DEF Entries
      <4> QED
        BY <3>1, <4>1
    <3> QED
      BY <3>1
  <2>4. Cardinality(positions) <= 1
    <3> HIDE DEF positions
    <3>1. CASE positions = {}
      BY <3>1, FS_EmptySet
    <3>2. ASSUME NEW p, positions = {p} PROVE Cardinality(positions) <= 1
      <4>1. Cardinality({p}) = 1
        BY FS_Singleton
      <4> QED
        BY <3>2, <4>1
    <3> QED
      BY <2>3, <3>1, <3>2
  <2>5. ASSUME replies[i] = 0 PROVE positions \ removed # {}
    <3>1. PICK p \in DOMAIN requests : requests[p] = i
      BY <2>1, <2>5 DEF Entries
    <3>2. p \in positions /\ p \notin Doomed
      BY <2>1, <2>5, <3>1 DEF Entries
    <3> QED
      BY <2>2, <3>2
  <2>6. ASSUME positions \ removed # {} PROVE replies[i] = 0
    <3>1. PICK p \in positions : p \notin removed
      BY <2>6
    <3> QED
      BY <2>1, <2>2, <3>1 DEF Entries
  <2> QED
    BY <2>4, <2>5, <2>6
<1> QED
  BY WatchAlways, <1>1, PTL
=============================================================================
