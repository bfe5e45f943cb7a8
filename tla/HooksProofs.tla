---------------------------- MODULE HooksProofs ----------------------------
(***************************************************************************)
(* For any number of hooks, hook types and nesting levels: the registry    *)
(* never holds a pointer to a freed hook, reference counts are exact, and  *)
(* the loops that run callbacks never lose the item under their cursor.    *)
(* A list item missing in uc_hook_del is allowed ("del" in NoMemAt); one   *)
(* missing in uc_hook_add is not, the code then frees a hook that is       *)
(* linked.                                                                 *)
(***************************************************************************)
EXTENDS Hooks, FiniteSetTheorems, SequenceTheorems, TLAPS

-----------------------------------------------------------------------------
(* Lists *)

\* list_append (list.c) adds one element at the end.
LEMMA AppendMembers ==
    ASSUME NEW S, NEW s \in Seq(S), NEW y \in S
    PROVE  /\ Append(s, y) \in Seq(S)
           /\ \A x : Contains(Append(s, y), x) <=> Contains(s, x) \/ x = y
           /\ IsInjective(s) /\ ~Contains(s, y) => IsInjective(Append(s, y))
BY DEF Contains, IsInjective

\* list_insert (list.c) adds one element in front and shifts the others.
LEMMA ConsPositions ==
    ASSUME NEW S, NEW s \in Seq(S), NEW y \in S
    PROVE  /\ Cons(y, s) \in Seq(S)
           /\ Len(Cons(y, s)) = Len(s) + 1
           /\ Cons(y, s)[1] = y
           /\ \A k \in 1..Len(s) : Cons(y, s)[k + 1] = s[k]
           /\ \A k \in 2..Len(s) + 1 : Cons(y, s)[k] = s[k - 1]
<1>1. <<y>> \in Seq(S) /\ Len(<<y>>) = 1 /\ <<y>>[1] = y
  OBVIOUS
<1>2. /\ Cons(y, s) \in Seq(S)
      /\ Len(Cons(y, s)) = 1 + Len(s)
      /\ \A k \in 1..1 + Len(s) : Cons(y, s)[k] = IF k <= 1 THEN <<y>>[k] ELSE s[k - 1]
  BY <1>1, ConcatProperties DEF Cons
<1>3. Len(s) \in Nat
  OBVIOUS
<1> QED
  BY <1>1, <1>2, <1>3

\* A list with one more element in front has that element besides the old ones, and
\* no duplicates if the old list has none and not that element.
LEMMA ShiftedMembers ==
    ASSUME NEW S, NEW s \in Seq(S), NEW y \in S, NEW t \in Seq(S),
           Len(t) = Len(s) + 1, t[1] = y,
           \A k \in 1..Len(s) : t[k + 1] = s[k],
           \A k \in 2..Len(s) + 1 : t[k] = s[k - 1]
    PROVE  /\ \A x : Contains(t, x) <=> Contains(s, x) \/ x = y
           /\ IsInjective(s) /\ ~Contains(s, y) => IsInjective(t)
<1>1. /\ t \in Seq(S) /\ Len(t) = Len(s) + 1 /\ t[1] = y
      /\ \A k \in 1..Len(s) : t[k + 1] = s[k]
      /\ \A k \in 2..Len(s) + 1 : t[k] = s[k - 1]
  OBVIOUS
<1>2. ASSUME NEW x PROVE Contains(t, x) <=> Contains(s, x) \/ x = y
  <2>1. Len(s) \in Nat
    OBVIOUS
  <2>2. ASSUME Contains(t, x) PROVE Contains(s, x) \/ x = y
    <3>1. PICK k \in 1..Len(t) : t[k] = x
      BY <2>2 DEF Contains
    <3>2. CASE k = 1
      BY <1>1, <3>1, <3>2
    <3>3. CASE k # 1
      <4>1. k - 1 \in 1..Len(s) /\ s[k - 1] = x
        BY <1>1, <2>1, <3>1, <3>3
      <4> QED BY <4>1 DEF Contains
    <3> QED BY <3>2, <3>3
  <2>3. ASSUME Contains(s, x) PROVE Contains(t, x)
    <3>1. PICK k \in 1..Len(s) : s[k] = x
      BY <2>3 DEF Contains
    <3>2. k + 1 \in 1..Len(t) /\ t[k + 1] = x
      BY <1>1, <2>1, <3>1
    <3> QED BY <3>2 DEF Contains
  <2>4. ASSUME x = y PROVE Contains(t, x)
    <3>1. 1 \in 1..Len(t) /\ t[1] = x
      BY <1>1, <2>1, <2>4
    <3> QED BY <3>1 DEF Contains
  <2> QED BY <2>2, <2>3, <2>4
<1>3. ASSUME IsInjective(s), ~Contains(s, y) PROVE IsInjective(t)
  <2> SUFFICES ASSUME NEW a \in 1..Len(t), NEW b \in 1..Len(t), t[a] = t[b] PROVE a = b
    BY <1>1 DEF IsInjective
  <2>1. Len(s) \in Nat /\ DOMAIN s = 1..Len(s)
    OBVIOUS
  <2>2. ASSUME NEW k \in 1..Len(t), k # 1
        PROVE  k - 1 \in 1..Len(s) /\ t[k] = s[k - 1] /\ t[k] # y
    <3>1. k - 1 \in 1..Len(s) /\ k \in 2..Len(s) + 1
      BY <1>1, <2>1, <2>2
    <3>2. t[k] = s[k - 1]
      BY <1>1, <3>1
    <3> QED BY <1>3, <3>1, <3>2 DEF Contains
  <2>3. CASE a = 1 \/ b = 1
    BY <1>1, <2>2, <2>3
  <2>4. CASE a # 1 /\ b # 1
    <3>1. a - 1 \in 1..Len(s) /\ b - 1 \in 1..Len(s) /\ s[a - 1] = s[b - 1]
      BY <2>2, <2>4
    <3>2. a - 1 = b - 1
      BY <1>3, <2>1, <3>1, Zenon DEF IsInjective
    <3> QED BY <3>2
  <2> QED BY <2>3, <2>4
<1> QED BY <1>2, <1>3

\* list_insert (list.c): what the list holds after an insertion in front.
LEMMA ConsMembers ==
    ASSUME NEW S, NEW s \in Seq(S), NEW y \in S
    PROVE  /\ Cons(y, s) \in Seq(S)
           /\ \A x : Contains(Cons(y, s), x) <=> Contains(s, x) \/ x = y
           /\ IsInjective(s) /\ ~Contains(s, y) => IsInjective(Cons(y, s))
<1>1. Cons(y, s) \in Seq(S)
  BY ConsPositions
<1>2. Len(Cons(y, s)) = Len(s) + 1
  BY ConsPositions
<1>3. Cons(y, s)[1] = y
  BY ConsPositions
<1>4. \A k \in 1..Len(s) : Cons(y, s)[k + 1] = s[k]
  BY ConsPositions
<1>5. \A k \in 2..Len(s) + 1 : Cons(y, s)[k] = s[k - 1]
  BY ConsPositions
<1> QED
  BY <1>1, <1>2, <1>3, <1>4, <1>5, ShiftedMembers

\* Freeing the first item of a list without duplicates.
LEMMA TailMembers ==
    ASSUME NEW S, NEW s \in Seq(S), s # <<>>, IsInjective(s)
    PROVE  /\ Head(s) \in S /\ Contains(s, Head(s))
           /\ Tail(s) \in Seq(S)
           /\ \A x : Contains(Tail(s), x) <=> Contains(s, x) /\ x # Head(s)
           /\ IsInjective(Tail(s))
BY DEF Contains, IsInjective

\* list_remove (list.c) unlinks one item and keeps the order of the others.
LEMMA RemoveAtPositions ==
    ASSUME NEW S, NEW s \in Seq(S), NEW k \in 1..Len(s)
    PROVE  /\ RemoveAt(s, k) \in Seq(S)
           /\ Len(RemoveAt(s, k)) = Len(s) - 1
           /\ \A q \in 1..Len(s) - 1 :
                 RemoveAt(s, k)[q] = IF q < k THEN s[q] ELSE s[q + 1]
<1> DEFINE a == SubSeq(s, 1, k - 1)
           b == SubSeq(s, k + 1, Len(s))
<1>1. Len(s) \in Nat /\ k \in Nat /\ 1 <= k /\ k <= Len(s)
  OBVIOUS
<1>2. \A q \in 1..Len(s) : s[q] \in S
  OBVIOUS
<1>3. /\ a \in Seq(S)
      /\ Len(a) = k - 1
      /\ \A q \in 1..k - 1 : a[q] = s[q]
  BY <1>1, <1>2
<1>4. /\ b \in Seq(S)
      /\ Len(b) = Len(s) - k
      /\ \A q \in 1..Len(s) - k : b[q] = s[q + k]
  <2>1. /\ b \in Seq(S)
        /\ Len(b) = IF k + 1 <= Len(s) THEN Len(s) - (k + 1) + 1 ELSE 0
        /\ \A q \in 1..Len(s) - (k + 1) + 1 : b[q] = s[(k + 1) + q - 1]
    <3>1. \A q \in (k + 1)..Len(s) : s[q] \in S
      BY <1>1, <1>2
    <3> HIDE DEF b
    <3> QED BY <1>1, <3>1, SubSeqProperties DEF b
  <2> HIDE DEF b
  <2> QED BY <1>1, <2>1
<1> HIDE DEF a, b
<1>5. /\ a \o b \in Seq(S)
      /\ Len(a \o b) = Len(a) + Len(b)
      /\ \A q \in 1..Len(a) + Len(b) :
            (a \o b)[q] = IF q <= Len(a) THEN a[q] ELSE b[q - Len(a)]
  BY <1>3, <1>4, ConcatProperties, Zenon
<1>6. ASSUME NEW q \in 1..Len(s) - 1
      PROVE  (a \o b)[q] = IF q < k THEN s[q] ELSE s[q + 1]
  <2>1. CASE q < k
    BY <1>1, <1>3, <1>4, <1>5, <2>1
  <2>2. CASE ~(q < k)
    <3>1. (a \o b)[q] = b[q - (k - 1)] /\ q - (k - 1) \in 1..Len(s) - k
      BY <1>1, <1>3, <1>4, <1>5, <2>2
    <3>2. b[q - (k - 1)] = s[q - (k - 1) + k]
      BY <1>4, <3>1
    <3>3. q - (k - 1) + k = q + 1
      BY <1>1
    <3> QED BY <2>2, <3>1, <3>2, <3>3
  <2> QED BY <2>1, <2>2, Zenon
<1>7. RemoveAt(s, k) = a \o b
  BY DEF RemoveAt, a, b
<1>8. Len(a) + Len(b) = Len(s) - 1
  BY <1>1, <1>3, <1>4
<1> QED
  BY <1>5, <1>6, <1>7, <1>8

\* list_remove (list.c) takes away the one item of a hook that is linked once.
LEMMA RemoveAtMembers ==
    ASSUME NEW S, NEW s \in Seq(S), NEW k \in 1..Len(s), IsInjective(s)
    PROVE  /\ RemoveAt(s, k) \in Seq(S)
           /\ \A x : Contains(RemoveAt(s, k), x) <=> Contains(s, x) /\ x # s[k]
           /\ IsInjective(RemoveAt(s, k))
<1> DEFINE t == RemoveAt(s, k)
<1>1. /\ t \in Seq(S) /\ Len(t) = Len(s) - 1
      /\ \A q \in 1..Len(s) - 1 : t[q] = IF q < k THEN s[q] ELSE s[q + 1]
  BY RemoveAtPositions, Zenon DEF t
<1> HIDE DEF t
<1>2. Len(s) \in Nat /\ DOMAIN s = 1..Len(s) /\ DOMAIN t = 1..Len(s) - 1
  BY <1>1
<1>3. ASSUME NEW x PROVE Contains(t, x) <=> Contains(s, x) /\ x # s[k]
  <2>1. ASSUME Contains(t, x) PROVE Contains(s, x) /\ x # s[k]
    <3>1. PICK q \in 1..Len(s) - 1 : t[q] = x
      BY <1>1, <2>1 DEF Contains
    <3>2. PICK r \in 1..Len(s) : r # k /\ s[r] = x
      <4>1. CASE q < k
        BY <1>1, <1>2, <3>1, <4>1
      <4>2. CASE ~(q < k)
        <5>1. q + 1 \in 1..Len(s) /\ q + 1 # k /\ s[q + 1] = x
          BY <1>1, <1>2, <3>1, <4>2
        <5> QED BY <5>1
      <4> QED BY <4>1, <4>2
    <3> QED BY <1>2, <3>2 DEF Contains, IsInjective
  <2>2. ASSUME Contains(s, x), x # s[k] PROVE Contains(t, x)
    <3>1. PICK r \in 1..Len(s) : s[r] = x
      BY <2>2 DEF Contains
    <3>2. CASE r < k
      <4>1. r \in 1..Len(t) /\ t[r] = x
        BY <1>1, <1>2, <3>1, <3>2
      <4> QED BY <4>1 DEF Contains
    <3>3. CASE r > k
      <4>1. r - 1 \in 1..Len(t) /\ ~(r - 1 < k) /\ (r - 1) + 1 = r
        BY <1>1, <1>2, <3>1, <3>3
      <4>2. t[r - 1] = x
        BY <1>1, <3>1, <4>1
      <4> QED BY <4>1, <4>2 DEF Contains
    <3> QED BY <1>2, <2>2, <3>1, <3>2, <3>3
  <2> QED BY <2>1, <2>2
<1>4. IsInjective(t)
  <2> SUFFICES ASSUME NEW a \in 1..Len(s) - 1, NEW b \in 1..Len(s) - 1, t[a] = t[b]
               PROVE a = b
    BY <1>2 DEF IsInjective
  <2> DEFINE up(q) == IF q < k THEN q ELSE q + 1
  <2>1. up(a) \in 1..Len(s) /\ up(b) \in 1..Len(s) /\ s[up(a)] = s[up(b)]
    BY <1>1, <1>2
  <2>2. up(a) = up(b)
    BY <1>2, <2>1 DEF IsInjective
  <2> QED BY <1>2, <2>2
<1> QED BY <1>1, <1>3, <1>4 DEF t

-----------------------------------------------------------------------------
(* The invariant *)

\* A hook is linked at most once in a list.
Unique == \A i \in Idx : IsInjective(hook[i])

\* Allocated hooks have as many references as items, freed hooks have no item.
Owned ==
    \A h \in Hook :
        /\ h \in heap => /\ refs[h] = Cardinality(Lists(h)) + Cardinality(Pending(h))
                         /\ refs[h] > 0
        /\ h \notin heap => Lists(h) = {} /\ Pending(h) = {}

\* The running loops belong to running emulations, the inner ones to the inner.
Levels ==
    \A n \in DOMAIN iters :
        /\ 1 <= iters[n].level /\ iters[n].level <= nested_level
        /\ \A m \in DOMAIN iters : m < n => iters[m].level <= iters[n].level

\* Items are unlinked and hooks freed only outside every emulation.
Quiet == phase # "open" => nested_level = 0

IInv == TypeOK /\ Unique /\ Owned /\ Levels /\ IterSafe /\ Quiet

-----------------------------------------------------------------------------
(* Item sets are finite, so that they can be counted. *)

\* Sets of lists and of positions are finite, and empty when their size is 0.
LEMMA CountedSets ==
    ASSUME NEW L \in SUBSET Idx, NEW n \in Nat, NEW P \in SUBSET (1..n)
    PROVE  /\ IsFiniteSet(L) /\ Cardinality(L) \in Nat /\ (Cardinality(L) = 0 <=> L = {})
           /\ IsFiniteSet(P) /\ Cardinality(P) \in Nat /\ (Cardinality(P) = 0 <=> P = {})
<1>1. IsFiniteSet(Idx) /\ IsFiniteSet(1..n)
  BY IdxAssumption, FS_Interval
<1>2. IsFiniteSet(L) /\ IsFiniteSet(P)
  BY <1>1, FS_Subset, Zenon
<1> QED
  BY <1>2, FS_CardinalityType, FS_EmptySet

\* The items of a hook, in the lists and in hooks_to_del, can be counted...
LEMMA ItemSets ==
    ASSUME TypeOK, NEW h \in Hook
    PROVE  /\ Lists(h) \in SUBSET Idx /\ IsFiniteSet(Lists(h))
           /\ Cardinality(Lists(h)) \in Nat /\ (Cardinality(Lists(h)) = 0 <=> Lists(h) = {})
           /\ Pending(h) \in SUBSET (1..Len(hooks_to_del)) /\ IsFiniteSet(Pending(h))
           /\ Cardinality(Pending(h)) \in Nat /\ (Cardinality(Pending(h)) = 0 <=> Pending(h) = {})
<1>1. Lists(h) \in SUBSET Idx
  BY DEF Lists
<1>2. Pending(h) \in SUBSET (1..Len(hooks_to_del)) /\ Len(hooks_to_del) \in Nat
  BY DEF Pending, TypeOK
<1> QED
  BY <1>1, <1>2, CountedSets, Zenon

\* ... and also after a step that keeps the types.
LEMMA ItemSetsNext ==
    ASSUME TypeOK', NEW h \in Hook
    PROVE  /\ Lists(h)' \in SUBSET Idx /\ IsFiniteSet(Lists(h)')
           /\ Cardinality(Lists(h)') \in Nat /\ (Cardinality(Lists(h)') = 0 <=> Lists(h)' = {})
           /\ Pending(h)' \in SUBSET (1..Len(hooks_to_del')) /\ IsFiniteSet(Pending(h)')
           /\ Cardinality(Pending(h)') \in Nat /\ (Cardinality(Pending(h)') = 0 <=> Pending(h)' = {})
<1>1. Lists(h)' \in SUBSET Idx
  BY DEF Lists
<1>2. Pending(h)' \in SUBSET (1..Len(hooks_to_del')) /\ Len(hooks_to_del') \in Nat
  BY DEF Pending, TypeOK
<1> QED
  BY <1>1, <1>2, CountedSets, Zenon

\* hook_delete drops one reference for one item, and frees the hook with the last.
LEMMA ReleaseOwned ==
    ASSUME TypeOK, TypeOK', Owned, NEW h \in heap, hook_delete(h),
           \A g \in Hook : g # h => Lists(g)' = Lists(g) /\ Pending(g)' = Pending(g),
           Cardinality(Lists(h)') + Cardinality(Pending(h)') + 1
             = Cardinality(Lists(h)) + Cardinality(Pending(h))
    PROVE  Owned'
<1> SUFFICES ASSUME NEW g \in Hook
             PROVE  /\ g \in heap' => /\ refs'[g] = Cardinality(Lists(g)') + Cardinality(Pending(g)')
                                      /\ refs'[g] > 0
                    /\ g \notin heap' => Lists(g)' = {} /\ Pending(g)' = {}
  BY DEF Owned
<1>1. h \in Hook /\ refs[h] \in Int
  BY DEF TypeOK
<1>2. CASE g # h
  <2>1. refs'[g] = refs[g] /\ (g \in heap' <=> g \in heap)
    BY <1>1, <1>2 DEF hook_delete, TypeOK
  <2> QED BY <1>2, <2>1 DEF Owned
<1>3. CASE g = h
  <2>1. /\ Cardinality(Lists(h)') \in Nat /\ Cardinality(Pending(h)') \in Nat
        /\ (Cardinality(Lists(h)') = 0 <=> Lists(h)' = {})
        /\ (Cardinality(Pending(h)') = 0 <=> Pending(h)' = {})
    BY <1>1, ItemSetsNext
  <2>2. Cardinality(Lists(h)) \in Nat /\ Cardinality(Pending(h)) \in Nat
    BY <1>1, ItemSets
  <2>3. refs[h] = Cardinality(Lists(h)) + Cardinality(Pending(h))
    BY <1>1 DEF Owned
  <2>4. refs'[h] = refs[h] - 1 /\ (h \in heap' <=> refs[h] # 1)
    BY <1>1 DEF hook_delete, TypeOK
  <2>5. /\ h \in heap' => /\ refs'[h] = Cardinality(Lists(h)') + Cardinality(Pending(h)')
                          /\ refs'[h] > 0
        /\ h \notin heap' => Lists(h)' = {} /\ Pending(h)' = {}
    <3> DEFINE a == Cardinality(Lists(h))   b == Cardinality(Pending(h))
               c == Cardinality(Lists(h)')  d == Cardinality(Pending(h)')
    <3>1. a \in Nat /\ b \in Nat /\ c \in Nat /\ d \in Nat /\ c + d + 1 = a + b
      BY <2>1, <2>2
    <3>2. refs[h] = a + b /\ (c = 0 => Lists(h)' = {}) /\ (d = 0 => Pending(h)' = {})
      BY <2>1, <2>3
    <3> HIDE DEF a, b, c, d
    <3>3. refs'[h] = c + d /\ (h \in heap' => c + d > 0) /\ (h \notin heap' => c = 0 /\ d = 0)
      BY <2>4, <3>1, <3>2
    <3> QED BY <3>2, <3>3 DEF c, d
  <2>6. Lists(g)' = Lists(h)' /\ Pending(g)' = Pending(h)'
    BY <1>3 DEF Lists, Pending
  <2> QED BY <1>3, <2>5, <2>6
<1> QED BY <1>2, <1>3

\* Steps that leave the lists alone.
LEMMA SameItems ==
    ASSUME UNCHANGED <<hook, hooks_to_del>>, Freed' = Freed, NEW h
    PROVE  Lists(h)' = Lists(h) /\ Pending(h)' = Pending(h)
BY DEF Lists, Pending

\* Steps that leave the lists, the heap and the counters alone keep the counts exact.
LEMMA SameOwned ==
    ASSUME Owned, UNCHANGED <<hook, hooks_to_del, heap, refs>>, Freed' = Freed
    PROVE  Owned'
BY SameItems DEF Owned

-----------------------------------------------------------------------------
(* Types *)

\* HOOK_FOREACH starts a loop: the stack of loops stays one.
LEMMA IterAppend ==
    ASSUME NEW it \in Iter, iters \in Seq(Iter)
    PROVE  Append(iters, it) \in Seq(Iter)
OBVIOUS

\* HOOK_FOREACH ends a loop: what the stack of loops then is.
LEMMA IterFront ==
    ASSUME iters \in Seq(Iter), iters # <<>>
    PROVE  /\ Front(iters) \in Seq(Iter)
           /\ Len(Front(iters)) = Len(iters) - 1
           /\ \A n \in 1..Len(iters) - 1 : Front(iters)[n] = iters[n]
           /\ Last(iters) \in Iter /\ Last(iters) = iters[Len(iters)]
           /\ Len(iters) \in Nat \ {0}
BY DEF Front, Last

\* uc_hook_add keeps the types of what it changes.
LEMMA AddType ==
    ASSUME TypeOK, NEW h \in Hook, NEW types \in SUBSET Idx, NEW put \in SUBSET ListsOf(types),
           NEW front \in BOOLEAN, uc_hook_add(h, types, put, front)
    PROVE  /\ hook' \in [Idx -> Seq(Hook)] /\ hooks_to_del' \in Seq(Hook)
           /\ hooks_count' \in [Idx -> Int] /\ heap' \in SUBSET Hook
           /\ refs' \in [Hook -> Int] /\ to_delete' \in [Hook -> BOOLEAN]
<1>1. put \in SUBSET Idx
  BY IdxAssumption, Zenon DEF ListsOf
<1>2. Cardinality(put) \in Nat
  BY <1>1, IdxAssumption, FS_Subset, FS_CardinalityType, Zenon
<1>3. ASSUME NEW i \in Idx
      PROVE  Cons(h, hook[i]) \in Seq(Hook) /\ Append(hook[i], h) \in Seq(Hook) /\ hook[i] \in Seq(Hook)
  <2>1. hook[i] \in Seq(Hook)
    BY DEF TypeOK
  <2> QED BY <2>1, ConsMembers, AppendMembers
<1>4. hook' \in [Idx -> Seq(Hook)]
  BY <1>3 DEF uc_hook_add
<1> QED
  BY <1>2, <1>4 DEF uc_hook_add, TypeOK

\* uc_hook_del keeps the types of what it changes.
LEMMA DelType ==
    ASSUME TypeOK, NEW h \in Hook, NEW kept \in Nat, uc_hook_del(h, kept)
    PROVE  /\ hook' \in [Idx -> Seq(Hook)] /\ hooks_to_del' \in Seq(Hook)
           /\ hooks_count' \in [Idx -> Int] /\ heap' \in SUBSET Hook
           /\ refs' \in [Hook -> Int] /\ to_delete' \in [Hook -> BOOLEAN]
<1>1. [k \in 1..kept |-> h] \in Seq(Hook)
  OBVIOUS
<1>2. hooks_to_del' \in Seq(Hook)
  BY <1>1, ConcatProperties DEF uc_hook_del, TypeOK
<1>3. to_delete' \in [Hook -> BOOLEAN]
  BY DEF uc_hook_del, TypeOK
<1> QED
  BY <1>2, <1>3 DEF uc_hook_del, TypeOK

\* uc_hook_del appends to hooks_to_del at most one item per list of the hook.
LEMMA KeptType ==
    ASSUME TypeOK, NEW h \in Hook, NEW kept \in Kept(h)
    PROVE  kept \in Nat /\ kept <= Cardinality(Lists(h))
<1>1. Cardinality(Lists(h)) \in Nat
  BY ItemSets
<1> QED BY <1>1 DEF Kept

\* list_remove (list.c) finds the item of a linked hook.
LEMMA PositionProps ==
    ASSUME TypeOK, NEW i \in Idx, NEW h, Contains(hook[i], h)
    PROVE  Position(i, h) \in 1..Len(hook[i]) /\ hook[i][Position(i, h)] = h
BY DEF Position, Contains, TypeOK

\* clear_deleted_hooks unlinks exactly the deleted hook from a list.
LEMMA UnlinkProps ==
    ASSUME TypeOK, Unique, NEW i \in Idx, NEW h, Contains(hook[i], h)
    PROVE  /\ RemoveAt(hook[i], Position(i, h)) \in Seq(Hook)
           /\ \A x : Contains(RemoveAt(hook[i], Position(i, h)), x) <=> Contains(hook[i], x) /\ x # h
           /\ IsInjective(RemoveAt(hook[i], Position(i, h)))
<1>1. hook[i] \in Seq(Hook) /\ IsInjective(hook[i])
  BY DEF TypeOK, Unique
<1> QED
  BY <1>1, PositionProps, RemoveAtMembers

\* Every step keeps the types. Dropping an item, hook_delete keeps the counters
\* in the integers.
LEMMA TypeStep ==
    ASSUME TypeOK, Unique, Next
    PROVE  TypeOK'
<1>1. ASSUME NEW h \in Hook, NEW types \in SUBSET Idx,
             NEW put \in Linked(ListsOf(types), "add"), HookAdd(h, types, put)
      PROVE  TypeOK'
  <2>1. put \in SUBSET ListsOf(types)
    BY DEF Linked
  <2> QED BY <1>1, <2>1, AddType, Zenon DEF HookAdd, TypeOK
<1>2. ASSUME NEW h \in Hook, NEW kept \in Kept(h), HookDel(h, kept)
      PROVE  TypeOK'
  BY <1>2, KeptType, DelType DEF HookDel, TypeOK
<1>3. ASSUME NEW counting \in BOOLEAN, EmuStart(counting)
      PROVE  TypeOK'
  <2>1. nested_level' \in 0..MAX_NESTED
    BY <1>3, NestedAssumption DEF EmuStart, TypeOK
  <2> QED BY <1>3, <2>1, Zenon DEF EmuStart, TypeOK, lists
<1>4. ASSUME NEW kept \in Kept(count_hook), EmuStartUncount(kept)
      PROVE  TypeOK'
  <2>1. count_hook \in Hook
    BY <1>4 DEF EmuStartUncount, TypeOK
  <2>2. nested_level' \in 0..MAX_NESTED
    BY <1>4, NestedAssumption DEF EmuStartUncount, TypeOK
  <2>3. kept \in Nat
    BY <2>1, KeptType
  <2> QED BY <1>4, <2>1, <2>2, <2>3, DelType, Zenon DEF EmuStartUncount, TypeOK
<1>5. ASSUME NEW h \in Hook, NEW put \in Linked({CODE_IDX}, "count"), EmuStartCount(h, put)
      PROVE  TypeOK'
  <2>1. {CODE_IDX} \in SUBSET Idx /\ put \in SUBSET ListsOf({CODE_IDX})
    BY IdxAssumption DEF Linked, ListsOf
  <2>2. nested_level' \in 0..MAX_NESTED
    BY <1>5, NestedAssumption DEF EmuStartCount, TypeOK
  <2> QED BY <1>5, <2>1, <2>2, AddType, Zenon DEF EmuStartCount, TypeOK
<1>6. ASSUME EmuStop PROVE TypeOK'
  BY <1>6 DEF EmuStop, TypeOK, lists
<1>7. ASSUME Close PROVE TypeOK'
  BY <1>7 DEF Close, TypeOK, lists
<1>8. ASSUME NEW i \in Idx, NEW h \in Hook, NEW kind \in Kind, NEW invalid \in BOOLEAN,
             Trace(i, h, kind, invalid)
      PROVE  TypeOK'
  <2>1. [level |-> nested_level, index |-> i, cur |-> h,
         kind |-> kind, last |-> invalid \/ i = TCG_OPCODE_IDX] \in Iter
    BY DEF Iter, TypeOK
  <2>2. iters' \in Seq(Iter)
    BY <1>8, <2>1, IterAppend DEF Trace, TypeOK
  <2> QED BY <1>8, <2>2 DEF Trace, TypeOK, lists
<1>9. ASSUME TraceNone PROVE TypeOK'
  BY <1>9, Zenon DEF TraceNone, TypeOK, lists
<1>10. ASSUME NEW h \in Hook, CallbackNext(h) PROVE TypeOK'
  <2>1. iters # <<>> /\ iters \in Seq(Iter)
    BY <1>10 DEF CallbackNext, InCallback, TypeOK
  <2>2. [Last(iters) EXCEPT !.cur = h] \in Iter /\ Front(iters) \in Seq(Iter)
    BY <2>1, IterFront, Zenon DEF Iter
  <2>3. iters' \in Seq(Iter)
    BY <1>10, <2>2 DEF CallbackNext
  <2> QED BY <1>10, <2>3 DEF CallbackNext, TypeOK, lists
<1>11. ASSUME CallbackLast PROVE TypeOK'
  <2>1. iters # <<>> /\ iters \in Seq(Iter)
    BY <1>11 DEF CallbackLast, InCallback, TypeOK
  <2>2. iters' \in Seq(Iter) /\ stop_request' \in BOOLEAN
    BY <1>11, <2>1, IterFront DEF CallbackLast
  <2> QED BY <1>11, <2>2 DEF CallbackLast, TypeOK, lists
<1>12. ASSUME EmuEnd PROVE TypeOK'
  BY <1>12, NestedAssumption DEF EmuEnd, InEngine, TypeOK, lists
<1>13. ASSUME ClearUnlink PROVE TypeOK'
  <2> DEFINE h == hooks_to_del[pos + 1]
  <2>1. h \in Hook /\ pos' \in Nat
    BY <1>13 DEF ClearUnlink, TypeOK
  <2> HIDE DEF h
  <2>2. hook' \in [Idx -> Seq(Hook)] /\ refs' \in [Hook -> Int] /\ heap' \in SUBSET Hook
    <3>1. CASE UNCHANGED <<hook, refs, heap>>
      BY <3>1 DEF TypeOK
    <3>2. CASE \E i \in Lists(h) :
                 /\ hook' = [hook EXCEPT ![i] = RemoveAt(@, Position(i, h))]
                 /\ hook_delete(h)
      <4>1. PICK i \in Lists(h) : /\ hook' = [hook EXCEPT ![i] = RemoveAt(@, Position(i, h))]
                                  /\ hook_delete(h)
        BY <3>2, Zenon
      <4>2. i \in Idx /\ Contains(hook[i], h)
        BY DEF Lists
      <4>3. RemoveAt(hook[i], Position(i, h)) \in Seq(Hook)
        BY <4>2, UnlinkProps
      <4>4. hook' \in [Idx -> Seq(Hook)]
        BY <4>1, <4>2, <4>3 DEF TypeOK
      <4> QED BY <2>1, <4>1, <4>4 DEF hook_delete, TypeOK
    <3> QED BY <1>13, <3>1, <3>2 DEF ClearUnlink, h
  <2> QED BY <1>13, <2>1, <2>2 DEF ClearUnlink, TypeOK
<1>14. ASSUME ClearUnlinked PROVE TypeOK'
  BY <1>14 DEF ClearUnlinked, TypeOK, lists
<1>15. ASSUME ClearFree PROVE TypeOK'
  <2>1. hooks_to_del[pos + 1] \in Hook /\ pos' \in Nat
    BY <1>15 DEF ClearFree, TypeOK
  <2> QED BY <1>15, <2>1 DEF ClearFree, hook_delete, TypeOK
<1>16. ASSUME ClearDone PROVE TypeOK'
  BY <1>16 DEF ClearDone, TypeOK
<1>17. ASSUME NEW i \in Idx, CloseItem(i) PROVE TypeOK'
  <2>1. Head(hook[i]) \in Hook /\ Tail(hook[i]) \in Seq(Hook)
    BY <1>17 DEF CloseItem, TypeOK
  <2>2. hook' \in [Idx -> Seq(Hook)]
    BY <1>17, <2>1 DEF CloseItem, TypeOK
  <2> QED BY <1>17, <2>1, <2>2 DEF CloseItem, hook_delete, TypeOK
<1>18. ASSUME Closed PROVE TypeOK'
  BY <1>18 DEF Closed, TypeOK, lists
<1> QED
  BY <1>1, <1>2, <1>3, <1>4, <1>5, <1>6, <1>7, <1>8, <1>9, <1>10, <1>11, <1>12,
     <1>13, <1>14, <1>15, <1>16, <1>17, <1>18 DEF Next

-----------------------------------------------------------------------------
(* Links and reference counts *)

\* uc_hook_add links a hook that had no item once into every list asked for.
LEMMA AddMembers ==
    ASSUME TypeOK, Unique, Owned, NEW h \in Hook, h \notin heap, NEW types \in SUBSET Idx,
           NEW front \in BOOLEAN, uc_hook_add(h, types, ListsOf(types), front)
    PROVE  /\ ListsOf(types) \in SUBSET Idx /\ \A i \in Idx : ~Contains(hook[i], h)
           /\ \A i \in Idx :
                 /\ IsInjective(hook'[i])
                 /\ \A x : Contains(hook'[i], x)
                             <=> Contains(hook[i], x) \/ (x = h /\ i \in ListsOf(types))
<1> DEFINE put == ListsOf(types)
<1>0. put \in SUBSET Idx
  BY IdxAssumption DEF ListsOf
<1> HIDE DEF put
<1>1. Lists(h) = {}
  BY DEF Owned
<1>2. \A i \in Idx : ~Contains(hook[i], h)
  BY <1>1 DEF Lists
<1>3. ASSUME NEW i \in Idx
      PROVE  /\ IsInjective(hook'[i])
             /\ \A x : Contains(hook'[i], x) <=> Contains(hook[i], x) \/ (x = h /\ i \in put)
  <2>1. hook[i] \in Seq(Hook) /\ IsInjective(hook[i]) /\ ~Contains(hook[i], h)
    BY <1>2 DEF TypeOK, Unique
  <2>2. CASE i \notin put
    <3>1. hook'[i] = hook[i]
      BY <2>2 DEF uc_hook_add, put
    <3> QED BY <2>1, <2>2, <3>1
  <2>3. CASE i \in put
    <3>1. hook'[i] = Cons(h, hook[i]) \/ hook'[i] = Append(hook[i], h)
      BY <2>3 DEF uc_hook_add, put
    <3>2. CASE hook'[i] = Cons(h, hook[i])
      BY <2>1, <2>3, <3>2, ConsMembers
    <3>3. CASE hook'[i] = Append(hook[i], h)
      BY <2>1, <2>3, <3>3, AppendMembers
    <3> QED BY <3>1, <3>2, <3>3
  <2> QED BY <2>2, <2>3
<1> QED BY <1>0, <1>2, <1>3 DEF put

\* uc_hook_add keeps the lists free of duplicates and the references exact.
LEMMA AddLinks ==
    ASSUME TypeOK, TypeOK', Unique, Owned, phase = "open", phase' = "open",
           NEW h \in Hook, h \notin heap, NEW types \in SUBSET Idx,
           NEW front \in BOOLEAN, uc_hook_add(h, types, ListsOf(types), front)
    PROVE  Unique' /\ Owned'
<1> DEFINE put == ListsOf(types)
<1> HIDE DEF put
<1>1. Lists(h) = {} /\ Pending(h) = {}
  BY DEF Owned
<1>3. /\ put \in SUBSET Idx /\ \A i \in Idx : ~Contains(hook[i], h)
      /\ \A i \in Idx :
            /\ IsInjective(hook'[i])
            /\ \A x : Contains(hook'[i], x) <=> Contains(hook[i], x) \/ (x = h /\ i \in put)
  BY AddMembers DEF put
<1>4. Unique'
  BY <1>3 DEF Unique
<1>5. Freed = 0 /\ Freed' = 0 /\ hooks_to_del' = hooks_to_del
  BY DEF Freed, uc_hook_add
<1>6. \A g \in Hook : Pending(g)' = Pending(g)
  BY <1>5 DEF Pending
<1>7. ASSUME NEW g \in Hook, g # h PROVE Lists(g)' = Lists(g)
  BY <1>3, <1>7 DEF Lists
<1>8. Lists(h)' = put
  BY <1>3 DEF Lists
<1>9. /\ refs'[h] = Cardinality(put)
      /\ heap' = IF put # {} THEN heap \cup {h} ELSE heap
      /\ \A g \in Hook : g # h => refs'[g] = refs[g]
  BY DEF uc_hook_add, put, TypeOK
<1>10. Cardinality(put) \in Nat /\ (Cardinality(put) = 0 <=> put = {})
  BY <1>3, IdxAssumption, FS_Subset, FS_CardinalityType, FS_EmptySet, Zenon
<1>11. ASSUME NEW g \in Hook
       PROVE  /\ g \in heap' => /\ refs'[g] = Cardinality(Lists(g)') + Cardinality(Pending(g)')
                                 /\ refs'[g] > 0
              /\ g \notin heap' => Lists(g)' = {} /\ Pending(g)' = {}
  <2>1. CASE g # h
    <3>1. (g \in heap' <=> g \in heap) /\ refs'[g] = refs[g]
      BY <1>9, <2>1
    <3> QED BY <1>6, <1>7, <2>1, <3>1 DEF Owned
  <2>2. CASE g = h
    <3>1. Lists(g)' = put /\ Pending(g)' = {} /\ Cardinality({}) = 0
      <4>1. Lists(g)' = Lists(h)' /\ Pending(g)' = Pending(h)'
        BY <2>2 DEF Lists, Pending
      <4> QED BY <1>1, <1>6, <1>8, <4>1, FS_EmptySet
    <3>2. g \in heap' <=> put # {}
      BY <1>9, <2>2
    <3> QED BY <1>9, <1>10, <2>2, <3>1, <3>2
  <2> QED BY <2>1, <2>2
<1> QED BY <1>4, <1>11 DEF Owned

\* uc_hook_del puts the hook at the end of hooks_to_del, once for each list.
LEMMA DelItems ==
    ASSUME TypeOK, NEW h \in Hook, NEW kept \in Nat, uc_hook_del(h, kept)
    PROVE  /\ DOMAIN hooks_to_del = 1..Len(hooks_to_del)
           /\ DOMAIN hooks_to_del' = 1..Len(hooks_to_del) + kept
           /\ \A k \in 1..Len(hooks_to_del) + kept :
                 hooks_to_del'[k] = IF k <= Len(hooks_to_del) THEN hooks_to_del[k] ELSE h
<1> DEFINE n == Len(hooks_to_del)
           new == [k \in 1..kept |-> h]
<1>1. n \in Nat /\ new \in Seq(Hook) /\ Len(new) = kept /\ hooks_to_del \in Seq(Hook)
  BY DEF TypeOK
<1>2. hooks_to_del' = hooks_to_del \o new
  BY DEF uc_hook_del
<1>3. \A k \in 1..n + kept : ~(k <= n) => new[k - n] = h
  BY <1>1
<1> HIDE DEF new
<1>4. /\ Len(hooks_to_del') = n + kept
      /\ \A k \in 1..n + kept : hooks_to_del'[k] = IF k <= n THEN hooks_to_del[k] ELSE new[k - n]
      /\ hooks_to_del' \in Seq(Hook)
  BY <1>1, <1>2, ConcatProperties, Zenon
<1> QED BY <1>1, <1>3, <1>4

\* uc_hook_del adds as many references as items of hooks_to_del.
LEMMA DelLinks ==
    ASSUME TypeOK, TypeOK', Unique, Owned, phase = "open", phase' = "open",
           NEW h \in heap, NEW kept \in Nat, uc_hook_del(h, kept)
    PROVE  Unique' /\ Owned'
<1>1. h \in Hook /\ hook' = hook /\ heap' = heap
  BY DEF uc_hook_del, TypeOK
<1>2. Unique' /\ \A g : Lists(g)' = Lists(g)
  BY <1>1 DEF Unique, Lists
<1> DEFINE n == Len(hooks_to_del)
<1>3. n \in Nat
  BY DEF TypeOK
<1>4. /\ \A k \in 1..n + kept : hooks_to_del'[k] = IF k <= n THEN hooks_to_del[k] ELSE h
      /\ DOMAIN hooks_to_del' = 1..n + kept /\ DOMAIN hooks_to_del = 1..n
  BY <1>1, DelItems, Zenon
<1> HIDE DEF n
<1>5. Freed = 0 /\ Freed' = 0
  BY DEF Freed
<1>6. ASSUME NEW g \in Hook, g # h PROVE Pending(g)' = Pending(g)
  BY <1>3, <1>4, <1>5, <1>6 DEF Pending
<1>7. Pending(h)' = Pending(h) \cup (n + 1..n + kept) /\ Pending(h) \subseteq 1..n
  BY <1>3, <1>4, <1>5 DEF Pending
<1>8. Cardinality(Pending(h)') = Cardinality(Pending(h)) + kept
  <2>1. IsFiniteSet(n + 1..n + kept) /\ Cardinality(n + 1..n + kept) = kept
    <3>1. n + 1 \in Int /\ n + kept \in Int
      BY <1>3
    <3>2. IsFiniteSet(n + 1..n + kept) /\ Cardinality(n + 1..n + kept)
            = IF n + 1 > n + kept THEN 0 ELSE (n + kept) - (n + 1) + 1
      BY <3>1, FS_Interval
    <3>3. (IF n + 1 > n + kept THEN 0 ELSE (n + kept) - (n + 1) + 1) = kept
      BY <1>3
    <3> QED BY <3>2, <3>3
  <2>2. Pending(h) \cap (n + 1..n + kept) = {}
    BY <1>3, <1>7
  <2>3. IsFiniteSet(Pending(h)) /\ Cardinality(Pending(h)) \in Nat
    BY <1>1, ItemSets
  <2>4. Cardinality(Pending(h) \cup (n + 1..n + kept))
          = Cardinality(Pending(h)) + Cardinality(n + 1..n + kept)
            - Cardinality(Pending(h) \cap (n + 1..n + kept))
    BY <2>1, <2>3, FS_Union, Zenon
  <2>5. Cardinality({}) = 0
    BY FS_EmptySet
  <2>6. Cardinality(Pending(h)) + kept - 0 = Cardinality(Pending(h)) + kept
    BY <2>3
  <2> QED BY <1>7, <2>1, <2>2, <2>4, <2>5, <2>6, Zenon
<1>9. refs'[h] = refs[h] + kept /\ \A g \in Hook : g # h => refs'[g] = refs[g]
  BY <1>1 DEF uc_hook_del, TypeOK
<1>10. refs'[h] = Cardinality(Lists(h)') + Cardinality(Pending(h)') /\ refs'[h] > 0
  <2>1. Cardinality(Lists(h)) \in Nat /\ Cardinality(Pending(h)) \in Nat
    BY <1>1, ItemSets
  <2>2. refs[h] = Cardinality(Lists(h)) + Cardinality(Pending(h)) /\ refs[h] > 0
    BY <1>1 DEF Owned
  <2> QED BY <1>2, <1>8, <1>9, <2>1, <2>2
<1>11. ASSUME NEW g \in Hook
       PROVE  /\ g \in heap' => /\ refs'[g] = Cardinality(Lists(g)') + Cardinality(Pending(g)')
                                 /\ refs'[g] > 0
              /\ g \notin heap' => Lists(g)' = {} /\ Pending(g)' = {}
  <2>1. CASE g # h
    BY <1>1, <1>2, <1>6, <1>9, <2>1 DEF Owned
  <2>2. CASE g = h
    <3>1. Lists(g)' = Lists(h)' /\ Pending(g)' = Pending(h)'
      BY <2>2 DEF Lists, Pending
    <3> QED BY <1>1, <1>10, <2>2, <3>1
  <2> QED BY <2>1, <2>2
<1> QED BY <1>2, <1>11 DEF Owned

\* Unlinking the hook from one list that holds it drops one item of that hook.
LEMMA UnlinkLinks ==
    ASSUME TypeOK, TypeOK', Unique, Owned, NEW h \in Hook, NEW i \in Lists(h),
           NEW s \in Seq(Hook), IsInjective(s),
           \A x : Contains(s, x) <=> Contains(hook[i], x) /\ x # h,
           hook' = [hook EXCEPT ![i] = s],
           hooks_to_del' = hooks_to_del, Freed' = Freed, hook_delete(h)
    PROVE  Unique' /\ Owned'
<1>1. i \in Idx /\ Contains(hook[i], h)
  BY DEF Lists
<1>2. h \in heap
  BY <1>1 DEF Owned
<1>3. \A j \in Idx : hook'[j] = IF j = i THEN s ELSE hook[j]
  BY <1>1 DEF TypeOK
<1>4. Unique'
  BY <1>3 DEF Unique
<1>5. \A g : Pending(g)' = Pending(g)
  BY DEF Pending
<1>6. ASSUME NEW g \in Hook, g # h PROVE Lists(g)' = Lists(g)
  BY <1>1, <1>3, <1>6 DEF Lists
<1>7. Lists(h)' = Lists(h) \ {i}
  BY <1>1, <1>3 DEF Lists
<1>8. /\ IsFiniteSet(Lists(h)) /\ Cardinality(Lists(h)) \in Nat
      /\ Cardinality(Pending(h)) \in Nat
  BY ItemSets
<1>9. Cardinality(Lists(h)') = Cardinality(Lists(h)) - 1
  BY <1>7, <1>8, FS_RemoveElement, Zenon
<1>10. Cardinality(Lists(h)') + Cardinality(Pending(h)') + 1
         = Cardinality(Lists(h)) + Cardinality(Pending(h))
  BY <1>5, <1>8, <1>9
<1>11. Owned'
  BY <1>2, <1>5, <1>6, <1>10, ReleaseOwned
<1> QED BY <1>4, <1>11


\* Every step keeps hooks linked at most once per list and the counts exact.
LEMMA LinksStep ==
    ASSUME NoMemAt \subseteq {"del"}, TypeOK, TypeOK', Unique, Owned, Next
    PROVE  Unique' /\ Owned'
<1>1. ASSUME NEW h \in Hook, NEW types \in SUBSET Idx,
             NEW put \in Linked(ListsOf(types), "add"), HookAdd(h, types, put)
      PROVE  Unique' /\ Owned'
  <2>1. put = ListsOf(types)
    BY DEF Linked
  <2>2. phase = "open" /\ phase' = "open"
    BY <1>1 DEF HookAdd, InUser
  <2> QED BY <1>1, <2>1, <2>2, AddLinks, Zenon DEF HookAdd
<1>2. ASSUME NEW h \in Hook, NEW kept \in Kept(h), HookDel(h, kept)
      PROVE  Unique' /\ Owned'
  <2>1. phase = "open" /\ phase' = "open" /\ h \in heap /\ uc_hook_del(h, kept)
    BY <1>2 DEF HookDel, InUser
  <2>2. kept \in Nat
    BY KeptType
  <2> QED BY <2>1, <2>2, DelLinks
<1>4. ASSUME NEW kept \in Kept(count_hook), EmuStartUncount(kept)
      PROVE  Unique' /\ Owned'
  <2>1. /\ phase = "open" /\ phase' = "open" /\ uc_hook_del(count_hook, kept)
        /\ count_hook \in Hook
    BY <1>4 DEF EmuStartUncount, InUser, TypeOK
  <2>2. kept \in Nat /\ kept <= Cardinality(Lists(count_hook))
    BY <2>1, KeptType
  <2>3. CASE count_hook \in heap
    BY <2>1, <2>2, <2>3, DelLinks
  <2>4. CASE count_hook \notin heap
    <3>1. Lists(count_hook) = {} /\ Cardinality({}) = 0
      BY <2>1, <2>4, FS_EmptySet DEF Owned
    <3>2. kept = 0
      BY <2>2, <3>1
    <3>3. hooks_to_del' = hooks_to_del /\ refs' = refs /\ UNCHANGED <<hook, heap>>
      <4>1. [k \in 1..0 |-> count_hook] = <<>>
        OBVIOUS
      <4>2. hooks_to_del' = hooks_to_del \o <<>>
        BY <2>1, <3>2, <4>1 DEF uc_hook_del
      <4>3. hooks_to_del' = hooks_to_del
        BY <4>2, ConcatEmptySeq DEF TypeOK
      <4>4. refs[count_hook] + 0 = refs[count_hook]
        BY <2>1 DEF TypeOK
      <4> QED BY <2>1, <3>2, <4>3, <4>4 DEF uc_hook_del, TypeOK
    <3>4. Freed' = Freed
      BY <2>1 DEF Freed
    <3> QED BY <3>3, <3>4, SameOwned DEF Unique
  <2> QED BY <2>3, <2>4
<1>5. ASSUME NEW h \in Hook, NEW put \in Linked({CODE_IDX}, "count"), EmuStartCount(h, put)
      PROVE  Unique' /\ Owned'
  <2>1. ListsOf({CODE_IDX}) = {CODE_IDX} /\ {CODE_IDX} \in SUBSET Idx
    BY IdxAssumption DEF ListsOf
  <2>2. put = ListsOf({CODE_IDX})
    BY <2>1 DEF Linked
  <2>3. phase = "open" /\ phase' = "open" /\ h \notin heap
    BY <1>5 DEF EmuStartCount, InUser
  <2>4. uc_hook_add(h, {CODE_IDX}, ListsOf({CODE_IDX}), TRUE)
    BY <1>5, <2>2, Zenon DEF EmuStartCount
  <2> QED BY <2>1, <2>3, <2>4, AddLinks, Zenon
<1>6. ASSUME \/ \E counting \in BOOLEAN : EmuStart(counting)
             \/ EmuStop \/ TraceNone \/ CallbackLast \/ Close \/ EmuEnd
             \/ ClearUnlinked \/ Closed
             \/ \E h \in Hook : CallbackNext(h)
             \/ \E i \in Idx, h \in Hook, kind \in Kind, invalid \in BOOLEAN : Trace(i, h, kind, invalid)
      PROVE  Unique' /\ Owned'
  <2>1. UNCHANGED <<hook, hooks_to_del, heap, refs>> /\ Freed' = Freed
    BY <1>6, Zenon DEF EmuStart, EmuStop, TraceNone, CallbackLast, Close, EmuEnd, ClearUnlinked,
                Closed, CallbackNext, Trace, InUser, InEngine, lists, Freed
  <2> QED BY <2>1, SameOwned DEF Unique
<1>13. ASSUME ClearUnlink PROVE Unique' /\ Owned'
  <2> DEFINE h == hooks_to_del[pos + 1]
  <2>1. h \in Hook /\ hooks_to_del' = hooks_to_del /\ Freed' = Freed
    BY <1>13 DEF ClearUnlink, TypeOK, Freed
  <2> HIDE DEF h
  <2>2. CASE UNCHANGED <<hook, refs, heap>>
    BY <2>1, <2>2, SameOwned DEF Unique
  <2>3. CASE \E i \in Lists(h) : /\ hook' = [hook EXCEPT ![i] = RemoveAt(@, Position(i, h))]
                                 /\ hook_delete(h)
    <3>1. PICK i \in Lists(h) : /\ hook' = [hook EXCEPT ![i] = RemoveAt(@, Position(i, h))]
                                /\ hook_delete(h)
      BY <2>3, Zenon
    <3>2. i \in Idx /\ Contains(hook[i], h)
      BY DEF Lists
    <3> DEFINE s == RemoveAt(hook[i], Position(i, h))
    <3>3. /\ s \in Seq(Hook) /\ IsInjective(s)
          /\ \A x : Contains(s, x) <=> Contains(hook[i], x) /\ x # h
      BY <3>2, UnlinkProps
    <3>4. hook' = [hook EXCEPT ![i] = s]
      BY <3>1
    <3> HIDE DEF s
    <3> QED BY <2>1, <3>1, <3>3, <3>4, UnlinkLinks, Zenon
  <2> QED BY <1>13, <2>2, <2>3 DEF ClearUnlink, h
<1>15. ASSUME ClearFree PROVE Unique' /\ Owned'
  <2>1. /\ pos \in Nat /\ pos + 1 \in DOMAIN hooks_to_del
        /\ UNCHANGED <<hook, hooks_to_del>> /\ Freed = pos /\ Freed' = pos + 1
        /\ DOMAIN hooks_to_del \subseteq Nat
    BY <1>15 DEF ClearFree, TypeOK, Freed
  <2>2. PICK h \in Hook : h = hooks_to_del[pos + 1] /\ hook_delete(h)
    BY <1>15, <2>1 DEF ClearFree, TypeOK
  <2>3. Unique' /\ \A g : Lists(g)' = Lists(g)
    BY <2>1 DEF Unique, Lists
  <2>4. pos + 1 \in Pending(h)
    BY <2>1, <2>2 DEF Pending
  <2>5. Pending(h)' = Pending(h) \ {pos + 1}
    BY <2>1, <2>2 DEF Pending
  <2>6. ASSUME NEW g \in Hook, g # h PROVE Pending(g)' = Pending(g)
    BY <2>1, <2>2, <2>6 DEF Pending
  <2>7. h \in heap
    BY <2>4 DEF Owned
  <2>8. /\ IsFiniteSet(Pending(h)) /\ Cardinality(Pending(h)) \in Nat
        /\ Cardinality(Lists(h)) \in Nat
    BY ItemSets
  <2>9. Cardinality(Pending(h)') = Cardinality(Pending(h)) - 1
    BY <2>4, <2>5, <2>8, FS_RemoveElement
  <2>10. Cardinality(Lists(h)') + Cardinality(Pending(h)') + 1
          = Cardinality(Lists(h)) + Cardinality(Pending(h))
    BY <2>3, <2>8, <2>9
  <2>11. Owned'
    BY <2>2, <2>3, <2>6, <2>7, <2>10, ReleaseOwned
  <2> QED BY <2>3, <2>11
<1>16. ASSUME ClearDone PROVE Unique' /\ Owned'
  <2>1. /\ UNCHANGED <<hook, heap, refs>> /\ hooks_to_del' = <<>>
        /\ Freed = Len(hooks_to_del) /\ DOMAIN hooks_to_del = 1..Len(hooks_to_del)
        /\ Len(hooks_to_del) \in Nat
    BY <1>16 DEF ClearDone, TypeOK, Freed
  <2>2. \A g : Pending(g) = {} /\ Pending(g)' = {} /\ Lists(g)' = Lists(g)
    BY <2>1 DEF Pending, Lists
  <2> QED BY <2>1, <2>2, Zenon DEF Unique, Owned
<1>17. ASSUME NEW i \in Idx, CloseItem(i) PROVE Unique' /\ Owned'
  <2> DEFINE h == Head(hook[i])
             s == Tail(hook[i])
  <2>1. hook[i] \in Seq(Hook) /\ IsInjective(hook[i]) /\ hook[i] # <<>>
    BY <1>17 DEF CloseItem, TypeOK, Unique
  <2>2. /\ h \in Hook /\ Contains(hook[i], h)
        /\ s \in Seq(Hook) /\ IsInjective(s)
        /\ \A x : Contains(s, x) <=> Contains(hook[i], x) /\ x # h
    BY <2>1, TailMembers
  <2>3. /\ hook' = [hook EXCEPT ![i] = s] /\ hooks_to_del' = hooks_to_del
        /\ Freed' = Freed /\ hook_delete(h)
    BY <1>17 DEF CloseItem, Freed
  <2> HIDE DEF h, s
  <2>4. i \in Lists(h)
    BY <2>2 DEF Lists
  <2> QED BY <2>2, <2>3, <2>4, UnlinkLinks, Zenon
<1> QED
  BY <1>1, <1>2, <1>4, <1>5, <1>6, <1>13, <1>15, <1>16, <1>17 DEF Next

-----------------------------------------------------------------------------
(* Running loops *)

\* The levels and the cursors of the loops after a callback starts, moves on to
\* another hook, or ends.
LEMMA IterSteps ==
    ASSUME TypeOK, Levels, IterSafe, UNCHANGED <<hook, nested_level>>,
           \/ \E it \in Iter : /\ it.level = nested_level /\ nested_level > 0
                              /\ Contains(hook[it.index], it.cur)
                              /\ iters' = Append(iters, it)
           \/ /\ iters # <<>>
              /\ \E h \in Hook : /\ Contains(hook[Last(iters).index], h)
                                 /\ iters' = Append(Front(iters), [Last(iters) EXCEPT !.cur = h])
           \/ iters # <<>> /\ iters' = Front(iters)
    PROVE  Levels' /\ IterSafe'
<1> DEFINE n == Len(iters)
<1>0. n \in Nat /\ DOMAIN iters = 1..n /\ nested_level \in Int
  BY NestedAssumption DEF TypeOK
<1>1. ASSUME NEW it \in Iter, it.level = nested_level, nested_level > 0,
             Contains(hook[it.index], it.cur), iters' = Append(iters, it)
      PROVE  Levels' /\ IterSafe'
  <2>1. /\ DOMAIN iters' = 1..(n + 1) /\ iters'[n + 1] = it
        /\ \A k \in 1..n : iters'[k] = iters[k]
    BY <1>1 DEF TypeOK
  <2>2. \A k \in 1..n : 1 <= iters[k].level /\ iters[k].level <= nested_level
    BY <1>0 DEF Levels
  <2> HIDE DEF n
  <2>4. \A k \in 1..(n + 1) : k \in 1..n \/ k = n + 1
    BY <1>0
  <2>5. Levels'
    <3> SUFFICES ASSUME NEW k \in 1..(n + 1)
                 PROVE  /\ 1 <= iters'[k].level /\ iters'[k].level <= nested_level
                        /\ \A m \in 1..(n + 1) : m < k => iters'[m].level <= iters'[k].level
      BY <2>1 DEF Levels
    <3>1. CASE k \in 1..n
      <4>1. \A m \in 1..(n + 1) : m < k => m \in 1..n
        BY <1>0, <3>1
      <4> QED BY <1>0, <2>1, <2>2, <3>1, <4>1 DEF Levels
    <3>2. CASE k = n + 1
      <4>1. \A m \in 1..(n + 1) : m < k => m \in 1..n
        BY <1>0, <3>2
      <4> QED BY <1>0, <1>1, <2>1, <2>2, <3>2, <4>1
    <3> QED BY <2>4, <3>1, <3>2
  <2>6. IterSafe'
    BY <1>0, <1>1, <2>1, <2>4 DEF IterSafe
  <2> QED BY <2>5, <2>6
<1>2. ASSUME iters # <<>>, NEW h \in Hook, Contains(hook[Last(iters).index], h),
             iters' = Append(Front(iters), [Last(iters) EXCEPT !.cur = h])
      PROVE  Levels' /\ IterSafe'
  <2> DEFINE it == iters[n]
  <2>1. n > 0 /\ Last(iters) = it /\ it \in Iter
    BY <1>2 DEF TypeOK, Last
  <2>2. /\ Front(iters) \in Seq(Iter) /\ Len(Front(iters)) = n - 1
        /\ \A k \in 1..(n - 1) : Front(iters)[k] = iters[k]
    BY <1>2, IterFront DEF TypeOK
  <2>3. /\ DOMAIN iters' = 1..n /\ iters'[n] = [it EXCEPT !.cur = h]
        /\ \A k \in 1..(n - 1) : iters'[k] = iters[k]
    <3> DEFINE f == Front(iters)
               x == [it EXCEPT !.cur = h]
    <3>1. iters' = Append(f, x) /\ f \in Seq(Iter) /\ Len(f) = n - 1
      BY <1>2, <2>1, <2>2
    <3>2. \A k \in 1..(n - 1) : f[k] = iters[k]
      BY <2>2
    <3>3. n \in Nat /\ n > 0
      BY <1>0, <2>1
    <3> HIDE DEF f, x, n
    <3>4. /\ DOMAIN Append(f, x) = 1..n /\ Append(f, x)[n] = x
          /\ \A k \in 1..(n - 1) : Append(f, x)[k] = f[k]
      BY <3>1, <3>3
    <3> QED BY <3>1, <3>2, <3>4, Zenon DEF x
  <2>4. /\ iters'[n].level = it.level /\ iters'[n].index = it.index
        /\ iters'[n].cur = h
    BY <2>1, <2>3 DEF Iter
  <2> HIDE DEF n
  <2>5. \A k \in 1..n : k \in 1..(n - 1) \/ k = n
    BY <1>0
  <2>6. \A k \in 1..n : iters'[k].level = iters[k].level
    BY <2>3, <2>4, <2>5, Zenon
  <2>7. Levels'
    BY <1>0, <2>3, <2>6 DEF Levels
  <2>8. IterSafe'
    BY <1>0, <1>2, <2>1, <2>3, <2>4, <2>5 DEF IterSafe
  <2> QED BY <2>7, <2>8
<1>3. ASSUME iters # <<>>, iters' = Front(iters)
      PROVE  Levels' /\ IterSafe'
  <2>1. /\ Front(iters) \in Seq(Iter) /\ Len(Front(iters)) = n - 1
        /\ \A k \in 1..(n - 1) : Front(iters)[k] = iters[k]
    BY <1>3, IterFront DEF TypeOK
  <2>2. DOMAIN iters' = 1..(n - 1) /\ \A k \in 1..(n - 1) : k \in 1..n
    BY <1>0, <1>3, <2>1
  <2>3. \A k \in 1..(n - 1) : iters'[k] = iters[k]
    BY <1>3, <2>1
  <2> HIDE DEF n
  <2>4. Levels'
    BY <1>0, <2>2, <2>3 DEF Levels
  <2>5. IterSafe'
    BY <1>0, <2>2, <2>3 DEF IterSafe
  <2> QED BY <2>4, <2>5
<1> QED BY <1>1, <1>2, <1>3, Zenon

\* The fields of a running loop.
LEMMA IterFields ==
    ASSUME iters \in Seq(Iter), NEW n \in DOMAIN iters
    PROVE  iters[n].level \in Nat /\ iters[n].level \in Int /\ iters[n].index \in Idx
<1>1. iters[n] \in Iter
  OBVIOUS
<1> QED BY <1>1 DEF Iter

\* A hook added to some lists leaves every cursor on a linked item.
LEMMA AddKeeps ==
    ASSUME TypeOK, IterSafe, NEW h \in Hook, NEW types, NEW put, NEW front \in BOOLEAN,
           uc_hook_add(h, types, put, front), iters' = iters
    PROVE  IterSafe'
<1>1. ASSUME NEW i \in Idx, NEW x, Contains(hook[i], x)
      PROVE  Contains(hook'[i], x)
  <2>1. hook[i] \in Seq(Hook)
    BY DEF TypeOK
  <2>2. Contains(Cons(h, hook[i]), x) /\ Contains(Append(hook[i], h), x)
    BY <1>1, <2>1, ConsMembers, AppendMembers
  <2> QED BY <1>1, <2>2 DEF uc_hook_add
<1>2. \A n \in DOMAIN iters : iters[n].index \in Idx
  BY IterFields DEF TypeOK
<1> QED BY <1>1, <1>2 DEF IterSafe

\* The inner emulation level ends only when no loop of it runs.
LEMMA EndLevels ==
    ASSUME TypeOK, Levels, ~InCallback, iters' = iters, nested_level' = nested_level - 1
    PROVE  Levels'
<1> SUFFICES ASSUME NEW n \in DOMAIN iters
             PROVE  iters[n].level <= nested_level - 1
  BY DEF Levels
<1>1. iters # <<>>
  BY DEF TypeOK
<1>2. /\ Len(iters) \in Nat /\ DOMAIN iters = 1..Len(iters)
      /\ Len(iters) \in DOMAIN iters /\ Last(iters) = iters[Len(iters)]
  BY <1>1 DEF TypeOK, Last
<1>3. /\ nested_level \in Int /\ iters[n].level \in Int /\ iters[Len(iters)].level \in Int
  <2>1. nested_level \in Int /\ iters \in Seq(Iter)
    BY NestedAssumption DEF TypeOK
  <2> QED BY <1>2, <2>1, IterFields
<1>4. iters[Len(iters)].level <= nested_level /\ iters[Len(iters)].level # nested_level
  BY <1>1, <1>2 DEF Levels, InCallback
<1>5. iters[n].level <= iters[Len(iters)].level
  <2>1. CASE n = Len(iters)
    BY <1>3, <2>1
  <2>2. CASE n # Len(iters)
    BY <1>2, <2>2 DEF Levels
  <2> QED BY <2>1, <2>2
<1> QED BY <1>3, <1>4, <1>5

\* Every step keeps the levels and the cursors of the running loops.
LEMMA LoopStep ==
    ASSUME IInv, Next
    PROVE  Levels' /\ IterSafe' /\ Quiet'
<1> USE DEF IInv
<1>0. nested_level \in Nat /\ nested_level \in Int
  BY NestedAssumption DEF TypeOK
<1>1. ASSUME NEW h \in Hook, NEW types, NEW put, NEW front \in BOOLEAN,
             uc_hook_add(h, types, put, front), UNCHANGED <<iters, phase>>,
             nested_level' \in {nested_level, nested_level + 1}, phase = "open"
      PROVE  Levels' /\ IterSafe' /\ Quiet'
  <2>1. IterSafe'
    BY <1>1, AddKeeps
  <2>2. \A n \in DOMAIN iters : iters[n].level \in Int
    BY IterFields DEF TypeOK
  <2>3. Levels'
    BY <1>0, <1>1, <2>2 DEF Levels
  <2> QED BY <1>1, <2>1, <2>3 DEF Quiet
<1>2. ASSUME UNCHANGED <<hook, iters, phase>>,
             nested_level' \in {nested_level, nested_level + 1}, phase = "open"
      PROVE  Levels' /\ IterSafe' /\ Quiet'
  <2>1. \A n \in DOMAIN iters : iters[n].level \in Int
    BY IterFields DEF TypeOK
  <2>2. Levels'
    BY <1>0, <1>2, <2>1 DEF Levels
  <2> QED BY <1>2, <2>2 DEF Quiet, IterSafe
<1>3. ASSUME nested_level = 0, UNCHANGED <<iters, nested_level>>
      PROVE  Levels' /\ IterSafe' /\ Quiet'
  <2>1. \A n \in DOMAIN iters : iters[n].level \in Int
    BY IterFields DEF TypeOK
  <2>2. \A n \in DOMAIN iters : FALSE
    <3> SUFFICES ASSUME NEW n \in DOMAIN iters PROVE FALSE
      OBVIOUS
    <3>1. iters[n].level \in Int /\ 1 <= iters[n].level /\ iters[n].level <= 0
      BY <1>3, <2>1 DEF Levels
    <3> QED BY <3>1
  <2> QED BY <1>3, <2>2 DEF Levels, IterSafe, Quiet
<1>4. ASSUME NEW h \in Hook, NEW types \in SUBSET Idx,
             NEW put \in Linked(ListsOf(types), "add"), HookAdd(h, types, put)
      PROVE  Levels' /\ IterSafe' /\ Quiet'
  BY <1>1, <1>4, Zenon DEF HookAdd, InUser
<1>5. ASSUME NEW h \in Hook, NEW put \in Linked({CODE_IDX}, "count"), EmuStartCount(h, put)
      PROVE  Levels' /\ IterSafe' /\ Quiet'
  BY <1>1, <1>5, Zenon DEF EmuStartCount, InUser
<1>6. ASSUME \/ \E h \in Hook : \E kept \in Kept(h) : HookDel(h, kept)
             \/ \E counting \in BOOLEAN : EmuStart(counting)
             \/ \E kept \in Kept(count_hook) : EmuStartUncount(kept)
             \/ EmuStop \/ TraceNone
      PROVE  Levels' /\ IterSafe' /\ Quiet'
  BY <1>2, <1>6, Zenon DEF HookDel, EmuStart, EmuStartUncount, EmuStop, TraceNone, uc_hook_del,
                    InUser, InEngine, lists
<1>7. ASSUME \/ Close \/ ClearUnlink \/ ClearUnlinked \/ ClearFree \/ ClearDone \/ Closed
             \/ \E i \in Idx : CloseItem(i)
      PROVE  Levels' /\ IterSafe' /\ Quiet'
  <2>1. nested_level = 0 /\ UNCHANGED <<iters, nested_level>>
    BY <1>7 DEF Close, ClearUnlink, ClearUnlinked, ClearFree, ClearDone, Closed, CloseItem, Quiet
  <2> QED BY <1>3, <2>1
<1>8. ASSUME NEW i \in Idx, NEW h \in Hook, NEW kind \in Kind, NEW invalid \in BOOLEAN,
             Trace(i, h, kind, invalid)
      PROVE  Levels' /\ IterSafe' /\ Quiet'
  <2> DEFINE it == [level |-> nested_level, index |-> i, cur |-> h,
                    kind |-> kind, last |-> invalid \/ i = TCG_OPCODE_IDX]
  <2>1. /\ UNCHANGED <<hook, nested_level, phase>> /\ nested_level > 0
        /\ iters' = Append(iters, it) /\ h \in Callable(i, 0)
    BY <1>8 DEF Trace, InEngine, lists
  <2>2. it \in Iter /\ it.level = nested_level /\ it.index = i /\ it.cur = h
    BY <1>0, Zenon DEF Iter
  <2>3. Contains(hook[i], h)
    BY <2>1 DEF Callable, Contains
  <2>4. \E x \in Iter : /\ x.level = nested_level /\ nested_level > 0
                        /\ Contains(hook[x.index], x.cur)
                        /\ iters' = Append(iters, x)
    <3> HIDE DEF it
    <3> QED BY <2>1, <2>2, <2>3
  <2> HIDE DEF it
  <2>5. Levels' /\ IterSafe'
    BY <2>1, <2>4, IterSteps
  <2> QED BY <2>1, <2>5 DEF Quiet
<1>9. ASSUME NEW h \in Hook, CallbackNext(h)
      PROVE  Levels' /\ IterSafe' /\ Quiet'
  <2>1. /\ UNCHANGED <<hook, nested_level, phase>> /\ iters # <<>>
        /\ iters' = Append(Front(iters), [Last(iters) EXCEPT !.cur = h])
        /\ Contains(hook[Last(iters).index], h)
    BY <1>9 DEF CallbackNext, InCallback, Callable, Contains, lists
  <2>2. Levels' /\ IterSafe'
    BY <2>1, IterSteps
  <2> QED BY <2>1, <2>2 DEF Quiet
<1>10. ASSUME CallbackLast
       PROVE  Levels' /\ IterSafe' /\ Quiet'
  <2>1. /\ UNCHANGED <<hook, nested_level, phase>> /\ iters # <<>> /\ iters' = Front(iters)
    BY <1>10 DEF CallbackLast, InCallback, lists
  <2>2. Levels' /\ IterSafe'
    BY <2>1, IterSteps
  <2> QED BY <2>1, <2>2 DEF Quiet
<1>11. ASSUME EmuEnd
       PROVE  Levels' /\ IterSafe' /\ Quiet'
  <2>1. /\ UNCHANGED <<hook, iters>> /\ ~InCallback /\ nested_level' = nested_level - 1
        /\ phase' = IF nested_level = 1 THEN "unlink" ELSE "open"
    BY <1>11 DEF EmuEnd, InEngine, lists
  <2>2. Levels'
    BY <2>1, EndLevels
  <2>3. Quiet'
    BY <1>0, <2>1 DEF Quiet
  <2> QED BY <2>1, <2>2, <2>3 DEF IterSafe
<1> QED
  BY <1>4, <1>5, <1>6, <1>7, <1>8, <1>9, <1>10, <1>11 DEF Next

-----------------------------------------------------------------------------
(* Theorems *)

\* IInv is inductive as long as uc_hook_add, called by the user or to count
\* instructions, can allocate its list items.
THEOREM Inductive ==
    ASSUME NoMemAt \subseteq {"del"}
    PROVE  Spec => []IInv
<1>1. Init => IInv
  <2> SUFFICES ASSUME Init PROVE IInv
    OBVIOUS
  <2>1. TypeOK
    <3>1. hook \in [Idx -> Seq(Hook)] /\ hooks_to_del \in Seq(Hook) /\ iters \in Seq(Iter)
      BY DEF Init
    <3>2. nested_level \in 0..MAX_NESTED
      BY NestedAssumption DEF Init
    <3>3. /\ hooks_count \in [Idx -> Int] /\ heap \in SUBSET Hook /\ refs \in [Hook -> Int]
          /\ pos \in Nat
      BY DEF Init
    <3>4. /\ to_delete \in [Hook -> BOOLEAN] /\ stop_request \in BOOLEAN /\ closing \in BOOLEAN
          /\ count_hook \in Hook \cup {NoHook}
          /\ phase \in {"open", "unlink", "free", "close", "closed"}
      BY Zenon DEF Init
    <3> QED BY <3>1, <3>2, <3>3, <3>4 DEF TypeOK
  <2>2. Unique
    BY DEF Init, Unique, IsInjective
  <2>3. \A h : Lists(h) = {} /\ Pending(h) = {}
    BY DEF Init, Lists, Pending, Contains
  <2>4. Owned
    BY <2>3 DEF Init, Owned
  <2>5. Levels /\ IterSafe /\ Quiet
    BY DEF Init, Levels, IterSafe, Quiet
  <2> QED BY <2>1, <2>2, <2>4, <2>5 DEF IInv
<1>2. IInv /\ [Next]_vars => IInv'
  <2> SUFFICES ASSUME IInv, [Next]_vars PROVE IInv'
    OBVIOUS
  <2>1. CASE Next
    <3>1. TypeOK'
      BY <2>1, TypeStep DEF IInv
    <3>2. Unique' /\ Owned'
      BY <2>1, <3>1, LinksStep DEF IInv
    <3>3. Levels' /\ IterSafe' /\ Quiet'
      BY <2>1, LoopStep
    <3> QED BY <3>1, <3>2, <3>3 DEF IInv
  <2>2. CASE UNCHANGED vars
    <3>1. TypeOK' /\ Unique' /\ Levels' /\ IterSafe' /\ Quiet'
      BY <2>2 DEF IInv, TypeOK, Unique, Levels, IterSafe, Quiet, vars, lists
    <3>2. Freed' = Freed /\ UNCHANGED <<hook, hooks_to_del, heap, refs>>
      BY <2>2 DEF Freed, vars, lists
    <3>3. Owned'
      BY <3>2, SameOwned DEF IInv
    <3> QED BY <3>1, <3>3 DEF IInv
  <2> QED BY <2>1, <2>2
<1> QED BY <1>1, <1>2, PTL DEF Spec

\* The registry's variables keep their types; in particular nested_level never
\* passes UC_MAX_NESTED_LEVEL.
THEOREM Types ==
    ASSUME NoMemAt \subseteq {"del"}
    PROVE  Spec => []TypeOK
<1>1. IInv => TypeOK
  BY DEF IInv
<1> QED BY <1>1, Inductive, PTL

\* No list, nor the list of hooks waiting to be destroyed, points to a freed hook.
THEOREM Allocated ==
    ASSUME NoMemAt \subseteq {"del"}
    PROVE  Spec => []NoDangling
<1>1. IInv => NoDangling
  BY DEF IInv, Owned, NoDangling
<1> QED BY <1>1, Inductive, PTL

\* hook->refs is the number of list items that point to the hook, so hook_delete
\* frees each hook with its last item.
THEOREM ReferenceCounts ==
    ASSUME NoMemAt \subseteq {"del"}
    PROVE  Spec => []RefsExact
<1>1. IInv => RefsExact
  BY DEF IInv, Owned, RefsExact, TypeOK
<1> QED BY <1>1, Inductive, PTL

\* The loops of helper_uc_tracecode keep a linked item under their cursor, at any
\* nesting depth, whatever the callbacks add, delete, stop or start.
THEOREM Cursors ==
    ASSUME NoMemAt \subseteq {"del"}
    PROVE  Spec => []IterSafe
<1>1. IInv => IterSafe
  BY DEF IInv
<1> QED BY <1>1, Inductive, PTL
=============================================================================
