------------------------- MODULE HooksCountProofs --------------------------
(***************************************************************************)
(* For any number of hooks, hook types and nesting levels: hooks_count is  *)
(* the number of live hooks of each list, the instruction counter comes    *)
(* first, and every deleted hook is destroyed in the end.                  *)
(***************************************************************************)
EXTENDS HooksProofs

\* The hooks of list i that are not deleted.
LiveIn(i) == {h \in heap : Contains(hook[i], h) /\ ~to_delete[h]}

\* The items of a hook in hooks_to_del that the loop of clear_deleted_hooks has
\* not passed yet.
Remaining(h) == {k \in DOMAIN hooks_to_del : k > pos /\ hooks_to_del[k] = h}

\* Only deleted hooks wait in hooks_to_del.
Marked == \A k \in DOMAIN hooks_to_del : to_delete[hooks_to_del[k]]

\* A deleted hook waits once for each list it is still linked in; when the items
\* are freed it is linked in none.
Queued ==
    "del" \notin NoMemAt =>
        /\ phase \in {"open", "unlink"} =>
              \A h \in heap : to_delete[h] => Cardinality(Remaining(h)) = Cardinality(Lists(h))
        /\ phase = "free" => \A h \in heap : to_delete[h] => Lists(h) = {}

\* Before the loops of clear_deleted_hooks and after the last of them.
Around ==
    /\ phase = "open" => pos = 0
    /\ phase \in {"close", "closed"} => hooks_to_del = <<>>
    /\ phase = "closed" => \A i \in Idx : hook[i] = <<>>

\* The instruction counter is live and only deleted hooks precede it.
CounterAhead ==
    count_hook # NoHook /\ phase \notin {"close", "closed"} =>
        /\ ~to_delete[count_hook]
        /\ \E p \in 1..Len(hook[CODE_IDX]) :
              /\ hook[CODE_IDX][p] = count_hook
              /\ \A q \in 1..p - 1 : to_delete[hook[CODE_IDX][q]]

CInv == IInv /\ CountExact /\ Marked /\ Queued /\ Around /\ CounterAhead

-----------------------------------------------------------------------------
(* The number of live hooks. *)

\* The live hooks of a list can be counted.
LEMMA LiveFinite ==
    ASSUME TypeOK, NEW i \in Idx
    PROVE  IsFiniteSet(LiveIn(i)) /\ Cardinality(LiveIn(i)) \in Nat
<1> DEFINE s == hook[i]
           E == {s[k] : k \in 1..Len(s)}
<1>1. s \in Seq(Hook) /\ DOMAIN s = 1..Len(s)
  BY DEF TypeOK
<1>2. s \in Seq(E) /\ \A x \in E : \E n \in 1..Len(s) : s[n] = x
  BY <1>1
<1>3. IsFiniteSet(E)
  BY <1>2, Zenon DEF IsFiniteSet
<1>4. LiveIn(i) \subseteq E
  BY <1>1 DEF LiveIn, Contains
<1> QED BY <1>3, <1>4, FS_Subset, FS_CardinalityType

\* CountExact in terms of the sets of live hooks.
LEMMA CountIsLive ==
    CountExact <=> (phase # "close" /\ phase # "closed" =>
                      \A i \in Idx : hooks_count[i] = Cardinality(LiveIn(i)))
BY Zenon DEF CountExact, LiveIn

\* A step that changes no count and no live hook keeps the counts exact.
LEMMA SameLive ==
    ASSUME CountExact, hooks_count' = hooks_count,
           phase' \notin {"close", "closed"} =>
               phase \notin {"close", "closed"} /\ \A i \in Idx : LiveIn(i)' = LiveIn(i)
    PROVE  CountExact'
<1>1. CountExact' <=> (phase' # "close" /\ phase' # "closed" =>
                        \A i \in Idx : hooks_count'[i] = Cardinality(LiveIn(i)'))
  BY Zenon DEF CountExact, LiveIn
<1> QED BY <1>1, CountIsLive

\* uc_hook_add counts the new hook in the lists it is linked into.
LEMMA AddCounts ==
    ASSUME TypeOK, Unique, Owned, CountExact, phase = "open",
           NEW h \in Hook, h \notin heap, NEW types \in SUBSET Idx,
           NEW front \in BOOLEAN, uc_hook_add(h, types, ListsOf(types), front)
    PROVE  CountExact'
<1> DEFINE put == ListsOf(types)
<1>1. /\ put \in SUBSET Idx /\ \A i \in Idx : ~Contains(hook[i], h)
      /\ \A i \in Idx : \A x : Contains(hook'[i], x) <=> Contains(hook[i], x) \/ (x = h /\ i \in put)
  BY AddMembers
<1>2. /\ heap' = IF put # {} THEN heap \cup {h} ELSE heap
      /\ \A i \in Idx : hooks_count'[i] = hooks_count[i] + (IF i \in put THEN 1 ELSE 0)
      /\ to_delete' = [to_delete EXCEPT ![h] = FALSE]
  BY Zenon DEF uc_hook_add
<1> HIDE DEF put
<1>3. ASSUME NEW i \in Idx PROVE hooks_count'[i] = Cardinality(LiveIn(i)')
  <2>1. hooks_count[i] = Cardinality(LiveIn(i)) /\ Cardinality(LiveIn(i)) \in Nat
        /\ IsFiniteSet(LiveIn(i)) /\ h \notin LiveIn(i)
    BY CountIsLive, LiveFinite, Zenon DEF LiveIn
  <2>2. \A g \in Hook : g # h => to_delete'[g] = to_delete[g]
    BY <1>2 DEF TypeOK
  <2>3. ~to_delete'[h]
    BY <1>2 DEF TypeOK
  <2>4. heap \subseteq Hook
    BY DEF TypeOK
  <2>5. LiveIn(i)' = IF i \in put THEN LiveIn(i) \cup {h} ELSE LiveIn(i)
    BY <1>1, <1>2, <2>2, <2>3, <2>4 DEF LiveIn
  <2>6. hooks_count'[i] = hooks_count[i] + (IF i \in put THEN 1 ELSE 0)
    BY <1>2
  <2>7. Cardinality(LiveIn(i) \cup {h}) = Cardinality(LiveIn(i)) + 1
    BY <2>1, FS_AddElement, Zenon
  <2> QED BY <2>1, <2>5, <2>6, <2>7
<1> QED BY <1>3, Zenon DEF CountExact, LiveIn

\* uc_hook_del takes a live hook out of the counts of its lists.
LEMMA DelCounts ==
    ASSUME TypeOK, CountExact, phase = "open",
           NEW h \in heap, ~to_delete[h], NEW kept, uc_hook_del(h, kept)
    PROVE  CountExact'
<1>1. /\ hook' = hook /\ heap' = heap /\ h \in Hook
      /\ \A i \in Idx : hooks_count'[i] = hooks_count[i] - (IF i \in Lists(h) THEN 1 ELSE 0)
      /\ to_delete' = [to_delete EXCEPT ![h] = @ \/ Lists(h) # {}]
  BY Zenon DEF uc_hook_del, TypeOK
<1>2. ASSUME NEW i \in Idx PROVE hooks_count'[i] = Cardinality(LiveIn(i)')
  <2>1. hooks_count[i] = Cardinality(LiveIn(i)) /\ Cardinality(LiveIn(i)) \in Nat
        /\ IsFiniteSet(LiveIn(i))
    BY CountIsLive, LiveFinite, Zenon
  <2>2. (\A g \in Hook : g # h => to_delete'[g] = to_delete[g]) /\ (to_delete'[h] <=> Lists(h) # {})
    BY <1>1, Zenon DEF TypeOK
  <2>3. i \in Lists(h) <=> Contains(hook[i], h)
    BY DEF Lists
  <2>4. heap \subseteq Hook
    BY DEF TypeOK
  <2>5. CASE i \in Lists(h)
    <3>1. LiveIn(i)' = LiveIn(i) \ {h} /\ h \in LiveIn(i)
      BY <1>1, <2>2, <2>3, <2>4, <2>5 DEF LiveIn
    <3>2. Cardinality(LiveIn(i) \ {h}) = Cardinality(LiveIn(i)) - 1
      BY <2>1, <3>1, FS_RemoveElement
    <3>3. hooks_count'[i] = hooks_count[i] - 1
      BY <1>1, <2>5
    <3> QED BY <2>1, <3>1, <3>2, <3>3
  <2>6. CASE i \notin Lists(h)
    <3>1. LiveIn(i)' = LiveIn(i)
      BY <1>1, <2>2, <2>3, <2>4, <2>6 DEF LiveIn
    <3>2. hooks_count'[i] = hooks_count[i] - 0
      BY <1>1, <2>6
    <3> QED BY <2>1, <3>1, <3>2
  <2> QED BY <2>5, <2>6
<1> QED BY <1>2, Zenon DEF CountExact, LiveIn

-----------------------------------------------------------------------------
(* The hooks that wait to be destroyed. *)

\* uc_hook_add: the new hook does not wait, and the others wait as before.
LEMMA AddQueue ==
    ASSUME TypeOK, Unique, Owned, Marked, Queued, phase = "open", phase' = "open", pos' = pos,
           NEW h \in Hook, h \notin heap, NEW types \in SUBSET Idx,
           NEW front \in BOOLEAN, uc_hook_add(h, types, ListsOf(types), front)
    PROVE  Marked' /\ Queued'
<1>1. \A g : g # h => Lists(g)' = Lists(g)
  <2>1. \A i \in Idx : \A x : x # h => (Contains(hook'[i], x) <=> Contains(hook[i], x))
    BY AddMembers
  <2> QED BY <2>1 DEF Lists
<1>2. /\ hooks_to_del' = hooks_to_del /\ heap' \subseteq heap \cup {h} /\ ~to_delete'[h]
      /\ \A g \in Hook : g # h => to_delete'[g] = to_delete[g]
  BY DEF uc_hook_add, TypeOK
<1>3. Pending(h) = {} /\ Freed = 0
  BY DEF Owned, Freed
<1>4. \A k \in DOMAIN hooks_to_del : hooks_to_del[k] # h /\ hooks_to_del[k] \in Hook
  <2>1. DOMAIN hooks_to_del \subseteq Nat \ {0} /\ \A k \in DOMAIN hooks_to_del : hooks_to_del[k] \in Hook
    BY DEF TypeOK
  <2>2. \A k \in DOMAIN hooks_to_del : k > 0
    BY <2>1
  <2> QED BY <1>3, <2>1, <2>2, Zenon DEF Pending
<1>5. Marked'
  BY <1>2, <1>4, Zenon DEF Marked
<1>6. \A g : Remaining(g)' = Remaining(g)
  BY <1>2 DEF Remaining
<1>7. heap \subseteq Hook
  BY DEF TypeOK
<1>8. ASSUME "del" \notin NoMemAt, NEW g \in heap', to_delete'[g]
      PROVE  Cardinality(Remaining(g)') = Cardinality(Lists(g)')
  <2>1. g # h /\ g \in heap /\ to_delete[g]
    BY <1>2, <1>7, <1>8
  <2> QED BY <1>1, <1>6, <1>8, <2>1 DEF Queued
<1>9. Queued'
  BY <1>8, Zenon DEF Queued
<1> QED BY <1>5, <1>9

\* uc_hook_del: the deleted hook waits once for each list it is linked in.
LEMMA DelQueue ==
    ASSUME TypeOK, Marked, Queued, Around, phase = "open", phase' = "open", pos' = pos,
           NEW h \in heap, ~to_delete[h], NEW kept \in Kept(h), uc_hook_del(h, kept)
    PROVE  Marked' /\ Queued'
<1> DEFINE n == Len(hooks_to_del)
<1>1. h \in Hook /\ n \in Nat /\ kept \in Nat /\ kept <= Cardinality(Lists(h)) /\ pos = 0
  <2>1. h \in Hook /\ n \in Nat
    BY DEF TypeOK
  <2> QED BY <2>1, KeptType DEF Around
<1>2. /\ \A k \in 1..n + kept : hooks_to_del'[k] = IF k <= n THEN hooks_to_del[k] ELSE h
      /\ DOMAIN hooks_to_del' = 1..n + kept /\ DOMAIN hooks_to_del = 1..n
  BY <1>1, DelItems, Zenon
<1> HIDE DEF n
<1>3. /\ heap' = heap /\ \A g : Lists(g)' = Lists(g)
      /\ \A g \in Hook : g # h => to_delete'[g] = to_delete[g]
      /\ to_delete'[h] <=> Lists(h) # {}
  <2>1. /\ heap' = heap /\ hook' = hook
        /\ to_delete' = [to_delete EXCEPT ![h] = to_delete[h] \/ Lists(h) # {}]
    BY Zenon DEF uc_hook_del
  <2>2. to_delete \in [Hook -> BOOLEAN]
    BY DEF TypeOK
  <2>3. \A g : Lists(g)' = Lists(g)
    BY <2>1 DEF Lists
  <2>4. \A g \in Hook : g # h => to_delete'[g] = to_delete[g]
    BY <2>1, <2>2, Zenon
  <2>5. to_delete'[h] = (to_delete[h] \/ Lists(h) # {})
    BY <1>1, <2>1, <2>2, Zenon
  <2> QED BY <2>1, <2>3, <2>4, <2>5, Zenon
<1>4. \A k \in 1..n : hooks_to_del[k] # h /\ hooks_to_del[k] \in Hook
  <2>1. hooks_to_del \in Seq(Hook)
    BY DEF TypeOK
  <2>2. \A k \in DOMAIN hooks_to_del : hooks_to_del[k] \in Hook
    BY <2>1
  <2> QED BY <1>2, <2>2, Zenon DEF Marked
<1>5. kept # 0 => Lists(h) # {}
  <2>1. Cardinality(Lists(h)) = 0 <=> Lists(h) = {}
    BY <1>1, ItemSets
  <2>2. Cardinality(Lists(h)) \in Nat
    BY <1>1, ItemSets
  <2> QED BY <1>1, <2>1, <2>2
<1>6. Marked'
  <2> SUFFICES ASSUME NEW k \in 1..n + kept PROVE to_delete'[hooks_to_del'[k]]
    BY <1>2, Zenon DEF Marked
  <2>1. CASE k <= n
    <3>1. k \in 1..n /\ hooks_to_del'[k] = hooks_to_del[k]
      BY <1>1, <1>2, <2>1
    <3> QED BY <1>2, <1>3, <1>4, <3>1, Zenon DEF Marked
  <2>2. CASE ~(k <= n)
    <3>1. hooks_to_del'[k] = h /\ kept # 0
      BY <1>1, <1>2, <2>2
    <3> QED BY <1>3, <1>5, <3>1, Zenon
  <2> QED BY <2>1, <2>2
<1>7. ASSUME NEW g \in Hook, g # h PROVE Remaining(g)' = Remaining(g)
  BY <1>1, <1>2, <1>7 DEF Remaining
<1>8. Remaining(h)' = n + 1..n + kept
  BY <1>1, <1>2, <1>4 DEF Remaining
<1>9. Cardinality(n + 1..n + kept) = kept
  <2>1. n + 1 \in Int /\ n + kept \in Int
    BY <1>1
  <2>2. Cardinality(n + 1..n + kept) = IF n + 1 > n + kept THEN 0 ELSE (n + kept) - (n + 1) + 1
    BY <2>1, FS_Interval
  <2>3. (IF n + 1 > n + kept THEN 0 ELSE (n + kept) - (n + 1) + 1) = kept
    BY <1>1
  <2> QED BY <2>2, <2>3
<1>10. ASSUME "del" \notin NoMemAt, NEW g \in heap', to_delete'[g]
       PROVE  Cardinality(Remaining(g)') = Cardinality(Lists(g)')
  <2>1. g \in heap /\ g \in Hook
    BY <1>3, <1>10 DEF TypeOK
  <2>2. CASE g = h
    <3>1. kept = Cardinality(Lists(h))
      BY <1>10, Zenon DEF Kept
    <3> QED BY <1>3, <1>8, <1>9, <2>2, <3>1
  <2>3. CASE g # h
    <3>1. to_delete[g] /\ Remaining(g)' = Remaining(g) /\ Lists(g)' = Lists(g)
      BY <1>3, <1>7, <1>10, <2>1, <2>3, Zenon
    <3> QED BY <1>10, <2>1, <3>1 DEF Queued
  <2> QED BY <2>2, <2>3
<1>11. Queued'
  BY <1>10, Zenon DEF Queued
<1> QED BY <1>6, <1>11

\* One iteration of the first loop of clear_deleted_hooks uses up one item of the
\* hook and one of its links.
LEMMA UnlinkQueue ==
    ASSUME TypeOK, Unique, Owned, Marked, Queued, ClearUnlink
    PROVE  Marked' /\ Queued'
<1>0. PICK h \in Hook : h = hooks_to_del[pos + 1]
  BY DEF ClearUnlink, TypeOK
<1>1. /\ pos \in Nat /\ pos + 1 \in DOMAIN hooks_to_del /\ to_delete[h]
      /\ phase = "unlink" /\ pos' = pos + 1
      /\ UNCHANGED <<hooks_to_del, to_delete, phase>>
      /\ DOMAIN hooks_to_del \subseteq Nat
  <2>1. pos \in Nat /\ pos + 1 \in DOMAIN hooks_to_del
    BY DEF ClearUnlink, TypeOK
  <2>2. DOMAIN hooks_to_del \subseteq Nat
    BY DEF TypeOK
  <2>3. to_delete[h]
    BY <1>0, <2>1 DEF Marked
  <2> QED BY <2>1, <2>2, <2>3 DEF ClearUnlink
<1>2. Marked'
  BY <1>1 DEF Marked
<1>3. Remaining(h)' = Remaining(h) \ {pos + 1} /\ pos + 1 \in Remaining(h)
  BY <1>0, <1>1 DEF Remaining
<1>4. ASSUME NEW g, g # h PROVE Remaining(g)' = Remaining(g)
  BY <1>0, <1>1, <1>4 DEF Remaining
<1>5. IsFiniteSet(Remaining(h)) /\ Cardinality(Remaining(h)) \in Nat \ {0}
  <2>1. Remaining(h) \in SUBSET (1..Len(hooks_to_del)) /\ Len(hooks_to_del) \in Nat
    <3>1. DOMAIN hooks_to_del = 1..Len(hooks_to_del) /\ Len(hooks_to_del) \in Nat
      BY DEF TypeOK
    <3> QED BY <3>1, Zenon DEF Remaining
  <2>2. /\ IsFiniteSet(Remaining(h)) /\ Cardinality(Remaining(h)) \in Nat
        /\ (Cardinality(Remaining(h)) = 0 <=> Remaining(h) = {})
    BY <2>1, CountedSets, Zenon
  <2> QED BY <1>3, <2>2
<1>6. Cardinality(Remaining(h)') = Cardinality(Remaining(h)) - 1
  <2>1. Cardinality(Remaining(h) \ {pos + 1}) = Cardinality(Remaining(h)) - 1
    BY <1>3, <1>5, FS_RemoveElement
  <2> QED BY <1>3, <2>1
<1>7. ASSUME "del" \notin NoMemAt PROVE Queued'
  <2>1. CASE Lists(h) = {} /\ UNCHANGED <<hook, refs, heap>>
    <3>1. h \notin heap
      <4>1. h \in heap => Cardinality(Remaining(h)) = Cardinality(Lists(h))
        BY <1>1, <1>7 DEF Queued
      <4>2. Cardinality(Lists(h)) = 0
        BY <1>1, <2>1, ItemSets, Zenon
      <4> QED BY <1>5, <4>1, <4>2
    <3>2. \A g : Lists(g)' = Lists(g)
      BY <2>1 DEF Lists
    <3>3. \A g \in heap' : to_delete'[g] => Cardinality(Remaining(g)') = Cardinality(Lists(g)')
      BY <1>1, <1>4, <1>7, <2>1, <3>1, <3>2 DEF Queued
    <3> QED BY <1>1, <3>3 DEF Queued
  <2>2. CASE \E i \in Lists(h) : /\ hook' = [hook EXCEPT ![i] = RemoveAt(@, Position(i, h))]
                                 /\ hook_delete(h)
    <3>1. PICK i \in Lists(h) : /\ hook' = [hook EXCEPT ![i] = RemoveAt(@, Position(i, h))]
                                /\ hook_delete(h)
      BY <2>2, Zenon
    <3>2. i \in Idx /\ Contains(hook[i], h)
      BY DEF Lists
    <3> DEFINE s == RemoveAt(hook[i], Position(i, h))
    <3>3. \A x : Contains(s, x) <=> Contains(hook[i], x) /\ x # h
      BY <3>2, UnlinkProps
    <3>4. hook' = [hook EXCEPT ![i] = s] /\ hook \in [Idx -> Seq(Hook)]
      BY <3>1 DEF TypeOK
    <3> HIDE DEF s
    <3>5. hook'[i] = s /\ \A j \in Idx : j # i => hook'[j] = hook[j]
      BY <3>2, <3>4, Zenon
    <3>6. Lists(h)' = Lists(h) \ {i} /\ \A g : g # h => Lists(g)' = Lists(g)
      <4>1. \A j \in Idx : \A x : Contains(hook'[j], x) <=> Contains(hook[j], x) /\ (j = i => x # h)
        BY <3>3, <3>5, Zenon
      <4> QED BY <3>2, <4>1 DEF Lists
    <3>7. IsFiniteSet(Lists(h)) /\ Cardinality(Lists(h)) \in Nat
      BY <1>1, ItemSets
    <3>8. Cardinality(Lists(h)') = Cardinality(Lists(h)) - 1
      BY <3>6, <3>7, FS_RemoveElement
    <3>9. heap' \subseteq heap
      BY <3>1, Zenon DEF hook_delete
    <3>10. ASSUME NEW g \in heap', to_delete'[g]
           PROVE  Cardinality(Remaining(g)') = Cardinality(Lists(g)')
      <4>1. g \in heap /\ to_delete[g]
        BY <1>1, <3>9, <3>10
      <4>2. Cardinality(Remaining(g)) = Cardinality(Lists(g))
        BY <1>1, <1>7, <4>1, Zenon DEF Queued
      <4>3. CASE g = h
        BY <1>6, <3>8, <4>2, <4>3
      <4>4. CASE g # h
        BY <1>4, <3>6, <4>2, <4>4
      <4> QED BY <4>3, <4>4
    <3> QED BY <1>1, <3>10 DEF Queued
  <2> QED BY <1>0, <2>1, <2>2, Zenon DEF ClearUnlink
<1> QED BY <1>2, <1>7, Zenon DEF Queued

-----------------------------------------------------------------------------
(* The instruction counter. *)

\* The instruction counter is allocated.
LEMMA CounterAllocated ==
    ASSUME TypeOK, Owned, CounterAhead, phase = "open", count_hook # NoHook
    PROVE  count_hook \in heap /\ ~to_delete[count_hook]
<1>1. Contains(hook[CODE_IDX], count_hook) /\ ~to_delete[count_hook]
  BY DEF CounterAhead, Contains
<1>2. Lists(count_hook) # {} /\ count_hook \in Hook
  BY <1>1, IdxAssumption DEF Lists, TypeOK
<1> QED BY <1>1, <1>2 DEF Owned

\* A user's hook is linked behind the counter.
LEMMA AddCounter ==
    ASSUME TypeOK, Unique, Owned, CounterAhead, phase = "open", count_hook' = count_hook,
           NEW h \in Hook, h \notin heap, NEW types \in SUBSET Idx,
           uc_hook_add(h, types, ListsOf(types), FALSE)
    PROVE  CounterAhead'
<1> SUFFICES ASSUME count_hook # NoHook
             PROVE  /\ ~to_delete'[count_hook]
                    /\ \E p \in 1..Len(hook'[CODE_IDX]) :
                          /\ hook'[CODE_IDX][p] = count_hook
                          /\ \A q \in 1..p - 1 : to_delete'[hook'[CODE_IDX][q]]
  BY Zenon DEF CounterAhead
<1> DEFINE s == hook[CODE_IDX]
<1>1. count_hook \in heap /\ ~to_delete[count_hook] /\ count_hook # h /\ count_hook \in Hook
  BY CounterAllocated DEF TypeOK
<1>2. \A g \in Hook : g # h => to_delete'[g] = to_delete[g]
  BY DEF uc_hook_add, TypeOK
<1>3. PICK p \in 1..Len(s) : s[p] = count_hook /\ \A q \in 1..p - 1 : to_delete[s[q]]
  BY DEF CounterAhead
<1>4. s \in Seq(Hook) /\ Len(s) \in Nat
  <2>1. CODE_IDX \in Idx /\ hook \in [Idx -> Seq(Hook)]
    BY IdxAssumption DEF TypeOK
  <2>2. s \in Seq(Hook)
    BY <2>1, Zenon
  <2> HIDE DEF s
  <2> QED BY <2>2
<1>5. ~Contains(s, h)
  BY AddMembers, IdxAssumption, Zenon
<1>6. hook'[CODE_IDX] \in {s, Append(s, h)}
  <2>1. hook' = [i \in Idx |-> IF i \notin ListsOf(types) THEN hook[i] ELSE Append(hook[i], h)]
    BY DEF uc_hook_add
  <2> QED BY <2>1, IdxAssumption
<1> HIDE DEF s
<1>7. p \in 1..Len(hook'[CODE_IDX]) /\ \A q \in 1..p : hook'[CODE_IDX][q] = s[q]
  <2>1. CASE hook'[CODE_IDX] = s
    BY <1>4, <2>1
  <2>2. CASE hook'[CODE_IDX] = Append(s, h)
    BY <1>4, <2>2
  <2> QED BY <1>6, <2>1, <2>2
<1>8. ASSUME NEW q \in 1..p - 1 PROVE to_delete'[hook'[CODE_IDX][q]]
  <2>1. q \in 1..p /\ q \in 1..Len(s)
    BY <1>4
  <2>2. s[q] \in Hook /\ s[q] # h
    BY <1>4, <1>5, <2>1 DEF Contains
  <2> QED BY <1>2, <1>3, <1>7, <2>1, <2>2, Zenon
<1>9. p \in 1..p
  BY <1>4
<1> QED BY <1>1, <1>2, <1>3, <1>7, <1>8, <1>9, Zenon

\* uc_emu_start links the counter in front of every other hook.
LEMMA StartCounter ==
    ASSUME TypeOK, NEW h \in Hook, count_hook' = h,
           uc_hook_add(h, {CODE_IDX}, {CODE_IDX}, TRUE)
    PROVE  CounterAhead'
<1>1. hook'[CODE_IDX] = Cons(h, hook[CODE_IDX]) /\ ~to_delete'[h] /\ hook[CODE_IDX] \in Seq(Hook)
  <2>1. hook' = [i \in Idx |-> IF i \notin {CODE_IDX} THEN hook[i] ELSE Cons(h, hook[i])]
    BY DEF uc_hook_add
  <2>2. to_delete' = [to_delete EXCEPT ![h] = FALSE] /\ to_delete \in [Hook -> BOOLEAN]
    BY DEF uc_hook_add, TypeOK
  <2>3. CODE_IDX \in Idx /\ hook \in [Idx -> Seq(Hook)]
    BY IdxAssumption DEF TypeOK
  <2>4. hook'[CODE_IDX] = Cons(h, hook[CODE_IDX])
    BY <2>1, <2>3
  <2>5. ~to_delete'[h]
    BY <2>2
  <2> QED BY <2>3, <2>4, <2>5
<1>2. 1 \in 1..Len(hook'[CODE_IDX]) /\ hook'[CODE_IDX][1] = h /\ 1..1 - 1 = {}
  <2> DEFINE s == hook[CODE_IDX]
             t == hook'[CODE_IDX]
  <2>1. s \in Seq(Hook) /\ t = Cons(h, s)
    BY <1>1
  <2> HIDE DEF s, t
  <2>2. Len(t) = Len(s) + 1 /\ t[1] = h
    BY <2>1, ConsPositions, Zenon
  <2>3. Len(s) \in Nat
    BY <2>1
  <2>4. 1 \in 1..Len(t) /\ 1..1 - 1 = {}
    BY <2>2, <2>3
  <2> QED BY <2>2, <2>4 DEF t
<1>3. \A q \in 1..1 - 1 : to_delete'[hook'[CODE_IDX][q]]
  BY <1>2
<1> QED BY <1>1, <1>2, <1>3, Zenon DEF CounterAhead

\* Deleting another hook leaves the counter behind deleted hooks only.
LEMMA DelCounter ==
    ASSUME TypeOK, CounterAhead, phase = "open", count_hook' = count_hook,
           NEW h \in Hook, h # count_hook, NEW kept, uc_hook_del(h, kept)
    PROVE  CounterAhead'
<1>1. hook' = hook /\ to_delete' = [to_delete EXCEPT ![h] = to_delete[h] \/ Lists(h) # {}]
  BY Zenon DEF uc_hook_del
<1>2. to_delete \in [Hook -> BOOLEAN]
  BY DEF TypeOK
<1>3. ASSUME NEW g \in Hook PROVE (to_delete[g] => to_delete'[g]) /\ (g # h => to_delete'[g] = to_delete[g])
  BY <1>1, <1>2, Zenon
<1>4. hook[CODE_IDX] \in Seq(Hook) /\ count_hook \in Hook \cup {NoHook}
  BY IdxAssumption, Zenon DEF TypeOK
<1>5. ASSUME count_hook # NoHook
      PROVE  /\ ~to_delete'[count_hook]
             /\ \E p \in 1..Len(hook[CODE_IDX]) :
                   /\ hook[CODE_IDX][p] = count_hook
                   /\ \A q \in 1..p - 1 : to_delete'[hook[CODE_IDX][q]]
  <2>1. PICK p \in 1..Len(hook[CODE_IDX]) : /\ hook[CODE_IDX][p] = count_hook
                                            /\ \A q \in 1..p - 1 : to_delete[hook[CODE_IDX][q]]
    BY <1>5 DEF CounterAhead
  <2>2. \A q \in 1..p - 1 : hook[CODE_IDX][q] \in Hook
    BY <1>4
  <2>3. ~to_delete[count_hook] /\ count_hook \in Hook
    BY <1>4, <1>5 DEF CounterAhead
  <2> QED BY <1>3, <2>1, <2>2, <2>3, Zenon
<1> QED BY <1>1, <1>5, Zenon DEF CounterAhead

\* Unlinking a deleted hook leaves the counter behind deleted hooks only.
LEMMA UnlinkCounter ==
    ASSUME TypeOK, Marked, CounterAhead, ClearUnlink
    PROVE  CounterAhead'
<1>1. UNCHANGED <<to_delete, count_hook, phase>> /\ phase = "unlink"
  BY DEF ClearUnlink
<1>2. PICK h \in Hook : h = hooks_to_del[pos + 1] /\ to_delete[h]
  BY DEF ClearUnlink, TypeOK, Marked
<1>3. CASE hook' = hook
  BY <1>1, <1>3, Zenon DEF CounterAhead
<1>4. ASSUME NEW i \in Lists(h), hook' = [hook EXCEPT ![i] = RemoveAt(@, Position(i, h))]
      PROVE  CounterAhead'
  <2>1. hook \in [Idx -> Seq(Hook)] /\ CODE_IDX \in Idx /\ i \in Idx /\ Contains(hook[i], h)
    BY IdxAssumption DEF TypeOK, Lists
  <2>2. CASE i # CODE_IDX
    <3>1. hook'[CODE_IDX] = hook[CODE_IDX]
      BY <1>4, <2>1, <2>2, Zenon
    <3> QED BY <1>1, <3>1, Zenon DEF CounterAhead
  <2>3. CASE i = CODE_IDX /\ count_hook # NoHook
    <3> DEFINE s == hook[CODE_IDX]
               k == Position(CODE_IDX, h)
               t == RemoveAt(s, k)
    <3>1. hook'[CODE_IDX] = t
      BY <1>4, <2>1, <2>3, Zenon
    <3>2. k \in 1..Len(s) /\ s[k] = h /\ s \in Seq(Hook)
      BY <2>1, <2>3, PositionProps
    <3>3. PICK p \in 1..Len(s) : s[p] = count_hook /\ \A q \in 1..p - 1 : to_delete[s[q]]
      BY <1>1, <2>3 DEF CounterAhead
    <3>4. ~to_delete[count_hook] /\ p # k
      BY <1>1, <1>2, <2>3, <3>2, <3>3 DEF CounterAhead
    <3> HIDE DEF s, k
    <3>5. /\ Len(t) = Len(s) - 1 /\ Len(s) \in Nat
          /\ \A q \in 1..Len(s) - 1 : t[q] = IF q < k THEN s[q] ELSE s[q + 1]
      <4>1. Len(s) \in Nat
        BY <3>2
      <4> QED BY <3>2, <4>1, RemoveAtPositions, Zenon
    <3> HIDE DEF t
    <3>6. \E r \in 1..Len(t) : t[r] = count_hook /\ \A q \in 1..r - 1 : to_delete[t[q]]
      <4>1. CASE p < k
        <5>1. p \in 1..Len(t) /\ \A q \in 1..p : t[q] = s[q]
          BY <3>2, <3>5, <4>1
        <5>2. p \in 1..p /\ \A q \in 1..p - 1 : q \in 1..p
          BY <3>5
        <5> QED BY <3>3, <5>1, <5>2, Zenon
      <4>2. CASE p > k
        <5>1. p - 1 \in 1..Len(t) /\ t[p - 1] = s[p]
          BY <3>2, <3>5, <4>2
        <5>2. \A q \in 1..(p - 1) - 1 : \E m \in 1..p - 1 : t[q] = s[m]
          BY <3>2, <3>5, <4>2
        <5>3. \A q \in 1..(p - 1) - 1 : to_delete[t[q]]
          BY <3>3, <5>2, Zenon
        <5> QED BY <3>3, <5>1, <5>3, Zenon
      <4> QED BY <3>2, <3>4, <3>5, <4>1, <4>2
    <3> QED BY <1>1, <3>1, <3>4, <3>6, Zenon DEF CounterAhead
  <2> QED BY <1>1, <2>2, <2>3, Zenon DEF CounterAhead
<1> QED BY <1>2, <1>3, <1>4, Zenon DEF ClearUnlink

-----------------------------------------------------------------------------
(* The steps *)

\* A step that leaves the lists alone, and whose phase goes from open to unlink at
\* most, keeps everything.
LEMMA SameLists ==
    ASSUME CInv, UNCHANGED <<lists, count_hook>>,
           UNCHANGED <<phase, pos>> \/ (phase = "open" /\ phase' \in {"open", "unlink"} /\ pos' = 0)
    PROVE  CountExact' /\ Marked' /\ Queued' /\ Around' /\ CounterAhead'
<1>1. /\ UNCHANGED <<hook, hooks_to_del, hooks_count, heap, refs, to_delete, count_hook>>
      /\ pos' = pos
  BY DEF CInv, Around, lists
<1>2. \A h : Remaining(h)' = Remaining(h) /\ Lists(h)' = Lists(h)
  BY <1>1, Zenon DEF Remaining, Lists
<1>3. phase' = phase \/ (phase = "open" /\ phase' \in {"open", "unlink"})
  OBVIOUS
<1>4. CountExact'
  BY <1>1, <1>3 DEF CInv, CountExact
<1>5. Marked' /\ CounterAhead'
  BY <1>1, <1>3, Zenon DEF CInv, Marked, CounterAhead
<1>6. Around'
  BY <1>1, <1>3 DEF CInv, Around
<1>7. Queued'
  BY <1>1, <1>2, <1>3 DEF CInv, Queued
<1> QED BY <1>4, <1>5, <1>6, <1>7

\* uc_hook_add and uc_hook_del, called by the user or by uc_emu_start.
LEMMA ApiStep ==
    ASSUME NoMemAt \subseteq {"del"}, CInv,
           \/ \E h \in Hook, types \in SUBSET Idx :
                 \E put \in Linked(ListsOf(types), "add") : HookAdd(h, types, put)
           \/ \E h \in Hook : \E kept \in Kept(h) : HookDel(h, kept)
           \/ \E kept \in Kept(count_hook) : EmuStartUncount(kept)
           \/ \E h \in Hook : \E put \in Linked({CODE_IDX}, "count") : EmuStartCount(h, put)
    PROVE  CountExact' /\ Marked' /\ Queued' /\ Around' /\ CounterAhead'
<1>0. TypeOK /\ Unique /\ Owned /\ CountExact /\ Marked /\ Queued /\ Around /\ CounterAhead
  BY DEF CInv, IInv
<1>1. ASSUME NEW h \in Hook, NEW types \in SUBSET Idx,
             NEW put \in Linked(ListsOf(types), "add"), HookAdd(h, types, put)
      PROVE  CountExact' /\ Marked' /\ Queued' /\ Around' /\ CounterAhead'
  <2>1. put = ListsOf(types)
    BY DEF Linked
  <2>2. /\ phase = "open" /\ phase' = "open" /\ pos' = pos /\ h \notin heap
        /\ uc_hook_add(h, types, put, FALSE) /\ UNCHANGED <<count_hook>>
    BY <1>1, Zenon DEF HookAdd, InUser
  <2>3. uc_hook_add(h, types, ListsOf(types), FALSE)
    BY <2>1, <2>2, Zenon
  <2>4. CountExact'
    BY <1>0, <2>2, <2>3, AddCounts, Zenon
  <2>5. Marked' /\ Queued'
    BY <1>0, <2>2, <2>3, AddQueue, Zenon
  <2>6. CounterAhead'
    BY <1>0, <2>2, <2>3, AddCounter, Zenon
  <2> QED BY <1>0, <2>2, <2>4, <2>5, <2>6 DEF Around
<1>2. ASSUME NEW h \in Hook, NEW kept \in Kept(h), HookDel(h, kept)
      PROVE  CountExact' /\ Marked' /\ Queued' /\ Around' /\ CounterAhead'
  <2>1. /\ phase = "open" /\ phase' = "open" /\ pos' = pos /\ h \in heap /\ ~to_delete[h]
        /\ h # count_hook /\ uc_hook_del(h, kept) /\ count_hook' = count_hook
    BY <1>2, Zenon DEF HookDel, InUser
  <2>2. CountExact'
    BY <1>0, <2>1, DelCounts
  <2>3. Marked' /\ Queued'
    BY <1>0, <2>1, DelQueue
  <2>4. CounterAhead'
    BY <1>0, <2>1, DelCounter
  <2> QED BY <1>0, <2>1, <2>2, <2>3, <2>4 DEF Around
<1>3. ASSUME NEW kept \in Kept(count_hook), EmuStartUncount(kept)
      PROVE  CountExact' /\ Marked' /\ Queued' /\ Around' /\ CounterAhead'
  <2>1. /\ phase = "open" /\ phase' = "open" /\ pos' = pos
        /\ count_hook # NoHook /\ uc_hook_del(count_hook, kept) /\ count_hook' = NoHook
    BY <1>3, Zenon DEF EmuStartUncount, InUser
  <2>2. PICK h \in heap : h = count_hook /\ ~to_delete[h]
    BY <1>0, <2>1, CounterAllocated
  <2>3. kept \in Kept(h) /\ uc_hook_del(h, kept)
    BY <2>1, <2>2
  <2>4. CountExact'
    BY <1>0, <2>1, <2>2, <2>3, DelCounts
  <2>5. Marked' /\ Queued'
    BY <1>0, <2>1, <2>2, <2>3, DelQueue
  <2>6. CounterAhead'
    BY <2>1 DEF CounterAhead
  <2> QED BY <1>0, <2>1, <2>4, <2>5, <2>6 DEF Around
<1>4. ASSUME NEW h \in Hook, NEW put \in Linked({CODE_IDX}, "count"), EmuStartCount(h, put)
      PROVE  CountExact' /\ Marked' /\ Queued' /\ Around' /\ CounterAhead'
  <2>1. ListsOf({CODE_IDX}) = {CODE_IDX} /\ {CODE_IDX} \in SUBSET Idx
    BY IdxAssumption DEF ListsOf
  <2>2. put = {CODE_IDX}
    BY DEF Linked
  <2>3. /\ phase = "open" /\ phase' = "open" /\ pos' = pos /\ h \notin heap
        /\ uc_hook_add(h, {CODE_IDX}, put, TRUE) /\ count_hook' = h
    BY <1>4, Zenon DEF EmuStartCount, InUser
  <2>4. /\ uc_hook_add(h, {CODE_IDX}, {CODE_IDX}, TRUE)
        /\ uc_hook_add(h, {CODE_IDX}, ListsOf({CODE_IDX}), TRUE)
    BY <2>1, <2>2, <2>3, Zenon
  <2>5. CountExact'
    BY <1>0, <2>1, <2>3, <2>4, AddCounts, Zenon
  <2>6. Marked' /\ Queued'
    BY <1>0, <2>1, <2>3, <2>4, AddQueue, Zenon
  <2>7. CounterAhead'
    BY <1>0, <2>3, <2>4, StartCounter, Zenon
  <2> QED BY <1>0, <2>3, <2>5, <2>6, <2>7 DEF Around
<1> QED BY <1>1, <1>2, <1>3, <1>4

\* A deleted hook is not counted, so unlinking and freeing it changes no count.
LEMMA ReleaseCounts ==
    ASSUME TypeOK, CountExact, NEW h \in Hook, to_delete[h], heap \ {h} \subseteq heap', heap' \subseteq heap,
           UNCHANGED <<hooks_count, to_delete, phase>>,
           \A i \in Idx : \A g : g # h => (Contains(hook'[i], g) <=> Contains(hook[i], g))
    PROVE  CountExact'
<1>1. \A i \in Idx : LiveIn(i)' = LiveIn(i)
  BY DEF LiveIn
<1> QED BY <1>1, SameLive

\* The loops of clear_deleted_hooks and uc_close.
LEMMA ClearStep ==
    ASSUME CInv, ClearUnlink \/ ClearUnlinked \/ ClearFree \/ ClearDone \/ Closed
                 \/ \E i \in Idx : CloseItem(i)
    PROVE  CountExact' /\ Marked' /\ Queued' /\ Around' /\ CounterAhead'
<1>0. TypeOK /\ Unique /\ Owned /\ CountExact /\ Marked /\ Queued /\ Around /\ CounterAhead
  BY DEF CInv, IInv
<1>1. CASE ClearUnlink
  <2>1. phase = "unlink" /\ UNCHANGED <<hooks_count, to_delete, phase>>
    BY <1>1 DEF ClearUnlink
  <2>2. PICK h \in Hook : h = hooks_to_del[pos + 1] /\ to_delete[h]
    BY <1>0, <1>1 DEF ClearUnlink, TypeOK, Marked
  <2>3. /\ heap \ {h} \subseteq heap' /\ heap' \subseteq heap
        /\ \A i \in Idx : \A g : g # h => (Contains(hook'[i], g) <=> Contains(hook[i], g))
    <3>1. CASE UNCHANGED <<hook, heap>>
      BY <3>1, Zenon
    <3>2. ASSUME NEW i \in Lists(h), hook_delete(h),
                 hook' = [hook EXCEPT ![i] = RemoveAt(@, Position(i, h))]
          PROVE  <2>3
      <4> DEFINE s == RemoveAt(hook[i], Position(i, h))
      <4>1. i \in Idx /\ Contains(hook[i], h) /\ hook \in [Idx -> Seq(Hook)]
        BY <1>0 DEF Lists, TypeOK
      <4>2. \A x : Contains(s, x) <=> Contains(hook[i], x) /\ x # h
        BY <1>0, <4>1, UnlinkProps, Zenon
      <4>3. hook' = [hook EXCEPT ![i] = s]
        BY <3>2
      <4> HIDE DEF s
      <4>4. \A j \in Idx : \A g : g # h => (Contains(hook'[j], g) <=> Contains(hook[j], g))
        BY <4>1, <4>2, <4>3, Zenon
      <4>5. heap \ {h} \subseteq heap' /\ heap' \subseteq heap
        BY <3>2, Zenon DEF hook_delete
      <4> QED BY <4>4, <4>5
    <3> QED BY <1>1, <2>2, <3>1, <3>2, Zenon DEF ClearUnlink
  <2>4. CountExact'
    BY <1>0, <2>1, <2>2, <2>3, ReleaseCounts
  <2>5. Around'
    BY <2>1 DEF Around
  <2> QED BY <1>0, <1>1, <2>4, <2>5, UnlinkQueue, UnlinkCounter
<1>2. CASE ClearUnlinked
  <2>1. /\ UNCHANGED <<hook, hooks_to_del, hooks_count, heap, refs, to_delete, count_hook>>
        /\ phase = "unlink" /\ phase' = "free" /\ pos = Len(hooks_to_del)
    BY <1>2 DEF ClearUnlinked, lists
  <2>2. CountExact' /\ Marked' /\ Around' /\ CounterAhead'
    BY <1>0, <2>1, Zenon DEF CountExact, Marked, Around, CounterAhead
  <2>3. ASSUME "del" \notin NoMemAt, NEW h \in heap, to_delete[h] PROVE Lists(h)' = {}
    <3>1. Remaining(h) = {}
      <4>1. DOMAIN hooks_to_del = 1..pos /\ pos \in Nat
        BY <1>0, <2>1 DEF TypeOK
      <4>2. \A k \in DOMAIN hooks_to_del : ~(k > pos)
        BY <4>1
      <4> QED BY <4>2, Zenon DEF Remaining
    <3>2. Cardinality(Remaining(h)) = Cardinality(Lists(h))
      BY <1>0, <2>1, <2>3 DEF Queued
    <3>3. Cardinality(Lists(h)) = 0
      BY <3>1, <3>2, FS_EmptySet
    <3>4. Lists(h) = {}
      BY <1>0, <3>3, ItemSets DEF TypeOK
    <3> QED BY <2>1, <3>4 DEF Lists
  <2>4. Queued'
    BY <2>1, <2>3 DEF Queued
  <2> QED BY <2>2, <2>4
<1>3. CASE ClearFree
  <2>1. /\ UNCHANGED <<hook, hooks_to_del, hooks_count, to_delete, count_hook, phase>>
        /\ phase = "free"
    BY <1>3 DEF ClearFree
  <2>2. PICK h \in Hook : h = hooks_to_del[pos + 1] /\ to_delete[h]
    BY <1>0, <1>3 DEF ClearFree, TypeOK, Marked
  <2>3. heap \ {h} \subseteq heap' /\ heap' \subseteq heap
    BY <1>3, <2>2, Zenon DEF ClearFree, hook_delete
  <2>4. CountExact'
    BY <1>0, <2>1, <2>2, <2>3, ReleaseCounts
  <2>5. Marked' /\ Around' /\ CounterAhead'
    BY <1>0, <2>1 DEF Marked, Around, CounterAhead
  <2>6. \A g : Lists(g)' = Lists(g)
    BY <2>1 DEF Lists
  <2>7. Queued'
    BY <1>0, <2>1, <2>3, <2>6 DEF Queued
  <2> QED BY <2>4, <2>5, <2>7
<1>4. CASE ClearDone
  <2>1. /\ UNCHANGED <<hook, hooks_count, heap, refs, to_delete, count_hook>>
        /\ hooks_to_del' = <<>> /\ phase = "free" /\ phase' \in {"close", "open"} /\ pos' = 0
    BY <1>4 DEF ClearDone
  <2>2. CountExact' /\ CounterAhead'
    BY <1>0, <2>1, Zenon DEF CountExact, CounterAhead
  <2>3. Marked' /\ Around'
    BY <1>0, <2>1 DEF Marked, Around
  <2>4. \A g : Lists(g)' = Lists(g) /\ Remaining(g)' = {}
    BY <2>1 DEF Lists, Remaining
  <2>5. Queued'
    BY <1>0, <2>1, <2>4, Zenon DEF Queued
  <2> QED BY <2>2, <2>3, <2>5
<1>5. ASSUME NEW i \in Idx, CloseItem(i)
      PROVE  CountExact' /\ Marked' /\ Queued' /\ Around' /\ CounterAhead'
  <2>1. UNCHANGED <<hooks_to_del, to_delete, phase>> /\ phase = "close"
    BY <1>5 DEF CloseItem
  <2> QED BY <1>0, <2>1 DEF CountExact, Marked, Queued, Around, CounterAhead
<1>6. CASE Closed
  <2>1. /\ UNCHANGED <<hook, hooks_to_del, to_delete>> /\ phase = "close" /\ phase' = "closed"
        /\ \A i \in Idx : hook[i] = <<>>
    BY <1>6 DEF Closed, lists
  <2> QED BY <1>0, <2>1 DEF CountExact, Marked, Queued, Around, CounterAhead
<1> QED BY <1>1, <1>2, <1>3, <1>4, <1>5, <1>6

-----------------------------------------------------------------------------
(* Theorems *)

\* CInv is inductive as long as uc_hook_add can allocate its list items; the items
\* of hooks_to_del may be missing.
LEMMA CountInductive ==
    ASSUME NoMemAt \subseteq {"del"}
    PROVE  Spec => []CInv
<1>1. Init => CountExact /\ Marked /\ Queued /\ Around /\ CounterAhead
  <2> SUFFICES ASSUME Init PROVE CountExact /\ Marked /\ Queued /\ Around /\ CounterAhead
    OBVIOUS
  <2>1. /\ heap = {} /\ hooks_to_del = <<>> /\ count_hook = NoHook /\ phase = "open" /\ pos = 0
        /\ \A i \in Idx : hooks_count[i] = 0
    BY DEF Init
  <2>2. \A i \in Idx : LiveIn(i) = {} /\ Cardinality({}) = 0
    BY <2>1, FS_EmptySet DEF LiveIn
  <2>3. CountExact
    BY <2>1, <2>2, CountIsLive, Zenon
  <2>4. Marked /\ Queued
    BY <2>1 DEF Marked, Queued
  <2>5. Around /\ CounterAhead
    BY <2>1 DEF Around, CounterAhead
  <2> QED BY <2>3, <2>4, <2>5
<1>2. ASSUME CInv, [Next]_vars
      PROVE  CountExact' /\ Marked' /\ Queued' /\ Around' /\ CounterAhead'
  <2>1. ASSUME \/ \E counting \in BOOLEAN : EmuStart(counting)
               \/ EmuStop \/ TraceNone \/ CallbackLast \/ Close \/ EmuEnd
               \/ \E h \in Hook : CallbackNext(h)
               \/ \E i \in Idx, h \in Hook, kind \in Kind, invalid \in BOOLEAN : Trace(i, h, kind, invalid)
               \/ UNCHANGED vars
        PROVE  CountExact' /\ Marked' /\ Queued' /\ Around' /\ CounterAhead'
    <3>1. UNCHANGED <<lists, count_hook>>
      BY <2>1, Zenon DEF EmuStart, EmuStop, TraceNone, CallbackLast, Close, EmuEnd, CallbackNext,
                         Trace, vars
    <3>2. UNCHANGED <<phase, pos>> \/ (phase = "open" /\ phase' \in {"open", "unlink"} /\ pos' = 0)
      BY <2>1, Zenon DEF EmuStart, EmuStop, TraceNone, CallbackLast, Close, EmuEnd, CallbackNext,
                  Trace, vars, InUser, InEngine
    <3> QED BY <1>2, <3>1, <3>2, SameLists
  <2> QED BY <1>2, <2>1, ApiStep, ClearStep, Zenon DEF Next
<1>3. IInv /\ CountExact /\ Marked /\ Queued /\ Around /\ CounterAhead <=> CInv
  BY DEF CInv
<1> QED BY <1>1, <1>2, <1>3, Inductive, PTL DEF Spec

\* hooks_count[i], on which the translators decide how to call the hooks, is the
\* number of hooks of list i that uc_hook_del has not marked.
THEOREM CountsAreExact ==
    ASSUME NoMemAt \subseteq {"del"}
    PROVE  Spec => []CountExact
<1>1. CInv => CountExact
  BY DEF CInv
<1> QED BY <1>1, CountInductive, PTL

\* While uc_emu_start counts instructions, its hook is the first live one of the
\* code list, whatever hooks callbacks add and delete in front of or behind it.
THEOREM CounterIsFirst ==
    ASSUME NoMemAt \subseteq {"del"}
    PROVE  Spec => []CounterFirst
<1>1. ASSUME CInv PROVE CounterFirst
  <2> SUFFICES ASSUME count_hook # NoHook, phase = "open"
               PROVE  FirstCallable(CODE_IDX, count_hook)
    BY DEF CounterFirst
  <2> DEFINE s == hook[CODE_IDX]
  <2>1. TypeOK /\ Unique /\ CounterAhead /\ count_hook \in Hook /\ CODE_IDX \in Idx
    BY <1>1, IdxAssumption DEF CInv, IInv, TypeOK
  <2>2. PICK p \in 1..Len(s) : s[p] = count_hook /\ \A q \in 1..p - 1 : to_delete[s[q]]
    BY <2>1 DEF CounterAhead
  <2>3. ~to_delete[count_hook]
    BY <2>1 DEF CounterAhead
  <2>4. s \in Seq(Hook) /\ IsInjective(s) /\ Len(s) \in Nat /\ DOMAIN s = 1..Len(s)
    <3>1. s \in Seq(Hook) /\ IsInjective(s)
      BY <2>1 DEF TypeOK, Unique
    <3> HIDE DEF s
    <3> QED BY <3>1
  <2>5. p > 0 /\ Contains(s, count_hook)
    BY <2>2, <2>4 DEF Contains
  <2>6. count_hook \in Callable(CODE_IDX, 0)
    BY <2>1, <2>2, <2>3, <2>4, <2>5, Zenon DEF Callable
  <2>7. ASSUME NEW g \in Callable(CODE_IDX, 0)
        PROVE  Position(CODE_IDX, count_hook) <= Position(CODE_IDX, g)
    <3>1. Contains(s, g) /\ ~to_delete[g]
      BY <2>4 DEF Callable, Contains
    <3>2. Position(CODE_IDX, g) \in 1..Len(s) /\ s[Position(CODE_IDX, g)] = g
      BY <2>1, <3>1, PositionProps
    <3>3. Position(CODE_IDX, count_hook) \in 1..Len(s) /\ s[Position(CODE_IDX, count_hook)] = count_hook
      BY <2>1, <2>5, PositionProps
    <3>4. Position(CODE_IDX, count_hook) = p
      BY <2>2, <2>4, <3>3, Zenon DEF IsInjective
    <3>5. Position(CODE_IDX, g) \notin 1..p - 1
      BY <2>2, <3>1, <3>2, Zenon
    <3> QED BY <2>4, <3>2, <3>4, <3>5
  <2> QED BY <2>6, <2>7 DEF FirstCallable
<1> QED BY <1>1, CountInductive, PTL

\* Every hook the user deletes is destroyed once hooks_to_del has been cleared, and
\* uc_close frees every hook that is left.
THEOREM DeletedAreDestroyed ==
    ASSUME NoMemAt \subseteq {"del"}
    PROVE  Spec => []DeletedDestroyed
<1>1. ASSUME CInv PROVE DeletedDestroyed
  <2>0. TypeOK /\ Owned /\ Queued /\ Around
    BY <1>1 DEF CInv, IInv
  <2>1. ASSUME NEW h \in heap, Lists(h) = {}, hooks_to_del = <<>> PROVE FALSE
    <3>1. Pending(h) = {} /\ h \in Hook
      BY <2>0, <2>1 DEF Pending, TypeOK
    <3>2. Cardinality(Lists(h)) = 0 /\ Cardinality(Pending(h)) = 0
      BY <2>1, <3>1, FS_EmptySet
    <3>3. refs[h] = Cardinality(Lists(h)) + Cardinality(Pending(h)) /\ refs[h] > 0
      BY <2>0, <3>1 DEF Owned
    <3> QED BY <3>2, <3>3
  <2>2. ASSUME phase = "open", hooks_to_del = <<>>, "del" \notin NoMemAt, NEW h \in heap, to_delete[h]
        PROVE  FALSE
    <3>1. Remaining(h) = {} /\ h \in Hook
      BY <2>0, <2>2 DEF Remaining, TypeOK
    <3>2. Cardinality(Remaining(h)) = Cardinality(Lists(h))
      BY <2>0, <2>2 DEF Queued
    <3>3. Lists(h) = {}
      BY <2>0, <3>1, <3>2, FS_EmptySet, ItemSets
    <3> QED BY <2>1, <2>2, <3>3
  <2>3. ASSUME phase = "closed", NEW h \in heap PROVE FALSE
    <3>1. hooks_to_del = <<>> /\ \A i \in Idx : hook[i] = <<>>
      BY <2>0, <2>3 DEF Around
    <3>2. Lists(h) = {}
      BY <3>1 DEF Lists, Contains
    <3> QED BY <2>1, <3>1, <3>2
  <2> QED BY <2>2, <2>3 DEF DeletedDestroyed
<1> QED BY <1>1, CountInductive, PTL
=============================================================================
