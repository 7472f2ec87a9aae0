--------------------------- MODULE CraftingProofs ---------------------------
(***************************************************************************)
(* Proofs about crafting, for any recipes that do not lead back to         *)
(* themselves, any inventory, any number of requests, and any limit of the *)
(* nested calls.                                                           *)
(***************************************************************************)
EXTENDS Crafting, NumberLemmas, TLAPS

-----------------------------------------------------------------------------
(* Recipes. *)

\* What the numbers are.
LEMMA Numbers ==
    /\ LastItem \in Nat /\ Items = 1 .. LastItem /\ MaxCount \in Nat /\ MaxLoops \in Nat
    /\ MaxAmount \in Nat /\ MaxAmount >= 1
    /\ \A r \in Craftable : r \in Items
  BY CraftAssumption DEF Items

\* A recipe is a list of components that come before what is made of them.
LEMMA PartsAre ==
    ASSUME NEW r \in Craftable
    PROVE  /\ Len(Recipes[r]) \in Nat /\ DOMAIN Recipes[r] = 1 .. Len(Recipes[r])
           /\ \A k \in 1 .. Len(Recipes[r]) :
                /\ Recipes[r][k].item \in Items /\ Recipes[r][k].item < r
                /\ Recipes[r][k].amount \in 1 .. MaxAmount
<1>1. Recipes[r] \in Seq([item : 1 .. (r - 1), amount : 1 .. MaxAmount]) /\ r \in 1 .. LastItem
  BY CraftAssumption DEF Items
<1>2. LastItem \in Nat /\ Items = 1 .. LastItem /\ r \in Nat
  BY <1>1, Numbers
<1>3. ASSUME NEW k \in 1 .. Len(Recipes[r])
      PROVE  /\ Recipes[r][k].item \in 1 .. (r - 1)
             /\ Recipes[r][k].amount \in 1 .. MaxAmount
  <2>1. \A S : \A s \in Seq(S) : \A j \in 1 .. Len(s) : s[j] \in S
    OBVIOUS
  <2>2. Recipes[r][k] \in [item : 1 .. (r - 1), amount : 1 .. MaxAmount]
    BY <1>1, <2>1
  <2> QED BY <2>2
<1>4. Len(Recipes[r]) \in Nat /\ DOMAIN Recipes[r] = 1 .. Len(Recipes[r])
  BY <1>1
<1>5. \A i \in 1 .. (r - 1) : i \in Items /\ i < r
  BY <1>1, <1>2
<1> QED BY <1>3, <1>4, <1>5

\* What the first components of a recipe ask of an item: nothing before the
\* first, and then what each of them does.
LEMMA NeedsAre ==
    ASSUME NEW r \in Craftable, NEW i \in Items
    PROVE  /\ Needs(r, i, 0) = 0
           /\ \A k \in 0 .. Len(Recipes[r]) : Needs(r, i, k) \in Nat /\ Needs(r, i, k) <= Amount(r, i)
           /\ \A k \in 1 .. Len(Recipes[r]) :
                Needs(r, i, k) = Needs(r, i, k - 1)
                  + (IF i = Recipes[r][k].item THEN Recipes[r][k].amount ELSE 0)
           /\ Amount(r, i) \in Nat
<1> DEFINE len == Len(Recipes[r])
           f == [k \in DOMAIN Recipes[r] |-> IF Recipes[r][k].item = i THEN Recipes[r][k].amount ELSE 0]
<1>1. len \in Nat /\ \A k \in 1 .. len : f[k] \in Nat
  BY PartsAre, Numbers
<1>2. \A k \in 1 .. len : f[k] = IF i = Recipes[r][k].item THEN Recipes[r][k].amount ELSE 0
  BY PartsAre
<1>3. \A k : Needs(r, i, k) = SumTo(f, k)
  BY DEF Needs
<1>4. Amount(r, i) = SumTo(f, len)
  BY DEF Amount, Needs
<1> HIDE DEF f, len
<1>5. \A k \in 0 .. len : SumTo(f, k) \in Nat /\ SumTo(f, k) <= SumTo(f, len)
  <2> SUFFICES ASSUME NEW k \in 0 .. len PROVE SumTo(f, k) \in Nat /\ SumTo(f, k) <= SumTo(f, len)
    OBVIOUS
  <2>1. k \in Nat /\ \A j \in 1 .. k : f[j] \in Nat
    BY <1>1
  <2> QED BY <1>1, <2>1, SumIsNat, SumGrows
<1>6. SumTo(f, 0) = 0
  <2>1. 0 \in Nat /\ \A j \in 1 .. 0 : f[j] \in Nat
    OBVIOUS
  <2> QED BY <2>1, SumIsNat
<1>7. ASSUME NEW k \in 1 .. len PROVE SumTo(f, k) = SumTo(f, k - 1) + f[k]
  <2>1. k - 1 \in Nat /\ (k - 1) + 1 = k /\ \A j \in 1 .. ((k - 1) + 1) : f[j] \in Nat
    BY <1>1
  <2>2. SumTo(f, (k - 1) + 1) = SumTo(f, k - 1) + f[(k - 1) + 1]
    BY <2>1, SumStep
  <2> QED BY <2>1, <2>2
<1>8. SumTo(f, len) \in Nat
  BY <1>1, SumIsNat
<1> QED BY <1>2, <1>3, <1>4, <1>5, <1>6, <1>7, <1>8 DEF len

-----------------------------------------------------------------------------
(* What makings do to the items. *)

\* A making more of r: its components go, and one r comes.
LEMMA NetOfMore ==
    ASSUME NEW m \in [Craftable -> Nat], NEW more \in [Craftable -> Nat],
           NEW r \in Craftable, NEW c \in Nat, NEW i \in Items,
           more[r] = m[r] + c, \A p \in Craftable : p # r => more[p] = m[p]
    PROVE  /\ Net(m, i) \in Int
           /\ Net(more, i) = Net(m, i) + (IF i = r THEN c ELSE 0) - c * Amount(r, i)
<1> DEFINE f == [p \in Items |-> IF p \in Craftable THEN m[p] * Amount(p, i) ELSE 0]
           g == [p \in Items |-> IF p \in Craftable THEN more[p] * Amount(p, i) ELSE 0]
<1>0. LastItem \in Nat /\ Items = 1 .. LastItem /\ r \in 1 .. LastItem /\ r \in Items
  BY Numbers
<1>1. \A p \in Craftable : Amount(p, i) \in Nat
  BY NeedsAre
<1>2. \A p \in 1 .. LastItem : f[p] \in Nat /\ g[p] \in Nat /\ (p # r => g[p] = f[p])
  <2> SUFFICES ASSUME NEW p \in Items PROVE f[p] \in Nat /\ g[p] \in Nat /\ (p # r => g[p] = f[p])
    BY <1>0
  <2>1. CASE p \in Craftable
    <3>1. f[p] = m[p] * Amount(p, i) /\ g[p] = more[p] * Amount(p, i)
      BY <2>1
    <3>2. m[p] \in Nat /\ more[p] \in Nat /\ Amount(p, i) \in Nat
      BY <1>1, <2>1
    <3> QED BY <1>1, <2>1, <3>1, <3>2
  <2>2. CASE p \notin Craftable
    BY <2>2
  <2> QED BY <2>1, <2>2
<1>3. f[r] = m[r] * Amount(r, i) /\ g[r] = (m[r] + c) * Amount(r, i)
  BY <1>0, <1>1
<1>4. m[r] \in Nat /\ Amount(r, i) \in Nat
  BY <1>1
<1>5. Spent(m, i) = SumTo(f, LastItem) /\ Spent(more, i) = SumTo(g, LastItem)
  BY DEF Spent
<1> HIDE DEF f, g
<1>6. SumTo(g, LastItem) = SumTo(f, LastItem) - f[r] + g[r]
  <2>1. \A n \in Nat : \A x \in 1 .. n :
          (\A p \in 1 .. n : f[p] \in Nat /\ g[p] \in Nat /\ (p # x => g[p] = f[p]))
            => SumTo(g, n) = SumTo(f, n) - f[x] + g[x]
    BY SumChanges
  <2> QED BY <1>0, <1>2, <2>1
<1>7. SumTo(f, LastItem) \in Nat
  BY <1>0, <1>2, SumIsNat
<1>8. g[r] = f[r] + c * Amount(r, i) /\ f[r] \in Nat /\ c * Amount(r, i) \in Nat
  BY <1>3, <1>4
<1>9. Made(m, i) \in Nat /\ Made(more, i) = Made(m, i) + (IF i = r THEN c ELSE 0)
  BY <1>1 DEF Made
<1>10. /\ Net(m, i) \in Int
       /\ Net(more, i) = Net(m, i) + (IF i = r THEN c ELSE 0) - c * Amount(r, i)
  BY <1>5, <1>6, <1>7, <1>8, <1>9 DEF Net
<1> QED BY <1>10

\* No makings do nothing.
LEMMA NetOfNone ==
    ASSUME NEW i \in Items
    PROVE  Net([p \in Craftable |-> 0], i) = 0
<1> DEFINE none == [p \in Craftable |-> 0]
           f == [p \in Items |-> IF p \in Craftable THEN none[p] * Amount(p, i) ELSE 0]
<1>0. LastItem \in Nat /\ Items = 1 .. LastItem
  BY Numbers
<1>1. \A p \in Craftable : Amount(p, i) \in Nat /\ none[p] = 0
  BY NeedsAre
<1> HIDE DEF none
<1>2. \A p \in 1 .. LastItem : f[p] = 0
  <2> SUFFICES ASSUME NEW p \in Items PROVE f[p] = 0
    BY <1>0
  <2>1. CASE p \in Craftable
    BY <1>1, <2>1
  <2>2. CASE p \notin Craftable
    BY <2>2
  <2> QED BY <2>1, <2>2
<1>3. Spent(none, i) = SumTo(f, LastItem)
  BY DEF Spent
<1> HIDE DEF f
<1>4. SumTo(f, LastItem) = 0
  BY <1>0, <1>2, SumOfZeros
<1>5. Made(none, i) = 0
  BY <1>1 DEF Made
<1>6. Net(none, i) = 0
  BY <1>3, <1>4, <1>5 DEF Net
<1> QED BY <1>6 DEF none

\* Two lots of makings together do what each of them does.
LEMMA NetOfBoth ==
    ASSUME NEW m \in [Craftable -> Nat], NEW o \in [Craftable -> Nat], NEW i \in Items
    PROVE  /\ Net(m, i) \in Int /\ Net(o, i) \in Int
           /\ Net([p \in Craftable |-> m[p] + o[p]], i) = Net(m, i) + Net(o, i)
           /\ i \notin Craftable => Net(m, i) <= 0
           /\ i \in Craftable => Net(m, i) <= m[i]
<1> DEFINE both == [p \in Craftable |-> m[p] + o[p]]
           f == [p \in Items |-> IF p \in Craftable THEN m[p] * Amount(p, i) ELSE 0]
           g == [p \in Items |-> IF p \in Craftable THEN o[p] * Amount(p, i) ELSE 0]
           h == [p \in Items |-> IF p \in Craftable THEN both[p] * Amount(p, i) ELSE 0]
<1>0. LastItem \in Nat /\ Items = 1 .. LastItem
  BY Numbers
<1>1. \A p \in Craftable : Amount(p, i) \in Nat /\ both[p] = m[p] + o[p] /\ both[p] \in Nat
  BY NeedsAre
<1> HIDE DEF both
<1>2. \A p \in 1 .. LastItem : f[p] \in Nat /\ g[p] \in Nat /\ h[p] \in Nat /\ h[p] = f[p] + g[p]
  <2> SUFFICES ASSUME NEW p \in Items
               PROVE  f[p] \in Nat /\ g[p] \in Nat /\ h[p] \in Nat /\ h[p] = f[p] + g[p]
    BY <1>0
  <2>1. CASE p \in Craftable
    <3>1. /\ f[p] = m[p] * Amount(p, i) /\ g[p] = o[p] * Amount(p, i)
          /\ h[p] = (m[p] + o[p]) * Amount(p, i)
      BY <1>1, <2>1
    <3>2. m[p] \in Nat /\ o[p] \in Nat /\ Amount(p, i) \in Nat
      BY <1>1, <2>1
    <3> HIDE DEF f, g, h
    <3> QED BY <3>1, <3>2
  <2>2. CASE p \notin Craftable
    BY <2>2
  <2> QED BY <2>1, <2>2
<1>3. /\ Spent(m, i) = SumTo(f, LastItem) /\ Spent(o, i) = SumTo(g, LastItem)
      /\ Spent(both, i) = SumTo(h, LastItem)
  BY DEF Spent
<1> HIDE DEF f, g, h
<1>4. SumTo(h, LastItem) = SumTo(f, LastItem) + SumTo(g, LastItem)
  BY <1>0, <1>2, SumAdds
<1>5. SumTo(f, LastItem) \in Nat /\ SumTo(g, LastItem) \in Nat
  BY <1>0, <1>2, SumIsNat
<1>6. /\ Made(m, i) \in Nat /\ Made(o, i) \in Nat /\ Made(both, i) = Made(m, i) + Made(o, i)
      /\ i \notin Craftable => Made(m, i) = 0
      /\ i \in Craftable => Made(m, i) = m[i]
  BY <1>1 DEF Made
<1>7. /\ Net(m, i) \in Int /\ Net(o, i) \in Int
      /\ Net(both, i) = Net(m, i) + Net(o, i)
      /\ i \notin Craftable => Net(m, i) <= 0
      /\ i \in Craftable => Net(m, i) <= m[i]
  BY <1>3, <1>4, <1>5, <1>6 DEF Net
<1> QED BY <1>7 DEF both

-----------------------------------------------------------------------------
(* Stretches of a plan. *)

\* Some number of makings, within the calls that were counted, explains what
\* became of the copy between two runs, "taken" off it besides.
Accounts(s, t, taken) ==
    \E m \in [Craftable -> Nat] :
        /\ \A p \in Craftable : m[p] + MaxAmount * s.loops <= MaxAmount * t.loops
        /\ \A i \in Items : t.copy[i] = s.copy[i] + Net(m, i) - taken[i]

\* There is a way to get what is wanted out of b.
CanGet(b, wanted) ==
    \E m \in [Craftable -> Nat] : \A i \in Items : b[i] + Net(m, i) >= wanted[i]

Minus(wanted, taken) == [i \in Items |-> wanted[i] - taken[i]]
Plus(taken, more) == [i \in Items |-> taken[i] + more[i]]
Only(i, n) == [j \in Items |-> IF j = i THEN n ELSE 0]
NoItems == [i \in Items |-> 0]

\* What every stretch of a plan does, n calls of craftItem being left to nest:
\* if it succeeds the copy is accounted for; and it does succeed, or the limit
\* is reached, if there is a way to get what is wanted, at least "low", and then
\* there is still a way to get the rest of it.
Progress(n, s, t, taken, low) ==
    /\ t \in Runs /\ s.loops <= t.loops
    /\ t.ok => Accounts(s, t, taken)
    /\ \A wanted \in [Items -> Nat] :
         /\ CanGet(s.copy, wanted) /\ \A i \in Items : wanted[i] >= low[i]
         /\ s.loops + n >= MaxLoops
         => t.loops > MaxLoops \/ (t.ok /\ CanGet(t.copy, Minus(wanted, taken)))

\* What a run is.
LEMMA RunIs ==
    ASSUME NEW s \in Runs
    PROVE  /\ s.copy \in [Items -> Nat] /\ s.makings \in Seq(Makings) /\ s.loops \in Nat
           /\ s.ok \in BOOLEAN
           /\ \A i \in Items : s.copy[i] \in Nat
  BY DEF Runs

\* Two stretches in a row.
LEMMA InARow ==
    ASSUME NEW n \in Nat, NEW s \in Runs, NEW t \in Runs, NEW u,
           NEW taken \in [Items -> Nat], NEW more \in [Items -> Nat],
           NEW low \in [Items -> Nat], NEW rest \in [Items -> Nat],
           Progress(n, s, t, taken, low),
           t.ok => Progress(n, t, u, more, rest),
           ~t.ok => u = t,
           \A i \in Items : low[i] >= taken[i] + rest[i]
    PROVE  Progress(n, s, u, Plus(taken, more), low)
<1>1. u \in Runs /\ s.loops <= t.loops /\ t.loops <= u.loops /\ (u.ok => t.ok)
      /\ s.loops \in Nat /\ t.loops \in Nat /\ u.loops \in Nat
  BY RunIs DEF Progress
<1>2. ASSUME u.ok PROVE Accounts(s, u, Plus(taken, more))
  <2>1. Accounts(s, t, taken) /\ Accounts(t, u, more)
    BY <1>1, <1>2 DEF Progress
  <2>2. PICK m \in [Craftable -> Nat] :
          /\ \A p \in Craftable : m[p] + MaxAmount * s.loops <= MaxAmount * t.loops
          /\ \A i \in Items : t.copy[i] = s.copy[i] + Net(m, i) - taken[i]
    BY <2>1 DEF Accounts
  <2>3. PICK o \in [Craftable -> Nat] :
          /\ \A p \in Craftable : o[p] + MaxAmount * t.loops <= MaxAmount * u.loops
          /\ \A i \in Items : u.copy[i] = t.copy[i] + Net(o, i) - more[i]
    BY <2>1 DEF Accounts
  <2> DEFINE both == [p \in Craftable |-> m[p] + o[p]]
  <2>4. both \in [Craftable -> Nat] /\ \A p \in Craftable : both[p] = m[p] + o[p]
    OBVIOUS
  <2>5. /\ MaxAmount * s.loops \in Nat /\ MaxAmount * t.loops \in Nat
        /\ MaxAmount * u.loops \in Nat
    BY <1>1, Numbers
  <2>6. \A i \in Items : Net(both, i) = Net(m, i) + Net(o, i) /\ Net(m, i) \in Int /\ Net(o, i) \in Int
    BY NetOfBoth
  <2> HIDE DEF both
  <2>7. ASSUME NEW p \in Craftable
        PROVE  both[p] + MaxAmount * s.loops <= MaxAmount * u.loops
    <3>1. m[p] \in Nat /\ o[p] \in Nat /\ both[p] = m[p] + o[p]
      BY <2>4
    <3>2. /\ m[p] + MaxAmount * s.loops <= MaxAmount * t.loops
          /\ o[p] + MaxAmount * t.loops <= MaxAmount * u.loops
      BY <2>2, <2>3
    <3> QED BY <2>5, <3>1, <3>2
  <2>8. ASSUME NEW i \in Items
        PROVE  u.copy[i] = s.copy[i] + Net(both, i) - Plus(taken, more)[i]
    <3>1. Plus(taken, more)[i] = taken[i] + more[i]
      BY DEF Plus
    <3>2. /\ s.copy[i] \in Nat /\ t.copy[i] \in Nat /\ u.copy[i] \in Nat
          /\ taken[i] \in Nat /\ more[i] \in Nat
      BY <1>1, RunIs
    <3>3. /\ t.copy[i] = s.copy[i] + Net(m, i) - taken[i]
          /\ u.copy[i] = t.copy[i] + Net(o, i) - more[i]
      BY <2>2, <2>3
    <3> QED BY <2>6, <3>1, <3>2, <3>3
  <2> QED BY <2>4, <2>7, <2>8 DEF Accounts
<1>3. ASSUME NEW wanted \in [Items -> Nat], CanGet(s.copy, wanted),
             \A i \in Items : wanted[i] >= low[i], s.loops + n >= MaxLoops
      PROVE  \/ u.loops > MaxLoops
             \/ u.ok /\ CanGet(u.copy, Minus(wanted, Plus(taken, more)))
  <2>0. MaxLoops \in Nat
    BY Numbers
  <2>1. t.loops > MaxLoops \/ (t.ok /\ CanGet(t.copy, Minus(wanted, taken)))
    BY <1>3 DEF Progress
  <2>2. CASE t.loops > MaxLoops
    BY <1>1, <2>0, <2>2
  <2>3. CASE t.ok /\ CanGet(t.copy, Minus(wanted, taken))
    <3>1. /\ \A i \in Items : Minus(wanted, taken)[i] = wanted[i] - taken[i]
          /\ Minus(wanted, taken)  = [i \in Items |-> Minus(wanted, taken)[i]]
      BY DEF Minus
    <3>2. ASSUME NEW i \in Items
          PROVE  /\ wanted[i] - taken[i] \in Nat /\ wanted[i] - taken[i] >= rest[i]
                 /\ (wanted[i] - taken[i]) - more[i] = wanted[i] - (taken[i] + more[i])
      <4>1. /\ wanted[i] \in Nat /\ taken[i] \in Nat /\ rest[i] \in Nat /\ more[i] \in Nat
            /\ low[i] \in Nat /\ wanted[i] >= low[i] /\ low[i] >= taken[i] + rest[i]
        BY <1>3
      <4> QED BY <4>1
    <3>3. /\ Minus(wanted, taken) \in [Items -> Nat]
          /\ \A i \in Items : Minus(wanted, taken)[i] >= rest[i]
      BY <3>1, <3>2
    <3>4. t.loops + n >= MaxLoops
      BY <1>1, <1>3, <2>0
    <3>5. u.loops > MaxLoops \/ (u.ok /\ CanGet(u.copy, Minus(Minus(wanted, taken), more)))
      BY <2>3, <3>3, <3>4 DEF Progress
    <3>6. Minus(Minus(wanted, taken), more) = Minus(wanted, Plus(taken, more))
      BY <3>2 DEF Minus, Plus
    <3> QED BY <3>5, <3>6
  <2> QED BY <2>1, <2>2, <2>3
<1>4. s.loops <= u.loops
  BY <1>1
<1> QED BY <1>1, <1>2, <1>3, <1>4 DEF Progress

\* A stretch in which nothing happens.
LEMMA Standstill ==
    ASSUME NEW n \in Nat, NEW s \in Runs, s.ok, NEW low
    PROVE  Progress(n, s, s, NoItems, low)
<1>1. Accounts(s, s, NoItems)
  <2> DEFINE none == [p \in Craftable |-> 0]
  <2>1. none \in [Craftable -> Nat] /\ \A p \in Craftable : none[p] = 0
    OBVIOUS
  <2>2. \A i \in Items : Net(none, i) = 0
    BY NetOfNone
  <2> HIDE DEF none
  <2>3. MaxAmount * s.loops \in Nat
    BY RunIs, Numbers
  <2>4. \A p \in Craftable : none[p] + MaxAmount * s.loops <= MaxAmount * s.loops
    BY <2>1, <2>3
  <2>5. \A i \in Items : s.copy[i] = s.copy[i] + Net(none, i) - NoItems[i]
    BY <2>2, RunIs DEF NoItems
  <2> QED BY <2>1, <2>4, <2>5 DEF Accounts
<1>2. \A wanted \in [Items -> Nat] : Minus(wanted, NoItems) = wanted
  BY DEF Minus, NoItems
<1>3. s.loops <= s.loops
  BY RunIs
<1> QED BY <1>1, <1>2, <1>3 DEF Progress

\* A run that fails although nothing that is wanted can be got.
LEMMA Failure ==
    ASSUME NEW n \in Nat, NEW s \in Runs, NEW taken, NEW low,
           \A wanted \in [Items -> Nat] :
             CanGet(s.copy, wanted) => \E i \in Items : ~(wanted[i] >= low[i])
    PROVE  Failed(s) \in Runs /\ ~Failed(s).ok /\ Progress(n, s, Failed(s), taken, low)
<1>1. Failed(s) \in Runs /\ ~Failed(s).ok /\ Failed(s).loops = s.loops /\ s.loops <= s.loops
  <2>1. s.loops \in Nat
    BY RunIs
  <2>2. Failed(s) \in Runs /\ ~Failed(s).ok /\ Failed(s).loops = s.loops
    BY DEF Failed, Runs
  <2> QED BY <2>1, <2>2
<1> QED BY <1>1 DEF Progress

\* Taking what there is.
LEMMA TakingIs ==
    ASSUME NEW s \in Runs, NEW i \in Items, NEW need \in Nat
    PROVE  LET t == Take(s, i, need) IN
           /\ t \in Runs /\ t.loops = s.loops /\ t.makings = s.makings
           /\ ~s.ok => t = s
           /\ s.ok => (t.ok <=> s.copy[i] >= need)
           /\ t.ok => \A j \in Items : t.copy[j] = s.copy[j] - Only(i, need)[j]
<1> DEFINE t == Take(s, i, need)
<1>0. /\ s.copy \in [Items -> Nat] /\ s.makings \in Seq(Makings) /\ s.loops \in Nat
      /\ s.ok \in BOOLEAN /\ s.copy[i] \in Nat
  BY RunIs
<1>1. CASE ~s.ok
  BY <1>1 DEF Take
<1>2. CASE s.ok /\ s.copy[i] < need
  <2>1. t = [s EXCEPT !.ok = FALSE]
    BY <1>2 DEF Take, Failed
  <2>2. t \in Runs /\ t.loops = s.loops /\ t.makings = s.makings /\ ~t.ok
    BY <2>1 DEF Runs
  <2> HIDE DEF t
  <2>3. ~(s.copy[i] >= need)
    BY <1>0, <1>2
  <2> QED BY <1>2, <2>2, <2>3 DEF t
<1>3. CASE s.ok /\ s.copy[i] >= need
  <2>0. ~(s.copy[i] < need)
    BY <1>0, <1>3
  <2>1. t = [s EXCEPT !.copy[i] = @ - need]
    BY <1>3, <2>0 DEF Take
  <2>2. s.copy[i] - need \in Nat
    BY <1>0, <1>3
  <2>3. t \in Runs /\ t.loops = s.loops /\ t.makings = s.makings /\ t.ok = s.ok
        /\ t.copy = [s.copy EXCEPT ![i] = @ - need]
    BY <1>0, <2>1, <2>2 DEF Runs
  <2> HIDE DEF t
  <2>4. ASSUME NEW j \in Items PROVE t.copy[j] = s.copy[j] - Only(i, need)[j]
    BY <1>0, <2>3 DEF Only
  <2> QED BY <1>3, <2>3, <2>4 DEF t
<1> QED BY <1>0, <1>1, <1>2, <1>3

\* A stretch that takes what there is.
LEMMA Taking ==
    ASSUME NEW n \in Nat, NEW s \in Runs, s.ok, NEW i \in Items, NEW need \in Nat,
           s.copy[i] >= need, NEW low
    PROVE  Progress(n, s, Take(s, i, need), Only(i, need), low)
<1> DEFINE t == Take(s, i, need)
<1>1. /\ t \in Runs /\ t.loops = s.loops /\ t.ok
      /\ \A j \in Items : t.copy[j] = s.copy[j] - Only(i, need)[j]
  BY TakingIs
<1> HIDE DEF t
<1>2. /\ \A j \in Items : s.copy[j] \in Nat /\ t.copy[j] \in Nat /\ Only(i, need)[j] \in Nat
      /\ s.loops \in Nat /\ MaxAmount * s.loops \in Nat
  <2>1. \A j \in Items : s.copy[j] \in Nat /\ t.copy[j] \in Nat
    BY <1>1, RunIs
  <2>2. \A j \in Items : Only(i, need)[j] \in Nat
    BY DEF Only
  <2>3. s.loops \in Nat /\ MaxAmount \in Nat
    BY RunIs, Numbers
  <2>4. MaxAmount * s.loops \in Nat
    BY <2>3
  <2> QED BY <2>1, <2>2, <2>3, <2>4
<1>3. Accounts(s, t, Only(i, need))
  <2> DEFINE none == [p \in Craftable |-> 0]
  <2>1. none \in [Craftable -> Nat] /\ \A p \in Craftable : none[p] = 0
    OBVIOUS
  <2>2. \A j \in Items : Net(none, j) = 0
    BY NetOfNone
  <2> HIDE DEF none
  <2>3. \A p \in Craftable : none[p] + MaxAmount * s.loops <= MaxAmount * t.loops
    BY <1>1, <1>2, <2>1
  <2>4. \A j \in Items : t.copy[j] = s.copy[j] + Net(none, j) - Only(i, need)[j]
    BY <1>1, <1>2, <2>2
  <2> QED BY <2>1, <2>3, <2>4 DEF Accounts
<1>4. ASSUME NEW wanted \in [Items -> Nat], CanGet(s.copy, wanted)
      PROVE  CanGet(t.copy, Minus(wanted, Only(i, need)))
  <2>1. PICK m \in [Craftable -> Nat] : \A j \in Items : s.copy[j] + Net(m, j) >= wanted[j]
    BY <1>4 DEF CanGet
  <2>2. ASSUME NEW j \in Items
        PROVE  t.copy[j] + Net(m, j) >= Minus(wanted, Only(i, need))[j]
    <3>1. Minus(wanted, Only(i, need))[j] = wanted[j] - Only(i, need)[j]
      BY DEF Minus
    <3>2. Net(m, j) \in Int /\ wanted[j] \in Nat
      BY NetOfBoth
    <3> QED BY <1>1, <1>2, <2>1, <3>1, <3>2
  <2> QED BY <2>2 DEF CanGet
<1>5. Progress(n, s, t, Only(i, need), low)
  BY <1>1, <1>2, <1>3, <1>4 DEF Progress
<1> QED BY <1>5 DEF t

-----------------------------------------------------------------------------
(* The calls of craftItem. *)

\* A call for c of r, wanted above what the copy holds, makes exactly these, and
\* uses nothing but what comes before r.
Call(n, s, r, c, t) ==
    /\ Progress(n, s, t, NoItems, Only(r, s.copy[r] + c))
    /\ t.ok => /\ t.copy[r] = s.copy[r] + c
               /\ \A j \in Items : j > r => t.copy[j] = s.copy[j]

\* A function that answers calls like craftItem, n of them being left to nest.
Crafts(n, craft) ==
    \A r \in Craftable, c \in 0 .. MaxAmount, s \in Runs :
        IF s.ok THEN Call(n, s, r, c, craft[r][c][s]) ELSE craft[r][c][s] = s

Most(x, y) == IF x >= y THEN x ELSE y

\* Multiples of a number.
LEMMA Multiples ==
    /\ \A a, x \in Nat : a * x \in Nat /\ a * x = x * a
    /\ \A a, x, y \in Nat : a * (x + y) = a * x + a * y
    /\ \A a, x, y \in Nat : x <= y => a * x <= a * y
<1>1. \A a, x \in Nat : a * x \in Nat /\ a * x = x * a
  OBVIOUS
<1>2. \A a, x, y \in Nat : a * (x + y) = a * x + a * y
  OBVIOUS
<1>3. ASSUME NEW a \in Nat, NEW x \in Nat, NEW y \in Nat, x <= y PROVE a * x <= a * y
  <2>1. y - x \in Nat /\ y = x + (y - x)
    BY <1>3
  <2>2. a * y = a * x + a * (y - x)
    BY <1>2, <2>1
  <2>3. a * x \in Nat /\ a * (y - x) \in Nat
    BY <1>1, <2>1
  <2> QED BY <2>2, <2>3
<1> QED BY <1>1, <1>2, <1>3

\* What is made of a component in one round: enough for the rounds so far.
LEMMA ToMakeIs ==
    ASSUME NEW have \in Nat, NEW a \in Nat, NEW k \in Nat \ {0}
    PROVE  /\ ToMake(have, a, k) \in 0 .. a
           /\ Most(have, a * (k - 1)) + ToMake(have, a, k) = Most(have, a * k)
<1>1. k - 1 \in Nat /\ k = (k - 1) + 1 /\ 1 \in Nat
  OBVIOUS
<1>2. a * (k - 1) \in Nat /\ a * k = a * (k - 1) + a * 1 /\ a * 1 = a /\ (k - 1) * a = a * (k - 1)
  BY <1>1, Multiples
<1> DEFINE used == a * (k - 1)
<1>3. ToMake(have, a, k) = IF have - used >= a THEN 0
                           ELSE IF have - used > 0 THEN a - (have - used) ELSE a
  BY <1>2 DEF ToMake
<1>4. used \in Nat /\ a * k = used + a
  BY <1>2
<1> HIDE DEF used
<1>5. ToMake(have, a, k) \in 0 .. a /\ Most(have, used) + ToMake(have, a, k) = Most(have, used + a)
  BY <1>3, <1>4 DEF Most
<1> QED BY <1>4, <1>5 DEF used

\* The rounds of making a component: the copy ends up with what is needed.
LEMMA Missing ==
    ASSUME NEW n \in Nat, NEW craft, Crafts(n, craft), NEW s \in Runs, s.ok,
           NEW part, part.item \in Craftable, part.amount \in 1 .. MaxAmount, NEW c \in Nat,
           s.copy[part.item] < part.amount * c
    PROVE  LET t == MakeMissing(craft, s, part, c)
               i == part.item IN
           /\ Progress(n, s, t, NoItems, Only(i, part.amount * c))
           /\ t.ok => /\ t.copy[i] = part.amount * c
                      /\ \A j \in Items : j > i => t.copy[j] = s.copy[j]
<1> DEFINE i == part.item
           a == part.amount
           have == s.copy[i]
           need == a * c
           Round == [k \in 1 .. c |-> craft[i][ToMake(have, a, k)]]
           Inv(k, t) == /\ Progress(n, s, t, NoItems, Only(i, need))
                        /\ t.ok => /\ t.copy[i] = Most(have, a * k)
                                   /\ \A j \in Items : j > i => t.copy[j] = s.copy[j]
           I == [k \in 0 .. c |-> {t \in Runs : Inv(k, t)}]
<1>0. /\ i \in Craftable /\ i \in Items /\ a \in Nat /\ have \in Nat /\ need \in Nat
      /\ have < need /\ MaxAmount \in Nat /\ a <= MaxAmount
  <2>1. MaxAmount \in Nat /\ i \in Craftable /\ i \in Items /\ a \in 1 .. MaxAmount
    BY Numbers
  <2>2. have \in Nat /\ have < need
    BY <2>1, RunIs
  <2>3. a \in Nat /\ a <= MaxAmount
    BY <2>1
  <2>4. need \in Nat
    BY <2>3, Multiples
  <2> QED BY <2>1, <2>2, <2>3, <2>4
<1>1. MakeMissing(craft, s, part, c) = Repeat(Round, s, c)
  BY DEF MakeMissing
<1>2. \A k \in 1 .. c : Round[k] = craft[i][ToMake(have, a, k)]
  OBVIOUS
<1> HIDE DEF Round, i, a, have, need
<1>3. s \in I[0]
  <2>1. a * 0 = 0 /\ Most(have, 0) = have
    BY <1>0 DEF Most
  <2>2. Inv(0, s)
    BY <2>1, Standstill DEF have
  <2> QED BY <2>2
<1>4. ASSUME NEW k \in 1 .. c, NEW t \in I[k - 1] PROVE Round[k][t] \in I[k]
  <2> DEFINE x == ToMake(have, a, k)
             u == Round[k][t]
             top == Most(have, a * k)
  <2> HIDE DEF I, Inv
  <2>1. k \in Nat \ {0} /\ k - 1 \in 0 .. c /\ k \in 0 .. c /\ k \in Nat
    OBVIOUS
  <2>2. t \in Runs /\ Inv(k - 1, t)
    BY <1>4, <2>1 DEF I
  <2>3. x \in 0 .. MaxAmount /\ Most(have, a * (k - 1)) + x = top
    <3>1. x \in 0 .. a /\ Most(have, a * (k - 1)) + x = top
      BY <1>0, <2>1, ToMakeIs
    <3> QED BY <1>0, <3>1
  <2>4. top \in Nat /\ top <= need
    <3>1. a * k \in Nat /\ a * k <= a * c
      BY <1>0, <2>1, Multiples
    <3> QED BY <1>0, <3>1 DEF Most, need
  <2>5. u = craft[i][x][t]
    BY <1>2
  <2> HIDE DEF u, x, top
  <2>6. CASE ~t.ok
    <3>1. u = t
      BY <1>0, <2>2, <2>3, <2>5, <2>6 DEF Crafts
    <3>2. Inv(k, u)
      BY <2>2, <2>6, <3>1 DEF Inv
    <3>3. u \in Runs
      BY <2>2, <3>1
    <3> QED BY <2>1, <3>2, <3>3 DEF I, u
  <2>7. CASE t.ok
    <3>1. Call(n, t, i, x, u)
      BY <1>0, <2>2, <2>3, <2>5, <2>7 DEF Crafts
    <3>2. t.copy[i] + x = top
      BY <2>2, <2>3, <2>7 DEF Inv
    <3>3. Progress(n, t, u, NoItems, Only(i, top))
      BY <3>1, <3>2 DEF Call
    <3>4. /\ NoItems \in [Items -> Nat] /\ Only(i, need) \in [Items -> Nat]
          /\ Only(i, top) \in [Items -> Nat]
          /\ \A j \in Items : Only(i, need)[j] >= NoItems[j] + Only(i, top)[j]
      BY <1>0, <2>4 DEF NoItems, Only
    <3>5. Progress(n, s, t, NoItems, Only(i, need))
      BY <2>2 DEF Inv
    <3>6. Progress(n, s, u, Plus(NoItems, NoItems), Only(i, need))
      BY <2>2, <2>7, <3>3, <3>4, <3>5, InARow
    <3>7. Plus(NoItems, NoItems) = NoItems
      BY DEF Plus, NoItems
    <3>8. u \in Runs
      BY <3>3 DEF Progress
    <3>9. ASSUME u.ok PROVE /\ u.copy[i] = top
                            /\ \A j \in Items : j > i => u.copy[j] = s.copy[j]
      BY <2>2, <2>7, <3>1, <3>2, <3>9 DEF Call, Inv
    <3>10. Inv(k, u)
      BY <3>6, <3>7, <3>9 DEF Inv, top
    <3> QED BY <2>1, <3>8, <3>10 DEF I, u
  <2> QED BY <2>6, <2>7
<1>5. Repeat(Round, s, c) \in I[c]
  <2> HIDE DEF I
  <2> QED BY <1>3, <1>4, LoopInvariant
<1>6. Inv(c, Repeat(Round, s, c)) /\ c \in 0 .. c
  BY <1>5
<1>7. Most(have, a * c) = need
  BY <1>0 DEF Most, need
<1> HIDE DEF I
<1>8. /\ Progress(n, s, Repeat(Round, s, c), NoItems, Only(i, need))
      /\ Repeat(Round, s, c).ok => /\ Repeat(Round, s, c).copy[i] = need
                                   /\ \A j \in Items : j > i => Repeat(Round, s, c).copy[j] = s.copy[j]
  BY <1>6, <1>7
<1> QED BY <1>1, <1>8 DEF i, need, a

\* One component: it is taken off the copy, made first as far as it is missing.
LEMMA ComponentIs ==
    ASSUME NEW n \in Nat, NEW craft, Crafts(n, craft), NEW s \in Runs, s.ok,
           NEW part, part.item \in Items, part.amount \in 1 .. MaxAmount, NEW c \in Nat
    PROVE  LET t == Component(craft, s, part, c)
               need == Only(part.item, part.amount * c) IN
           /\ Progress(n, s, t, need, need)
           /\ t.ok => \A j \in Items : j > part.item => t.copy[j] = s.copy[j]
<1> DEFINE i == part.item
           need == part.amount * c
           t == Component(craft, s, part, c)
           Goal(u) == /\ Progress(n, s, u, Only(i, need), Only(i, need))
                      /\ u.ok => \A j \in Items : j > i => u.copy[j] = s.copy[j]
<1>0. i \in Items /\ need \in Nat /\ s.copy[i] \in Nat /\ i \in Nat
  BY RunIs, Numbers, Multiples
<1>1. ASSUME s.copy[i] >= need PROVE Goal(t)
  <2>1. t = Take(s, i, need)
    BY <1>1 DEF Component
  <2> HIDE DEF t, need, i
  <2>2. Progress(n, s, t, Only(i, need), Only(i, need))
    BY <1>0, <1>1, <2>1, Taking
  <2>3. t.ok => \A j \in Items : t.copy[j] = s.copy[j] - Only(i, need)[j]
    BY <1>0, <2>1, TakingIs
  <2>4. ASSUME t.ok, NEW j \in Items, j > i PROVE t.copy[j] = s.copy[j]
    <3>1. Only(i, need)[j] = 0 /\ s.copy[j] \in Nat
      BY <1>0, <2>4, RunIs, Numbers DEF Only
    <3> QED BY <2>3, <2>4, <3>1
  <2> QED BY <2>2, <2>4
<1>2. ASSUME ~(s.copy[i] >= need), i \notin Craftable PROVE Goal(t)
  <2>1. t = Failed(s)
    BY <1>2 DEF Component
  <2> HIDE DEF t, need, i
  <2>2. ASSUME NEW wanted \in [Items -> Nat], CanGet(s.copy, wanted)
        PROVE  ~(wanted[i] >= Only(i, need)[i])
    <3>1. PICK m \in [Craftable -> Nat] : \A j \in Items : s.copy[j] + Net(m, j) >= wanted[j]
      BY <2>2 DEF CanGet
    <3>2. Net(m, i) \in Int /\ Net(m, i) <= 0 /\ Only(i, need)[i] = need /\ wanted[i] \in Nat
      BY <1>0, <1>2, NetOfBoth DEF Only
    <3> QED BY <1>0, <1>2, <3>1, <3>2
  <2>3. Progress(n, s, t, Only(i, need), Only(i, need)) /\ ~t.ok
    BY <1>0, <2>1, <2>2, Failure
  <2> QED BY <2>3
<1>3. ASSUME ~(s.copy[i] >= need), i \in Craftable PROVE Goal(t)
  <2> DEFINE u == MakeMissing(craft, s, part, c)
  <2>1. t = Take(u, i, need)
    BY <1>3 DEF Component
  <2>2. s.copy[i] < need
    BY <1>0, <1>3
  <2>3. /\ Progress(n, s, u, NoItems, Only(i, need))
        /\ u.ok => /\ u.copy[i] = need
                   /\ \A j \in Items : j > i => u.copy[j] = s.copy[j]
    BY <1>3, <2>2, Missing
  <2> HIDE DEF t, u, need, i
  <2>4. u \in Runs
    BY <2>3 DEF Progress
  <2>5. u.ok => Progress(n, u, t, Only(i, need), Only(i, need))
    <3>1. need >= need
      BY <1>0
    <3> QED BY <1>0, <2>1, <2>3, <2>4, <3>1, Taking
  <2>6. /\ ~u.ok => t = u
        /\ t.ok => \A j \in Items : t.copy[j] = u.copy[j] - Only(i, need)[j]
    <3>1. i \in Items /\ need \in Nat
      BY <1>0
    <3> QED BY <2>1, <2>4, <3>1, TakingIs
  <2>7. /\ NoItems \in [Items -> Nat] /\ Only(i, need) \in [Items -> Nat]
        /\ \A j \in Items : Only(i, need)[j] >= NoItems[j] + Only(i, need)[j]
    BY <1>0 DEF NoItems, Only
  <2>8. Progress(n, s, t, Plus(NoItems, Only(i, need)), Only(i, need))
    BY <2>3, <2>4, <2>5, <2>6, <2>7, InARow
  <2>9. Plus(NoItems, Only(i, need)) = Only(i, need)
    BY <1>0 DEF Plus, NoItems, Only
  <2>10. ASSUME t.ok, NEW j \in Items, j > i PROVE t.copy[j] = s.copy[j]
    <3>1. u.ok /\ t.copy[j] = u.copy[j] - Only(i, need)[j]
      BY <2>6, <2>10
    <3>2. u.copy[j] \in Nat /\ u.copy[j] = s.copy[j]
      BY <2>3, <2>4, <2>10, <3>1, RunIs
    <3>3. i # j
      BY <1>0, <2>10, Numbers
    <3>4. Only(i, need)[j] = 0
      BY <3>3 DEF Only
    <3> QED BY <3>1, <3>2, <3>4
  <2> QED BY <2>8, <2>9, <2>10
<1>4. Goal(t)
  BY <1>1, <1>2, <1>3
<1> QED BY <1>4 DEF t, need, i

\* c times what the first k components of a recipe ask for.
Asked(r, c, k) == [i \in Items |-> c * Needs(r, i, k)]

\* All components of a recipe, one after the other.
LEMMA ComponentsAre ==
    ASSUME NEW n \in Nat, NEW craft, Crafts(n, craft), NEW s \in Runs, s.ok,
           NEW r \in Craftable, NEW c \in Nat
    PROVE  LET t == Components(craft, s, r, c)
               all == Asked(r, c, Len(Recipes[r])) IN
           /\ Progress(n, s, t, all, all)
           /\ t.ok => \A j \in Items : j >= r => t.copy[j] = s.copy[j]
<1> DEFINE len == Len(Recipes[r])
           all == Asked(r, c, len)
           Round == [k \in 1 .. len |-> [t \in Runs |-> Component(craft, t, Recipes[r][k], c)]]
           Inv(k, t) == /\ Progress(n, s, t, Asked(r, c, k), all)
                        /\ t.ok => \A j \in Items : j >= r => t.copy[j] = s.copy[j]
           I == [k \in 0 .. len |-> {t \in Runs : Inv(k, t)}]
<1>0. /\ len \in Nat /\ r \in Nat
      /\ \A i \in Items : i \in Nat
      /\ \A k \in 0 .. len : \A i \in Items :
           Asked(r, c, k)[i] = c * Needs(r, i, k) /\ Needs(r, i, k) \in Nat
      /\ \A k \in 0 .. len : Asked(r, c, k) \in [Items -> Nat]
  <2>1. len \in Nat /\ r \in Nat /\ \A i \in Items : i \in Nat
    BY PartsAre, Numbers
  <2>2. \A k \in 0 .. len : \A i \in Items : Needs(r, i, k) \in Nat /\ c * Needs(r, i, k) \in Nat
    BY NeedsAre, Multiples
  <2> QED BY <2>1, <2>2 DEF Asked
<1>1. Components(craft, s, r, c) = Repeat(Round, s, len)
  BY DEF Components
<1>2. \A k \in 1 .. len : \A t \in Runs : Round[k][t] = Component(craft, t, Recipes[r][k], c)
  OBVIOUS
<1> HIDE DEF Round
<1>3. s \in I[0]
  <2>1. Asked(r, c, 0) = NoItems
    <3>1. \A i \in Items : c * Needs(r, i, 0) = 0
      BY NeedsAre
    <3> QED BY <3>1 DEF Asked, NoItems
  <2>2. Progress(n, s, s, NoItems, all)
    BY Standstill
  <2>3. Inv(0, s)
    BY <2>1, <2>2
  <2>4. 0 \in 0 .. len
    BY <1>0
  <2> HIDE DEF Inv
  <2> QED BY <2>3, <2>4
<1>4. ASSUME NEW k \in 1 .. len, NEW t \in I[k - 1] PROVE Round[k][t] \in I[k]
  <2> DEFINE part == Recipes[r][k]
             u == Component(craft, t, part, c)
             here == Only(part.item, part.amount * c)
  <2> HIDE DEF I, Inv
  <2>1. /\ k - 1 \in 0 .. len /\ k \in 0 .. len
        /\ part.item \in Items /\ part.item < r /\ part.amount \in 1 .. MaxAmount
        /\ part.amount \in Nat /\ part.amount * c \in Nat
    <3>1. part.item \in Items /\ part.item < r /\ part.amount \in 1 .. MaxAmount
      BY PartsAre
    <3>2. part.amount \in Nat
      BY <3>1, Numbers
    <3> HIDE DEF part
    <3>3. part.amount * c \in Nat
      BY <3>2, Multiples
    <3>4. k - 1 \in 0 .. len /\ k \in 0 .. len
      BY <1>0
    <3> QED BY <3>1, <3>2, <3>3, <3>4
  <2>2. t \in Runs /\ Inv(k - 1, t)
    BY <2>1 DEF I
  <2>3. Round[k][t] = u
    BY <1>2, <2>2
  <2>4. t.ok => /\ Progress(n, t, u, here, here)
                /\ u.ok => \A j \in Items : j > part.item => u.copy[j] = t.copy[j]
    <3> SUFFICES ASSUME t.ok
                 PROVE  /\ Progress(n, t, u, here, here)
                        /\ u.ok => \A j \in Items : j > part.item => u.copy[j] = t.copy[j]
      OBVIOUS
    <3> HIDE DEF part
    <3>1. t \in Runs /\ part.item \in Items /\ part.amount \in 1 .. MaxAmount
      BY <2>1, <2>2
    <3> QED BY <3>1, ComponentIs
  <2>5. ~t.ok => u = t
    BY <2>1, <2>2, TakingIs DEF Component
  <2> HIDE DEF u, here
  <2>6. ASSUME NEW i \in Items
        PROVE  /\ all[i] >= Asked(r, c, k - 1)[i] + here[i] /\ here[i] \in Nat
               /\ Asked(r, c, k)[i] = Asked(r, c, k - 1)[i] + here[i]
    <3> DEFINE x == IF i = part.item THEN part.amount ELSE 0
    <3>1. /\ Needs(r, i, k) = Needs(r, i, k - 1) + x
          /\ Needs(r, i, k) <= Needs(r, i, len) /\ Needs(r, i, len) \in Nat
          /\ Needs(r, i, k) \in Nat /\ Needs(r, i, k - 1) \in Nat
      BY <1>0, <2>1, NeedsAre DEF Amount
    <3>2. x \in Nat
      BY <2>1
    <3>3. here[i] = c * x
      <4>1. here[i] = IF i = part.item THEN part.amount * c ELSE 0
        BY DEF here, Only
      <4>2. c * 0 = 0 /\ part.amount * c = c * part.amount
        BY <2>1, Multiples
      <4> QED BY <4>1, <4>2
    <3> HIDE DEF x
    <3>4. c * Needs(r, i, k) = c * Needs(r, i, k - 1) + c * x
      BY <3>1, <3>2, Multiples
    <3>5. /\ c * Needs(r, i, k) <= c * Needs(r, i, len) /\ c * x \in Nat
          /\ c * Needs(r, i, len) \in Nat /\ c * Needs(r, i, k - 1) \in Nat
      BY <3>1, <3>2, Multiples
    <3>6. /\ Asked(r, c, k)[i] = c * Needs(r, i, k) /\ all[i] = c * Needs(r, i, len)
          /\ Asked(r, c, k - 1)[i] = c * Needs(r, i, k - 1)
      BY DEF Asked
    <3> QED BY <3>3, <3>4, <3>5, <3>6
  <2>7. here \in [Items -> Nat] /\ Asked(r, c, k - 1) \in [Items -> Nat] /\ all \in [Items -> Nat]
    <3>1. here = [i \in Items |-> here[i]]
      BY DEF here, Only
    <3>2. len \in 0 .. len
      BY <1>0
    <3> QED BY <1>0, <2>1, <2>6, <3>1, <3>2
  <2>8. Progress(n, s, t, Asked(r, c, k - 1), all)
    BY <2>2 DEF Inv
  <2>9. Progress(n, s, u, Plus(Asked(r, c, k - 1), here), all)
    <3>1. u \in Runs
      BY <2>2, <2>4, <2>5 DEF Progress
    <3>2. \A i \in Items : all[i] >= Asked(r, c, k - 1)[i] + here[i]
      BY <2>6
    <3> HIDE DEF all
    <3> QED BY <2>2, <2>4, <2>5, <2>7, <2>8, <3>1, <3>2, InARow
  <2>10. Plus(Asked(r, c, k - 1), here) = Asked(r, c, k)
    <3>1. \A i \in Items : Asked(r, c, k)[i] = Asked(r, c, k - 1)[i] + here[i]
      BY <2>6
    <3>2. Asked(r, c, k) = [i \in Items |-> Asked(r, c, k)[i]]
      BY DEF Asked
    <3> QED BY <3>1, <3>2 DEF Plus
  <2>11. ASSUME u.ok, NEW j \in Items, j >= r PROVE u.copy[j] = s.copy[j]
    <3>1. t.ok
      BY <2>5, <2>11
    <3>2. j > part.item
      <4>1. part.item \in Nat /\ j \in Nat /\ r \in Nat /\ j >= r /\ part.item < r
        BY <1>0, <2>1, <2>11
      <4> HIDE DEF part
      <4> QED BY <4>1
    <3> QED BY <2>2, <2>4, <2>11, <3>1, <3>2 DEF Inv
  <2>12. Inv(k, u) /\ u \in Runs
    BY <2>9, <2>10, <2>11 DEF Inv, Progress
  <2> QED BY <2>1, <2>3, <2>12 DEF I
<1>5. Repeat(Round, s, len) \in I[len]
  <2> HIDE DEF I, len
  <2> QED BY <1>0, <1>3, <1>4, LoopInvariant
<1>6. Inv(len, Repeat(Round, s, len))
  <2> HIDE DEF Inv
  <2>1. len \in 0 .. len
    BY <1>0
  <2> QED BY <1>5, <2>1
<1> QED BY <1>1, <1>6

\* A call makes what its recipe asks for, and then the product.
LEMMA CallIs ==
    ASSUME NEW n \in Nat \ {0}, NEW craft, Crafts(n - 1, craft), NEW s \in Runs, s.ok,
           NEW r \in Craftable, NEW c \in 1 .. MaxAmount, s.loops < MaxLoops
    PROVE  Call(n, s, r, c, Planned(Components(craft, Counted(s), r, c), r, c))
<1> DEFINE e == Counted(s)
           p == Components(craft, e, r, c)
           t == Planned(p, r, c)
           all == Asked(r, c, Len(Recipes[r]))
           low == Only(r, s.copy[r] + c)
<1>0. /\ n - 1 \in Nat /\ c \in Nat /\ r \in Items /\ c <= MaxAmount /\ c > 0 /\ MaxAmount \in Nat
      /\ MaxLoops \in Nat /\ s.loops \in Nat /\ \A i \in Items : s.copy[i] \in Nat /\ i \in Nat
  BY Numbers, RunIs
<1>1. e \in Runs /\ e.ok /\ e.copy = s.copy /\ e.loops = s.loops + 1
  <2>1. e = [s EXCEPT !.loops = @ + 1] /\ s.loops + 1 \in Nat
    BY <1>0 DEF Counted
  <2> HIDE DEF e
  <2> QED BY <2>1 DEF Runs
<1> HIDE DEF e
<1>2. /\ Progress(n - 1, e, p, all, all)
      /\ p.ok => \A j \in Items : j >= r => p.copy[j] = e.copy[j]
  BY <1>0, <1>1, ComponentsAre
<1>3. p \in Runs /\ e.loops <= p.loops
  BY <1>2 DEF Progress
<1>4. \A i \in Items : all[i] = c * Amount(r, i) /\ Amount(r, i) \in Nat /\ all[i] \in Nat
  BY <1>0, NeedsAre, Multiples DEF Asked, Amount
<1> HIDE DEF p, all
<1>5. /\ t \in Runs /\ t.loops = p.loops /\ t.ok = p.ok
      /\ p.ok => \A i \in Items : t.copy[i] = p.copy[i] + (IF i = r THEN c ELSE 0)
  <2>1. CASE ~p.ok
    BY <1>3, <2>1 DEF Planned
  <2>2. CASE p.ok
    <3> DEFINE making == [item |-> r, count |-> c]
    <3>1. t = [p EXCEPT !.copy[r] = @ + c, !.makings = Append(@, making)]
      BY <2>2 DEF Planned
    <3>2. making \in Makings
      BY <1>0 DEF Makings
    <3>3. /\ p.copy \in [Items -> Nat] /\ p.makings \in Seq(Makings) /\ p.loops \in Nat
          /\ p.ok \in BOOLEAN
      BY <1>3, RunIs
    <3> HIDE DEF making
    <3>4. /\ [p.copy EXCEPT ![r] = @ + c] \in [Items -> Nat]
          /\ Append(p.makings, making) \in Seq(Makings)
          /\ \A i \in Items : [p.copy EXCEPT ![r] = @ + c][i] = p.copy[i] + (IF i = r THEN c ELSE 0)
      BY <1>0, <3>2, <3>3
    <3>5. t = [copy |-> [p.copy EXCEPT ![r] = @ + c], makings |-> Append(p.makings, making),
               loops |-> p.loops, ok |-> p.ok]
      BY <1>3, <3>1 DEF Runs
    <3> HIDE DEF t
    <3> QED BY <3>3, <3>4, <3>5 DEF Runs
  <2> QED BY <2>1, <2>2
<1> HIDE DEF t
<1>6. ASSUME t.ok PROVE Accounts(s, t, NoItems)
  <2>1. PICK m \in [Craftable -> Nat] :
          /\ \A q \in Craftable : m[q] + MaxAmount * e.loops <= MaxAmount * p.loops
          /\ \A i \in Items : p.copy[i] = e.copy[i] + Net(m, i) - all[i]
    BY <1>2, <1>5, <1>6 DEF Progress, Accounts
  <2> DEFINE more == [m EXCEPT ![r] = @ + c]
  <2>2. /\ more \in [Craftable -> Nat] /\ more[r] = m[r] + c
        /\ \A q \in Craftable : q # r => more[q] = m[q]
        /\ \A q \in Craftable : more[q] \in Nat /\ m[q] \in Nat /\ more[q] <= m[q] + c
    BY <1>0
  <2> HIDE DEF more
  <2>3. \A i \in Items : /\ Net(m, i) \in Int
                         /\ Net(more, i) = Net(m, i) + (IF i = r THEN c ELSE 0) - c * Amount(r, i)
    BY <1>0, <2>2, NetOfMore
  <2>4. ASSUME NEW q \in Craftable PROVE more[q] + MaxAmount * s.loops <= MaxAmount * t.loops
    <3>1. MaxAmount * e.loops = MaxAmount * s.loops + MaxAmount /\ MaxAmount * s.loops \in Nat
      <4>1. 1 \in Nat /\ MaxAmount * 1 = MaxAmount
        BY <1>0
      <4> QED BY <1>0, <1>1, <4>1, Multiples
    <3>2. m[q] + MaxAmount * e.loops <= MaxAmount * t.loops /\ MaxAmount * t.loops \in Nat
      BY <1>0, <1>5, <2>1, RunIs, Multiples
    <3> QED BY <1>0, <2>2, <3>1, <3>2
  <2>5. ASSUME NEW i \in Items PROVE t.copy[i] = s.copy[i] + Net(more, i) - NoItems[i]
    <3>1. NoItems[i] = 0 /\ p.copy[i] = s.copy[i] + Net(m, i) - c * Amount(r, i)
      BY <1>1, <1>4, <2>1 DEF NoItems
    <3>2. t.copy[i] = p.copy[i] + (IF i = r THEN c ELSE 0)
      BY <1>5, <1>6
    <3>3. c * Amount(r, i) \in Nat /\ s.copy[i] \in Nat /\ Net(m, i) \in Int
      BY <1>0, <1>4, <2>3
    <3> QED BY <1>0, <2>3, <3>1, <3>2, <3>3
  <2> QED BY <2>2, <2>4, <2>5 DEF Accounts
<1>7. ASSUME NEW wanted \in [Items -> Nat], CanGet(s.copy, wanted),
             \A i \in Items : wanted[i] >= low[i], s.loops + n >= MaxLoops
      PROVE  t.loops > MaxLoops \/ (t.ok /\ CanGet(t.copy, Minus(wanted, NoItems)))
  <2>0. wanted[r] >= s.copy[r] + c /\ wanted[r] \in Nat /\ s.copy[r] \in Nat
    BY <1>0, <1>7 DEF Only
  <2>1. PICK m \in [Craftable -> Nat] : \A i \in Items : s.copy[i] + Net(m, i) >= wanted[i]
    BY <1>7 DEF CanGet
  <2>2. m[r] >= c /\ m[r] \in Nat
    <3>1. Net(m, r) <= m[r] /\ Net(m, r) \in Int /\ s.copy[r] + Net(m, r) >= wanted[r]
      BY <1>0, <2>1, NetOfBoth
    <3> QED BY <1>0, <2>0, <3>1
  <2> DEFINE less == [m EXCEPT ![r] = @ - c]
             others == [i \in Items |-> wanted[i] - (IF i = r THEN c ELSE 0) + all[i]]
  <2>3. /\ less \in [Craftable -> Nat] /\ m[r] = less[r] + c
        /\ \A q \in Craftable : q # r => m[q] = less[q]
    BY <1>0, <2>2
  <2> HIDE DEF less
  <2>4. \A i \in Items : /\ Net(less, i) \in Int
                         /\ Net(m, i) = Net(less, i) + (IF i = r THEN c ELSE 0) - c * Amount(r, i)
    BY <1>0, <2>3, NetOfMore
  <2>5. ASSUME NEW i \in Items
        PROVE  /\ others[i] \in Nat /\ others[i] >= all[i]
               /\ e.copy[i] + Net(less, i) >= others[i]
    <3>1. /\ others[i] = wanted[i] - (IF i = r THEN c ELSE 0) + all[i] /\ wanted[i] \in Nat
          /\ all[i] \in Nat /\ all[i] = c * Amount(r, i) /\ s.copy[i] \in Nat
          /\ i = r => wanted[i] >= c
      BY <1>0, <1>4, <2>0
    <3>2. s.copy[i] + Net(m, i) >= wanted[i]
      BY <2>1
    <3> QED BY <1>0, <1>1, <2>4, <3>1, <3>2
  <2>6. others \in [Items -> Nat]
    BY <2>5
  <2> HIDE DEF others
  <2>7. CanGet(e.copy, others)
    BY <2>3, <2>5 DEF CanGet
  <2>8. e.loops + (n - 1) >= MaxLoops
    BY <1>0, <1>1, <1>7
  <2>9. p.loops > MaxLoops \/ (p.ok /\ CanGet(p.copy, Minus(others, all)))
    BY <1>2, <2>5, <2>6, <2>7, <2>8 DEF Progress
  <2>10. ASSUME p.ok, CanGet(p.copy, Minus(others, all)) PROVE CanGet(t.copy, Minus(wanted, NoItems))
    <3>1. PICK o \in [Craftable -> Nat] :
            \A i \in Items : p.copy[i] + Net(o, i) >= Minus(others, all)[i]
      BY <2>10 DEF CanGet
    <3>2. ASSUME NEW i \in Items PROVE t.copy[i] + Net(o, i) >= Minus(wanted, NoItems)[i]
      <4>1. /\ Minus(wanted, NoItems)[i] = wanted[i] - 0 /\ wanted[i] \in Nat
            /\ Minus(others, all)[i] = wanted[i] - (IF i = r THEN c ELSE 0) + all[i] - all[i]
            /\ all[i] \in Nat /\ Net(o, i) \in Int /\ p.copy[i] \in Nat
        <5>1. all[i] \in Nat /\ Net(o, i) \in Int /\ p.copy[i] \in Nat /\ wanted[i] \in Nat
          BY <1>3, <1>4, NetOfBoth, RunIs
        <5>2. Minus(wanted, NoItems)[i] = wanted[i] - 0
          BY DEF Minus, NoItems
        <5>3. Minus(others, all)[i] = wanted[i] - (IF i = r THEN c ELSE 0) + all[i] - all[i]
          <6>1. /\ Minus(others, all)[i] = others[i] - all[i]
                /\ others[i] = wanted[i] - (IF i = r THEN c ELSE 0) + all[i]
            BY DEF Minus, others
          <6> QED BY <1>0, <5>1, <6>1
        <5> QED BY <5>1, <5>2, <5>3
      <4>2. t.copy[i] = p.copy[i] + (IF i = r THEN c ELSE 0)
        BY <1>5, <2>10
      <4>3. p.copy[i] + Net(o, i) >= Minus(others, all)[i]
        BY <3>1
      <4> QED BY <1>0, <4>1, <4>2, <4>3
    <3> QED BY <3>2 DEF CanGet
  <2> QED BY <1>5, <2>9, <2>10
<1>8. s.loops <= t.loops
  BY <1>0, <1>1, <1>3, <1>5, RunIs
<1>9. ASSUME t.ok PROVE /\ t.copy[r] = s.copy[r] + c
                        /\ \A j \in Items : j > r => t.copy[j] = s.copy[j]
  <2>1. \A j \in Items : j >= r => p.copy[j] = s.copy[j]
    BY <1>1, <1>2, <1>5, <1>9
  <2>2. \A j \in Items : t.copy[j] = p.copy[j] + (IF j = r THEN c ELSE 0)
    BY <1>5, <1>9
  <2> QED BY <1>0, <2>1, <2>2
<1>10. Progress(n, s, t, NoItems, low)
  BY <1>5, <1>6, <1>7, <1>8 DEF Progress
<1>11. Call(n, s, r, c, t)
  BY <1>9, <1>10 DEF Call
<1> QED BY <1>11 DEF t, p, e

-----------------------------------------------------------------------------
(* craftItem itself. *)

\* The recursive definition of CraftItem has a solution: one more call can be
\* nested in each of its functions than in the one before.
LEMMA CraftItemIs ==
    ASSUME NEW n \in 0 .. MaxLoops, NEW r \in Craftable, NEW c \in Nat, NEW s \in Runs
    PROVE  CraftItem[n][r][c][s] =
             IF ~s.ok \/ c = 0 THEN s
             ELSE IF n = 0 \/ s.loops >= MaxLoops THEN Failed(Counted(s))
             ELSE Planned(Components(CraftItem[n - 1], Counted(s), r, c), r, c)
<1> DEFINE Body(k, craft) ==
             [q \in Craftable |-> [count \in Nat |-> [run \in Runs |->
                IF ~run.ok \/ count = 0 THEN run
                ELSE IF k = 0 \/ run.loops >= MaxLoops THEN Failed(Counted(run))
                ELSE Planned(Components(craft, Counted(run), q, count), q, count)]]]
           Solves(g, m) ==
             /\ g = [k \in 0 .. m |-> g[k]]
             /\ \A k \in 0 .. m : g[k] = Body(k, g[k - 1])
           Solved == {m \in 0 .. MaxLoops : \E g : Solves(g, m)}
<1>0. MaxLoops \in Nat
  BY Numbers
<1>1. \A x, y : Body(0, x) = Body(0, y)
  OBVIOUS
<1>2. CraftItem = CHOOSE g : g = [k \in 0 .. MaxLoops |-> Body(k, g[k - 1])]
  BY DEF CraftItem
<1>3. \A k, craft : Body(k, craft)[r][c][s] =
        IF ~s.ok \/ c = 0 THEN s
        ELSE IF k = 0 \/ s.loops >= MaxLoops THEN Failed(Counted(s))
        ELSE Planned(Components(craft, Counted(s), r, c), r, c)
  OBVIOUS
<1> HIDE DEF Body
<1>4. 0 \in Solved
  <2> DEFINE h == [k \in 0 .. 0 |-> Body(0, 0)]
  <2>1. h = [k \in 0 .. 0 |-> h[k]] /\ h[0] = Body(0, 0) /\ \A k \in 0 .. 0 : k = 0
    OBVIOUS
  <2> HIDE DEF h
  <2>2. Solves(h, 0)
    BY <1>1, <2>1
  <2>3. 0 \in 0 .. MaxLoops
    BY <1>0
  <2> QED BY <2>2, <2>3
<1>5. ASSUME NEW m \in 0 .. (MaxLoops - 1), m \in Solved PROVE m + 1 \in Solved
  <2>1. PICK g : Solves(g, m)
    BY <1>5
  <2>3. \A j \in 0 .. m : g[j] = Body(j, g[j - 1])
    BY <2>1
  <2> DEFINE h == [k \in 0 .. (m + 1) |-> IF k <= m THEN g[k] ELSE Body(k, g[m])]
  <2>2. ASSUME NEW k \in 0 .. (m + 1) PROVE h[k] = Body(k, h[k - 1])
    <3>0. \A j \in 0 .. m : h[j] = g[j]
      BY <1>0
    <3>1. CASE k = 0
      <4>1. k \in 0 .. m
        BY <1>0, <3>1
      <4>2. h[k] = g[k] /\ g[k] = Body(k, g[k - 1])
        <5> HIDE DEF h
        <5> QED BY <2>3, <3>0, <4>1
      <4> HIDE DEF h
      <4> QED BY <1>1, <3>1, <4>2
    <3>2. CASE k # 0 /\ k <= m
      <4>1. k \in 0 .. m /\ k - 1 \in 0 .. m
        BY <1>0, <3>2
      <4> HIDE DEF h
      <4>2. h[k] = g[k] /\ h[k - 1] = g[k - 1]
        BY <3>0, <4>1
      <4>3. g[k] = Body(k, g[k - 1])
        BY <2>3, <4>1
      <4> QED BY <4>2, <4>3
    <3>3. CASE k = m + 1
      <4>1. h[k] = Body(k, g[m]) /\ h[k - 1] = g[m]
        BY <1>0, <3>3
      <4> HIDE DEF h
      <4> QED BY <4>1
    <3> QED BY <3>1, <3>2, <3>3
  <2>4. h = [k \in 0 .. (m + 1) |-> h[k]]
    OBVIOUS
  <2> HIDE DEF h
  <2>5. Solves(h, m + 1)
    BY <2>2, <2>4
  <2>6. m + 1 \in 0 .. MaxLoops
    BY <1>0
  <2> QED BY <2>5, <2>6
<1>6. MaxLoops \in Solved
  <2>1. \A m \in 0 .. (MaxLoops - 1) : m \in Solved => m + 1 \in Solved
    BY <1>5
  <2> HIDE DEF Solved
  <2>2. \A m \in 0 .. MaxLoops : m \in Solved
    BY <1>0, <1>4, <2>1, UpTo
  <2> QED BY <1>0, <2>2
<1>7. CraftItem = [k \in 0 .. MaxLoops |-> Body(k, CraftItem[k - 1])]
  <2>1. PICK g : g = [k \in 0 .. MaxLoops |-> Body(k, g[k - 1])]
    BY <1>6
  <2> QED BY <1>2, <2>1
<1>8. CraftItem[n] = Body(n, CraftItem[n - 1])
  BY <1>7
<1> QED BY <1>3, <1>8

\* craftItem does what its callers count on, however many calls are left.
LEMMA CraftItemCrafts ==
    ASSUME NEW n \in 0 .. MaxLoops
    PROVE  Crafts(n, CraftItem[n])
<1> DEFINE T == {k \in 0 .. MaxLoops : Crafts(k, CraftItem[k])}
<1>0. MaxLoops \in Nat /\ MaxAmount \in Nat
  BY Numbers
<1>1. ASSUME NEW k \in 0 .. MaxLoops, k = 0 \/ Crafts(k - 1, CraftItem[k - 1])
      PROVE  Crafts(k, CraftItem[k])
  <2> SUFFICES ASSUME NEW r \in Craftable, NEW c \in 0 .. MaxAmount, NEW s \in Runs
               PROVE  IF s.ok THEN Call(k, s, r, c, CraftItem[k][r][c][s])
                      ELSE CraftItem[k][r][c][s] = s
    BY DEF Crafts
  <2> DEFINE t == CraftItem[k][r][c][s]
  <2>1. /\ c \in Nat /\ k \in Nat /\ r \in Items /\ s.loops \in Nat
        /\ s.copy[r] \in Nat
    BY <1>0, Numbers, RunIs
  <2>2. t = IF ~s.ok \/ c = 0 THEN s
            ELSE IF k = 0 \/ s.loops >= MaxLoops THEN Failed(Counted(s))
            ELSE Planned(Components(CraftItem[k - 1], Counted(s), r, c), r, c)
    BY <2>1, CraftItemIs
  <2> HIDE DEF t
  <2>3. ASSUME ~s.ok PROVE t = s
    BY <2>2, <2>3
  <2>4. ASSUME s.ok, c = 0 PROVE Call(k, s, r, c, t)
    <3>1. t = s /\ s.copy[r] + c = s.copy[r]
      BY <2>1, <2>2, <2>4
    <3>2. Progress(k, s, s, NoItems, Only(r, s.copy[r] + c))
      BY <2>1, <2>4, Standstill
    <3> QED BY <3>1, <3>2 DEF Call
  <2>5. ASSUME s.ok, c # 0, k = 0 \/ s.loops >= MaxLoops PROVE Call(k, s, r, c, t)
    <3>1. t = Failed(Counted(s))
      BY <2>2, <2>5
    <3>2. t \in Runs /\ ~t.ok /\ t.loops = s.loops + 1
      <4> DEFINE e == Counted(s)
      <4>1. e = [s EXCEPT !.loops = @ + 1] /\ s.loops + 1 \in Nat
        BY <2>1 DEF Counted
      <4>2. e \in Runs /\ e.loops = s.loops + 1
        <5> HIDE DEF e
        <5> QED BY <4>1 DEF Runs
      <4>3. t = [e EXCEPT !.ok = FALSE]
        BY <3>1 DEF Failed
      <4> HIDE DEF e
      <4> QED BY <4>2, <4>3 DEF Runs
    <3>3. s.loops <= t.loops /\ (s.loops + k >= MaxLoops => t.loops > MaxLoops)
      BY <1>0, <2>1, <2>5, <3>2
    <3>4. Progress(k, s, t, NoItems, Only(r, s.copy[r] + c))
      BY <3>2, <3>3 DEF Progress
    <3> QED BY <3>2, <3>4 DEF Call
  <2>6. ASSUME s.ok, c # 0, k # 0, ~(s.loops >= MaxLoops) PROVE Call(k, s, r, c, t)
    <3>1. k \in Nat \ {0} /\ c \in 1 .. MaxAmount /\ s.loops < MaxLoops
      BY <1>0, <2>1, <2>6
    <3>2. t = Planned(Components(CraftItem[k - 1], Counted(s), r, c), r, c)
      BY <2>2, <2>6
    <3> QED BY <1>1, <2>6, <3>1, <3>2, CallIs
  <2> QED BY <2>3, <2>4, <2>5, <2>6 DEF t
<1>2. 0 \in T
  BY <1>0, <1>1
<1>3. ASSUME NEW k \in 0 .. (MaxLoops - 1), k \in T PROVE k + 1 \in T
  <2>1. k + 1 \in 0 .. MaxLoops /\ (k + 1) - 1 = k /\ Crafts(k, CraftItem[k])
    BY <1>0, <1>3
  <2>2. Crafts(k + 1, CraftItem[k + 1])
    BY <1>1, <2>1
  <2> QED BY <2>1, <2>2
<1>4. n \in T
  <2>1. \A k \in 0 .. (MaxLoops - 1) : k \in T => k + 1 \in T
    BY <1>3
  <2> HIDE DEF T
  <2>2. \A k \in 0 .. MaxLoops : k \in T
    BY <1>0, <1>2, <2>1, UpTo
  <2> QED BY <2>2
<1> QED BY <1>4

\* A plan is a run: what it leaves to do are makings.
LEMMA PlanIs ==
    ASSUME NEW b \in [Items -> Nat], NEW r \in Craftable, NEW count \in Nat
    PROVE  Plan(b, r, count) \in Runs
<1> DEFINE craft == CraftItem[MaxLoops][r][1]
           Round == [k \in 1 .. count |-> craft]
           I == [k \in 0 .. count |-> Runs]
<1>0. MaxLoops \in 0 .. MaxLoops /\ 1 \in 0 .. MaxAmount
  BY Numbers
<1>1. \A s \in Runs : craft[s] \in Runs
  BY <1>0, CraftItemCrafts DEF Crafts, Call, Progress
<1>2. Plan(b, r, count) = Repeat(Round, Run(b), count)
  BY DEF Plan
<1>3. \A k \in 1 .. count : Round[k] = craft
  OBVIOUS
<1> HIDE DEF craft, Round
<1>4. Run(b) \in I[0]
  BY DEF Run, Runs
<1>5. \A k \in 1 .. count : \A s \in I[k - 1] : Round[k][s] \in I[k]
  <2> SUFFICES ASSUME NEW k \in 1 .. count, NEW s \in I[k - 1] PROVE Round[k][s] \in I[k]
    OBVIOUS
  <2>1. k - 1 \in 0 .. count /\ k \in 0 .. count
    OBVIOUS
  <2> QED BY <1>1, <1>3, <2>1
<1>6. Repeat(Round, Run(b), count) \in I[count]
  <2> HIDE DEF I
  <2> QED BY <1>4, <1>5, LoopInvariant
<1> QED BY <1>2, <1>6

\* A plan for one is a call of craftItem.
LEMMA PlanForOne ==
    ASSUME NEW b \in [Items -> Nat], NEW r \in Craftable
    PROVE  Call(MaxLoops, Run(b), r, 1, Plan(b, r, 1)) /\ Run(b) \in Runs
<1> DEFINE craft == CraftItem[MaxLoops][r][1]
           Round == [k \in 1 .. 1 |-> craft]
<1>0. MaxLoops \in 0 .. MaxLoops /\ 1 \in 0 .. MaxAmount
  BY Numbers
<1>1. Run(b) \in Runs /\ Run(b).ok
  BY DEF Run, Runs
<1>2. Plan(b, r, 1) = Repeat(Round, Run(b), 1)
  BY DEF Plan
<1>3. Round[1] = craft
  OBVIOUS
<1>4. Call(MaxLoops, Run(b), r, 1, craft[Run(b)])
  BY <1>0, <1>1, CraftItemCrafts DEF Crafts
<1> HIDE DEF craft, Round
<1>5. PICK x : /\ x[0] = Run(b)
               /\ \A k \in 1 .. 1 : x[k] = Round[k][x[k - 1]]
               /\ Repeat(Round, Run(b), 1) = x[1]
  <2>1. 1 \in Nat
    OBVIOUS
  <2> QED BY <2>1, RepeatIs
<1>6. x[1] = Round[1][x[0]]
  <2>1. 1 \in 1 .. 1 /\ 1 - 1 = 0
    OBVIOUS
  <2> QED BY <1>5, <2>1
<1> QED BY <1>1, <1>2, <1>3, <1>4, <1>5, <1>6

\* The plan for one of r succeeds exactly when there is a way to make one,
\* unless craftItem gives up at its limit: for every inventory.
THEOREM PlanIsExactFor ==
    ASSUME NEW b \in [Items -> Nat], NEW r \in Craftable, Plan(b, r, 1).loops <= MaxLoops
    PROVE  Plan(b, r, 1).ok <=> Feasible(r, b)
<1> DEFINE t == Plan(b, r, 1)
           s == Run(b)
<1>0. /\ MaxLoops \in Nat /\ MaxAmount \in Nat /\ r \in Items
      /\ MaxLoops * MaxAmount \in Nat /\ MaxAmount * MaxLoops = MaxLoops * MaxAmount
  BY Numbers, Multiples
<1>1. s \in Runs /\ s.copy = b /\ s.loops = 0
  BY PlanForOne DEF Run
<1>2. Call(MaxLoops, s, r, 1, t)
  BY PlanForOne
<1>3. t.loops <= MaxLoops
  OBVIOUS
<1> HIDE DEF s, t
<1>4. Progress(MaxLoops, s, t, NoItems, Only(r, b[r] + 1))
  BY <1>1, <1>2 DEF Call
<1>5. t \in Runs /\ t.loops \in Nat /\ \A i \in Items : b[i] \in Nat /\ t.copy[i] \in Nat
  BY <1>4, RunIs DEF Progress
<1>6. ASSUME t.ok PROVE Feasible(r, b)
  <2>1. PICK m \in [Craftable -> Nat] :
          /\ \A p \in Craftable : m[p] + MaxAmount * s.loops <= MaxAmount * t.loops
          /\ \A i \in Items : t.copy[i] = b[i] + Net(m, i) - NoItems[i]
    BY <1>1, <1>4, <1>6 DEF Progress, Accounts
  <2>2. ASSUME NEW p \in Craftable PROVE m[p] \in 0 .. MaxLoops * MaxAmount
    <3>1. /\ MaxAmount * t.loops <= MaxLoops * MaxAmount /\ MaxAmount * t.loops \in Nat
      BY <1>0, <1>3, <1>5, Multiples
    <3>2. MaxAmount * s.loops = 0
      BY <1>0, <1>1
    <3>3. m[p] \in Nat /\ m[p] + MaxAmount * s.loops <= MaxAmount * t.loops
      BY <2>1
    <3> QED BY <1>0, <3>1, <3>2, <3>3
  <2>3. ASSUME NEW i \in Items PROVE b[i] + Net(m, i) >= IF i = r THEN b[r] + 1 ELSE 0
    <3>1. t.copy[r] = b[r] + 1
      BY <1>1, <1>2, <1>6 DEF Call
    <3>2. t.copy[i] = b[i] + Net(m, i) - NoItems[i] /\ NoItems[i] = 0 /\ Net(m, i) \in Int
      BY <2>1, NetOfBoth DEF NoItems
    <3>3. b[i] + Net(m, i) = t.copy[i]
      BY <1>5, <3>2
    <3> QED BY <1>5, <3>1, <3>3
  <2> QED BY <2>2, <2>3 DEF Feasible
<1>7. ASSUME Feasible(r, b) PROVE t.ok
  <2> DEFINE wanted == Only(r, b[r] + 1)
  <2>1. wanted \in [Items -> Nat] /\ \A i \in Items : wanted[i] \in Nat /\ wanted[i] >= wanted[i]
    BY <1>0, <1>5 DEF Only
  <2>2. CanGet(b, wanted)
    <3>1. PICK m \in [Craftable -> 0 .. MaxLoops * MaxAmount] :
            \A i \in Items : b[i] + Net(m, i) >= IF i = r THEN b[r] + 1 ELSE 0
      BY <1>7 DEF Feasible
    <3>2. m \in [Craftable -> Nat]
      BY <1>0
    <3>3. \A i \in Items : b[i] + Net(m, i) >= wanted[i]
      BY <3>1 DEF Only
    <3> QED BY <3>2, <3>3 DEF CanGet
  <2>3. s.loops + MaxLoops >= MaxLoops
    BY <1>0, <1>1
  <2> HIDE DEF wanted
  <2>4. t.loops > MaxLoops \/ t.ok
    BY <1>1, <1>4, <2>1, <2>2, <2>3 DEF Progress, wanted
  <2> QED BY <1>0, <1>3, <1>5, <2>4
<1> QED BY <1>6, <1>7 DEF t

-----------------------------------------------------------------------------
(* What items are worth. *)

\* The recursive definition of Worth has a solution, because the components of a
\* recipe come before what is made of them; and worth is a natural number.
LEMMA WorthIs ==
    ASSUME NEW i \in Items
    PROVE  /\ Worth[i] \in Nat
           /\ i \in Craftable =>
                Worth[i] = SumTo([k \in 1 .. Len(Recipes[i]) |->
                                    Recipes[i][k].amount * Worth[Recipes[i][k].item]],
                                 Len(Recipes[i]))
<1> DEFINE Terms(j, w) == [k \in 1 .. Len(Recipes[j]) |-> Recipes[j][k].amount * w[Recipes[j][k].item]]
           Body(j, w) == IF j \notin Craftable THEN 1 ELSE SumTo(Terms(j, w), Len(Recipes[j]))
           Solves(w, m) ==
             /\ w = [j \in 1 .. m |-> w[j]]
             /\ \A j \in 1 .. m : w[j] = Body(j, w)
           Solved == {m \in 0 .. LastItem : \E w : Solves(w, m)}
<1>0. LastItem \in Nat /\ Items = 1 .. LastItem
  BY Numbers
<1>1. \A w, v : \A j \in Items :
        (\A q \in Items : q < j => w[q] = v[q]) => Body(j, w) = Body(j, v)
  <2> SUFFICES ASSUME NEW w, NEW v, NEW j \in Items, \A q \in Items : q < j => w[q] = v[q]
               PROVE  Body(j, w) = Body(j, v)
    OBVIOUS
  <2>1. CASE j \notin Craftable
    BY <2>1
  <2>2. CASE j \in Craftable
    <3>1. \A k \in 1 .. Len(Recipes[j]) : w[Recipes[j][k].item] = v[Recipes[j][k].item]
      BY <2>2, PartsAre
    <3>2. Terms(j, w) = Terms(j, v)
      BY <3>1
    <3> HIDE DEF Terms
    <3> QED BY <3>2
  <2> QED BY <2>1, <2>2
<1> HIDE DEF Body
<1>2. 0 \in Solved
  <2> DEFINE h == [j \in 1 .. 0 |-> 0]
  <2>1. h = [j \in 1 .. 0 |-> h[j]] /\ \A j \in 1 .. 0 : FALSE
    OBVIOUS
  <2> HIDE DEF h
  <2>2. Solves(h, 0)
    BY <2>1
  <2>3. 0 \in 0 .. LastItem
    BY <1>0
  <2> QED BY <2>2, <2>3
<1>3. ASSUME NEW m \in 0 .. (LastItem - 1), m \in Solved PROVE m + 1 \in Solved
  <2>1. PICK w : Solves(w, m)
    BY <1>3
  <2>2. \A j \in 1 .. m : w[j] = Body(j, w)
    BY <2>1
  <2> DEFINE h == [j \in 1 .. (m + 1) |-> IF j <= m THEN w[j] ELSE Body(m + 1, w)]
  <2>3. h = [j \in 1 .. (m + 1) |-> h[j]]
    OBVIOUS
  <2>4. (\A j \in 1 .. m : h[j] = w[j]) /\ h[m + 1] = Body(m + 1, w)
    BY <1>0
  <2> HIDE DEF h
  <2>5. ASSUME NEW j \in 1 .. (m + 1) PROVE h[j] = Body(j, h)
    <3>1. j \in Items /\ \A q \in Items : q < j => q \in 1 .. m
      BY <1>0
    <3>2. \A q \in Items : q < j => h[q] = w[q]
      BY <2>4, <3>1
    <3>3. Body(j, h) = Body(j, w)
      BY <1>1, <3>1, <3>2
    <3>4. h[j] = Body(j, w)
      <4>1. j \in 1 .. m \/ j = m + 1
        BY <1>0
      <4> QED BY <2>2, <2>4, <4>1
    <3> QED BY <3>3, <3>4
  <2>6. Solves(h, m + 1)
    BY <2>3, <2>5
  <2>7. m + 1 \in 0 .. LastItem
    BY <1>0
  <2> QED BY <2>6, <2>7
<1>4. LastItem \in Solved
  <2>1. \A m \in 0 .. (LastItem - 1) : m \in Solved => m + 1 \in Solved
    BY <1>3
  <2> HIDE DEF Solved
  <2>2. \A m \in 0 .. LastItem : m \in Solved
    BY <1>0, <1>2, <2>1, UpTo
  <2> QED BY <1>0, <2>2
<1>5. \A j \in Items : Worth[j] = Body(j, Worth)
  <2>1. PICK w : w = [j \in Items |-> Body(j, w)]
    BY <1>0, <1>4
  <2>2. Worth = CHOOSE v : v = [j \in Items |-> Body(j, v)]
    BY DEF Worth, Body
  <2>3. Worth = [j \in Items |-> Body(j, Worth)]
    BY <2>1, <2>2
  <2> QED BY <2>3
<1> DEFINE T == {m \in 0 .. LastItem : \A j \in 1 .. m : Worth[j] \in Nat}
<1>6. ASSUME NEW m \in 0 .. (LastItem - 1), m \in T PROVE m + 1 \in T
  <2>1. m + 1 \in Items /\ m + 1 \in 0 .. LastItem
        /\ (\A q \in Items : q < m + 1 => q \in 1 .. m)
        /\ \A j \in 1 .. (m + 1) : j \in 1 .. m \/ j = m + 1
    BY <1>0
  <2>2. Worth[m + 1] \in Nat
    <3>1. CASE m + 1 \notin Craftable
      <4>1. Body(m + 1, Worth) = 1
        BY <3>1 DEF Body
      <4> QED BY <1>5, <2>1, <4>1
    <3>2. CASE m + 1 \in Craftable
      <4>1. \A k \in 1 .. Len(Recipes[m + 1]) :
              /\ Recipes[m + 1][k].amount \in Nat
              /\ Worth[Recipes[m + 1][k].item] \in Nat
        BY <1>6, <2>1, <3>2, PartsAre, Numbers
      <4>2. \A k \in 1 .. Len(Recipes[m + 1]) : Terms(m + 1, Worth)[k] \in Nat
        BY <4>1
      <4>3. Len(Recipes[m + 1]) \in Nat
        BY <3>2, PartsAre
      <4>4. Worth[m + 1] = SumTo(Terms(m + 1, Worth), Len(Recipes[m + 1]))
        BY <1>5, <2>1, <3>2 DEF Body
      <4> HIDE DEF Terms
      <4> QED BY <4>2, <4>3, <4>4, SumIsNat
    <3> QED BY <3>1, <3>2
  <2> QED BY <1>6, <2>1, <2>2
<1>7. Worth[i] \in Nat
  <2>1. 0 \in T /\ \A m \in 0 .. (LastItem - 1) : m \in T => m + 1 \in T
    BY <1>0, <1>6
  <2> HIDE DEF T
  <2>2. \A m \in 0 .. LastItem : m \in T
    BY <1>0, <2>1, UpTo
  <2>3. LastItem \in T
    BY <1>0, <2>2
  <2> QED BY <1>0, <2>3 DEF T
<1>8. Worth[i] = Body(i, Worth)
  BY <1>5
<1> QED BY <1>7, <1>8 DEF Body

\* The value of an inventory is a number ...
LEMMA ValueIs ==
    ASSUME NEW b \in [Items -> Nat]
    PROVE  Value(b) \in Nat
<1> DEFINE f == [i \in Items |-> b[i] * Worth[i]]
<1>1. LastItem \in Nat /\ Items = 1 .. LastItem
  BY Numbers
<1>2. \A i \in 1 .. LastItem : f[i] \in Nat
  <2> SUFFICES ASSUME NEW i \in Items PROVE f[i] \in Nat
    BY <1>1
  <2>1. b[i] \in Nat /\ Worth[i] \in Nat
    BY WorthIs
  <2>2. b[i] * Worth[i] \in Nat
    BY <2>1, Multiples
  <2> QED BY <2>2
<1>3. Value(b) = SumTo(f, LastItem)
  BY DEF Value
<1> HIDE DEF f
<1> QED BY <1>1, <1>2, <1>3, SumIsNat

\* ... and changes by the worth of what comes or goes.
LEMMA ValueChanges ==
    ASSUME NEW b \in [Items -> Nat], NEW less \in [Items -> Nat],
           NEW i \in Items, NEW n \in Nat, b[i] = less[i] + n,
           \A j \in Items : j # i => less[j] = b[j]
    PROVE  Value(b) = Value(less) + n * Worth[i]
<1> DEFINE f == [j \in Items |-> less[j] * Worth[j]]
           g == [j \in Items |-> b[j] * Worth[j]]
<1>1. LastItem \in Nat /\ Items = 1 .. LastItem
  BY Numbers
<1>2. \A j \in Items : Worth[j] \in Nat
  BY WorthIs
<1>3. \A j \in 1 .. LastItem : f[j] \in Nat /\ g[j] \in Nat /\ (j # i => g[j] = f[j])
  <2> SUFFICES ASSUME NEW j \in Items
               PROVE  f[j] \in Nat /\ g[j] \in Nat /\ (j # i => g[j] = f[j])
    BY <1>1
  <2>1. b[j] \in Nat /\ less[j] \in Nat /\ Worth[j] \in Nat
    BY <1>2
  <2>2. b[j] * Worth[j] \in Nat /\ less[j] * Worth[j] \in Nat
    BY <2>1, Multiples
  <2> QED BY <2>2
<1>4. g[i] = f[i] + n * Worth[i] /\ f[i] \in Nat /\ n * Worth[i] \in Nat
  <2>1. f[i] = less[i] * Worth[i] /\ g[i] = (less[i] + n) * Worth[i]
    OBVIOUS
  <2>2. less[i] \in Nat /\ Worth[i] \in Nat
    BY <1>2
  <2> HIDE DEF f, g
  <2> QED BY <2>1, <2>2
<1>5. Value(less) = SumTo(f, LastItem) /\ Value(b) = SumTo(g, LastItem)
  BY DEF Value
<1> HIDE DEF f, g
<1>6. SumTo(f, LastItem) \in Nat
  BY <1>1, <1>3, SumIsNat
<1>7. SumTo(g, LastItem) = SumTo(f, LastItem) - f[i] + g[i]
  <2>1. \A m \in Nat : \A x \in 1 .. m :
          (\A j \in 1 .. m : f[j] \in Nat /\ g[j] \in Nat /\ (j # x => g[j] = f[j]))
            => SumTo(g, m) = SumTo(f, m) - f[x] + g[x]
    BY SumChanges
  <2> QED BY <1>1, <1>3, <2>1
<1> QED BY <1>4, <1>5, <1>6, <1>7

-----------------------------------------------------------------------------
(* The makings in the inventory. *)

\* Taking the components of a making: if one is short, the inventory is worth
\* no more than before; if none is, it is worth less by what is made of them.
LEMMA TakenIs ==
    ASSUME NEW making \in Makings, bag \in [Items -> Nat]
    PROVE  /\ Taken(making) \in Runs
           /\ Value(Taken(making).copy) <= Value(bag)
           /\ Taken(making).ok =>
                Value(Taken(making).copy) + Worth[making.item] <= Value(bag)
<1> DEFINE r == making.item
           parts == Recipes[r]
           len == Len(parts)
           f == [k \in 1 .. len |-> parts[k].amount * Worth[parts[k].item]]
           Round == [k \in 1 .. len |-> [s \in Runs |->
                       Take(s, parts[k].item, parts[k].amount * making.count)]]
           I == [k \in 0 .. len |-> {s \in Runs :
                   /\ Value(s.copy) <= Value(bag)
                   /\ s.ok => Value(s.copy) + SumTo(f, k) <= Value(bag)}]
<1>1. r \in Craftable /\ r \in Items /\ making.count \in Nat \ {0} /\ len \in Nat
  BY PartsAre, Numbers DEF Makings
<1>2. \A k \in 1 .. len : parts[k].item \in Items /\ parts[k].amount \in Nat
  <2> SUFFICES ASSUME NEW k \in 1 .. len
               PROVE  parts[k].item \in Items /\ parts[k].amount \in Nat
    OBVIOUS
  <2>1. parts[k].item \in Items /\ parts[k].amount \in 1 .. MaxAmount
    BY <1>1, PartsAre
  <2> QED BY <2>1, Numbers
<1>3. \A k \in 1 .. len : f[k] = parts[k].amount * Worth[parts[k].item] /\ f[k] \in Nat
  <2> SUFFICES ASSUME NEW k \in 1 .. len
               PROVE  parts[k].amount * Worth[parts[k].item] \in Nat
    OBVIOUS
  <2>1. parts[k].amount \in Nat /\ Worth[parts[k].item] \in Nat
    BY <1>2, WorthIs
  <2> QED BY <2>1, Multiples
<1>4. \A k \in 1 .. len : \A s \in Runs :
        Round[k][s] = Take(s, parts[k].item, parts[k].amount * making.count)
  OBVIOUS
<1>5. Taken(making) = Repeat(Round, Run(bag), len)
  BY DEF Taken
<1>6. \A k \in 0 .. len : \A s :
        s \in I[k] <=> /\ s \in Runs /\ Value(s.copy) <= Value(bag)
                       /\ s.ok => Value(s.copy) + SumTo(f, k) <= Value(bag)
  OBVIOUS
<1>7. Worth[r] = SumTo(f, len)
  BY <1>1, WorthIs
<1>8. Value(bag) \in Nat
  BY ValueIs
<1> HIDE DEF f, Round, I, len, parts, r
<1>9. Run(bag) \in I[0]
  <2>1. 0 \in Nat /\ 0 \in 0 .. len /\ \A k \in 1 .. 0 : f[k] \in Nat
    BY <1>1
  <2>2. SumTo(f, 0) = 0
    BY <2>1, SumIsNat
  <2>3. Run(bag) \in Runs /\ Run(bag).copy = bag
    BY DEF Run, Runs
  <2>4. Value(bag) + 0 <= Value(bag) /\ Value(bag) <= Value(bag)
    BY <1>8
  <2> QED BY <1>6, <2>1, <2>2, <2>3, <2>4
<1>10. ASSUME NEW k \in 1 .. len, NEW s \in I[k - 1] PROVE Round[k][s] \in I[k]
  <2> DEFINE i == parts[k].item
             n == parts[k].amount * making.count
             t == Take(s, i, n)
  <2>1. k - 1 \in 0 .. len /\ k \in 0 .. len /\ k - 1 \in Nat /\ (k - 1) + 1 = k
    BY <1>1
  <2>2. /\ s \in Runs /\ Value(s.copy) <= Value(bag)
        /\ s.ok => Value(s.copy) + SumTo(f, k - 1) <= Value(bag)
    BY <1>6, <2>1
  <2>3. i \in Items /\ n \in Nat /\ parts[k].amount \in Nat /\ Worth[i] \in Nat
    <3>1. parts[k].item \in Items /\ parts[k].amount \in Nat /\ making.count \in Nat
      BY <1>1, <1>2
    <3>2. parts[k].amount * making.count \in Nat
      BY <3>1, Multiples
    <3>3. Worth[parts[k].item] \in Nat
      BY <3>1, WorthIs
    <3> QED BY <3>1, <3>2, <3>3
  <2>4. /\ t \in Runs
        /\ ~s.ok => t = s
        /\ s.ok => (t.ok <=> s.copy[i] >= n)
        /\ t.ok => \A j \in Items : t.copy[j] = s.copy[j] - Only(i, n)[j]
    <3> HIDE DEF i, n
    <3>1. s \in Runs /\ i \in Items /\ n \in Nat
      BY <2>2, <2>3
    <3> QED BY <3>1, TakingIs
  <2>5. Round[k][s] = t
    BY <1>4, <2>2
  <2> HIDE DEF i, n
  <2>6. s.ok /\ ~t.ok => t.copy = s.copy
    BY <2>2, <2>3, <2>4 DEF Take, Failed, Runs
  <2> HIDE DEF t
  <2>7. s.copy \in [Items -> Nat] /\ t.copy \in [Items -> Nat]
    BY <2>2, <2>4, RunIs
  <2>8. Value(s.copy) \in Nat /\ Value(t.copy) \in Nat
    BY <2>7, ValueIs
  <2>9. ASSUME t.ok, s.ok PROVE Value(t.copy) + SumTo(f, k) <= Value(bag) /\ Value(t.copy) <= Value(bag)
    <3>1. /\ s.copy[i] = t.copy[i] + n
          /\ \A j \in Items : j # i => t.copy[j] = s.copy[j]
      <4>1. \A j \in Items : /\ t.copy[j] = s.copy[j] - (IF j = i THEN n ELSE 0)
                             /\ t.copy[j] \in Nat /\ s.copy[j] \in Nat
        BY <2>4, <2>7, <2>9 DEF Only
      <4> QED BY <2>3, <4>1
    <3>2. Value(s.copy) = Value(t.copy) + n * Worth[i]
      BY <2>3, <2>7, <3>1, ValueChanges
    <3>3. n * Worth[i] >= f[k] /\ n * Worth[i] \in Nat
      <4>1. \A a, w \in Nat : \A c \in Nat \ {0} : (a * c) * w >= a * w /\ (a * c) * w \in Nat
        <5> SUFFICES ASSUME NEW a \in Nat, NEW w \in Nat, NEW c \in Nat \ {0}
                     PROVE  (a * c) * w >= a * w /\ (a * c) * w \in Nat
          OBVIOUS
        <5>1. /\ a * c \in Nat /\ a * w \in Nat /\ (a * c) * w = w * (a * c) /\ a * w = w * a
              /\ a * 1 = a
          BY Multiples
        <5>2. a <= a * c
          <6>1. 1 \in Nat /\ c \in Nat /\ 1 <= c
            OBVIOUS
          <6>2. a * 1 <= a * c
            BY <6>1, Multiples
          <6> QED BY <5>1, <6>2
        <5>3. w * a <= w * (a * c) /\ w * (a * c) \in Nat
          BY <5>1, <5>2, Multiples
        <5> QED BY <5>1, <5>3
      <4>2. n * Worth[i] >= parts[k].amount * Worth[i] /\ n * Worth[i] \in Nat
        BY <1>1, <2>3, <4>1 DEF n
      <4>3. f[k] = parts[k].amount * Worth[i]
        BY <1>3 DEF i
      <4> QED BY <4>2, <4>3
    <3>4. SumTo(f, k) = SumTo(f, k - 1) + f[k] /\ SumTo(f, k - 1) \in Nat /\ f[k] \in Nat
      <4>1. \A j \in 1 .. ((k - 1) + 1) : f[j] \in Nat
        BY <1>1, <1>3, <2>1
      <4>2. SumTo(f, (k - 1) + 1) = SumTo(f, k - 1) + f[(k - 1) + 1]
        BY <2>1, <4>1, SumStep
      <4>3. \A j \in 1 .. (k - 1) : f[j] \in Nat
        BY <1>1, <1>3
      <4> QED BY <1>3, <2>1, <4>2, <4>3, SumIsNat
    <3> QED BY <1>8, <2>2, <2>8, <2>9, <3>2, <3>3, <3>4
  <2>10. Value(t.copy) <= Value(bag) /\ (t.ok => Value(t.copy) + SumTo(f, k) <= Value(bag))
    <3>1. t.ok => s.ok
      BY <2>4
    <3>2. ~t.ok => t.copy = s.copy
      BY <2>4, <2>6
    <3> QED BY <2>2, <2>9, <3>1, <3>2
  <2> QED BY <1>6, <2>1, <2>4, <2>5, <2>10
<1>11. Repeat(Round, Run(bag), len) \in I[len]
  <2>1. \A k \in 1 .. len : \A s \in I[k - 1] : Round[k][s] \in I[k]
    BY <1>10
  <2> QED BY <1>1, <1>9, <2>1, LoopInvariant
<1>12. len \in 0 .. len
  BY <1>1
<1> QED BY <1>5, <1>6, <1>7, <1>11, <1>12 DEF r

-----------------------------------------------------------------------------
(* The steps. *)

\* The inductive invariant: the type invariant, and a manager that is not yet
\* created has nothing to do, so that nobody is "touched" before its request.
CraftInv ==
    /\ CraftTypeOK
    /\ \A m \in requests : todo[m] = <<>>

\* It holds at first.
LEMMA CraftInvInit == CraftInit => CraftInv
<1> SUFFICES ASSUME CraftInit PROVE CraftInv
  OBVIOUS
<1>1. bag \in [Items -> Nat]
  <2>1. Stock \in [Items -> Nat]
    BY CraftAssumption
  <2>2. UNION {0 .. Stock[i] : i \in Items} \subseteq Nat
    BY <2>1
  <2>3. bag \in [Items -> UNION {0 .. Stock[i] : i \in Items}]
    BY DEF CraftInit
  <2> QED BY <2>2, <2>3
<1>2. todo \in [Managers -> Seq(Makings)] /\ \A m \in requests : todo[m] = <<>>
  <2>1. <<>> \in Seq(Makings)
    OBVIOUS
  <2> QED BY <2>1 DEF CraftInit
<1> QED BY <1>1, <1>2 DEF CraftInit, CraftInv, CraftTypeOK

\* What a pending timer is about to make.
LEMMA MakingIs ==
    ASSUME CraftInv, NEW m \in Managers, timer = m
    PROVE  Head(todo[m]) \in Makings /\ Tail(todo[m]) \in Seq(Makings) /\ m \notin requests
<1>1. \A s \in Seq(Makings) : s # <<>> => Head(s) \in Makings /\ Tail(s) \in Seq(Makings)
  OBVIOUS
<1>2. todo[m] # <<>> /\ todo[m] \in Seq(Makings)
  BY CraftAssumption DEF CraftInv, CraftTypeOK
<1> QED BY <1>1, <1>2 DEF CraftInv

\* What a making leaves in the inventory is an inventory, and is worth no more.
LEMMA MakingKeepsValue ==
    ASSUME CraftInv, NEW m \in Managers, Make(m)
    PROVE  bag' \in [Items -> Nat] /\ Value(bag') <= Value(bag)
<1> DEFINE making == Head(todo[m])
           rest == Taken(making).copy
<1>1. making \in Makings /\ bag \in [Items -> Nat]
  BY MakingIs DEF Make, CraftInv, CraftTypeOK
<1>2. making.item \in Items
  BY <1>1, Numbers DEF Makings
<1>3. bag' = IF Taken(making).ok THEN Looted(rest, making) ELSE rest
  BY DEF Make, Suffices
<1> HIDE DEF making
<1>4. /\ Taken(making) \in Runs /\ Value(rest) <= Value(bag)
      /\ Taken(making).ok => Value(rest) + Worth[making.item] <= Value(bag)
  BY <1>1, TakenIs
<1>5. rest \in [Items -> Nat]
  BY <1>4, RunIs
<1> HIDE DEF rest
<1>6. CASE ~Taken(making).ok
  BY <1>3, <1>4, <1>5, <1>6
<1>7. CASE Taken(making).ok
  <2>1. bag' = [rest EXCEPT ![making.item] = @ + 1]
    BY <1>3, <1>7 DEF Looted
  <2>2. /\ bag' \in [Items -> Nat] /\ bag'[making.item] = rest[making.item] + 1
        /\ \A j \in Items : j # making.item => rest[j] = bag'[j]
    BY <1>2, <1>5, <2>1
  <2>3. \A b, less \in [Items -> Nat] : \A i \in Items : \A n \in Nat :
          b[i] = less[i] + n /\ (\A j \in Items : j # i => less[j] = b[j])
            => Value(b) = Value(less) + n * Worth[i]
    BY ValueChanges
  <2>4. Value(bag') = Value(rest) + 1 * Worth[making.item]
    <3>1. 1 \in Nat
      OBVIOUS
    <3> QED BY <1>2, <1>5, <2>2, <2>3, <3>1
  <2>5. 1 * Worth[making.item] = Worth[making.item]
    <3>1. Worth[making.item] \in Nat
      BY <1>2, WorthIs
    <3>2. \A w \in Nat : 1 * w = w
      OBVIOUS
    <3> QED BY <3>1, <3>2
  <2> QED BY <1>4, <1>7, <2>2, <2>4, <2>5
<1> QED BY <1>6, <1>7

\* Every step keeps the invariant.
LEMMA CraftInvNext == CraftInv /\ [CraftNext]_craftVars => CraftInv'
<1> SUFFICES ASSUME CraftInv, [CraftNext]_craftVars PROVE CraftInv'
  OBVIOUS
<1> USE DEF CraftInv, CraftTypeOK
<1>1. ASSUME NEW m \in Managers, NEW r \in Craftable, NEW count \in 1 .. MaxCount,
             CraftRequest(m, r, count)
      PROVE  CraftInv'
  <2>1. Plan(bag, r, count).makings \in Seq(Makings)
    <3>1. Plan(bag, r, count) \in Runs
      BY PlanIs
    <3> QED BY <3>1, RunIs
  <2> DEFINE plan == Plan(bag, r, count).makings
  <2>2. /\ m \in requests /\ requests' = requests \ {m}
        /\ todo' = [todo EXCEPT ![m] = plan]
        /\ timer' = IF todo'[m] = <<>> THEN timer ELSE m
        /\ bag' = bag /\ touched' = touched
    BY <1>1 DEF CraftRequest
  <2> HIDE DEF plan
  <2>3. todo' \in [Managers -> Seq(Makings)]
    BY <2>1, <2>2 DEF plan
  <2>4. \A n \in Managers : n # m => todo'[n] = todo[n]
    BY <2>2
  <2>5. timer' \in Managers \cup {NoManager} /\ (timer' # NoManager => todo'[timer'] # <<>>)
    <3>1. timer = m => todo[m] # <<>>
      BY CraftAssumption
    <3>2. todo[m] = <<>>
      BY <2>2
    <3> QED BY <2>2, <2>4, <3>1, <3>2
  <2> QED BY <2>2, <2>3, <2>4, <2>5
<1>2. ASSUME NEW m \in Managers, Make(m) PROVE CraftInv'
  <2> DEFINE left == IF Suffices(Head(todo[m])) THEN Tail(todo[m]) ELSE <<>>
  <2>1. /\ timer = m /\ requests' = requests
        /\ todo' = [todo EXCEPT ![m] = left]
        /\ timer' = IF todo'[m] = <<>> THEN NoManager ELSE m
        /\ touched' = touched \cup {n \in Managers \ {m} : todo[n] # <<>>}
    BY <1>2 DEF Make
  <2>2. left \in Seq(Makings) /\ m \notin requests
    BY <2>1, MakingIs
  <2> HIDE DEF left
  <2>3. todo' \in [Managers -> Seq(Makings)] /\ \A n \in Managers : n # m => todo'[n] = todo[n]
    BY <2>1, <2>2
  <2>4. touched' \subseteq Managers \ requests
    BY <2>1
  <2>5. bag' \in [Items -> Nat]
    BY <1>2, MakingKeepsValue
  <2> QED BY <2>1, <2>2, <2>3, <2>4, <2>5
<1>3. CASE TimerTaken
  BY <1>3 DEF TimerTaken
<1>4. ASSUME NEW i \in Items, ItemGoes(i) PROVE CraftInv'
  <2>1. bag[i] \in Nat /\ bag[i] > 0 /\ bag' = [bag EXCEPT ![i] = @ - 1]
    BY <1>4 DEF ItemGoes
  <2>2. bag' \in [Items -> Nat]
    BY <2>1
  <2> QED BY <1>4, <2>2 DEF ItemGoes
<1>5. CASE UNCHANGED craftVars
  BY <1>5 DEF craftVars
<1> QED BY <1>1, <1>2, <1>3, <1>4, <1>5 DEF CraftNext

\* A plan is exact for whatever is in the inventory.
LEMMA ExactFromInv == CraftInv => PlanIsExact
  BY PlanIsExactFor DEF CraftInv, CraftTypeOK, PlanIsExact

\* No step makes the inventory worth more.
LEMMA NoValueAdded ==
    ASSUME CraftInv, [CraftNext]_craftVars, bag' # bag
    PROVE  Value(bag') <= Value(bag)
<1>1. ASSUME NEW m \in Managers, Make(m) PROVE Value(bag') <= Value(bag)
  BY <1>1, MakingKeepsValue
<1>2. ASSUME NEW i \in Items, ItemGoes(i) PROVE Value(bag') <= Value(bag)
  <2>1. /\ bag \in [Items -> Nat] /\ bag[i] \in Nat /\ bag[i] > 0
        /\ bag' = [bag EXCEPT ![i] = @ - 1]
    BY <1>2 DEF ItemGoes, CraftInv, CraftTypeOK
  <2>2. bag' \in [Items -> Nat] /\ bag[i] = bag'[i] + 1 /\ \A j \in Items : j # i => bag'[j] = bag[j]
    BY <2>1
  <2>3. \A b, less \in [Items -> Nat] : \A n \in Nat :
          b[i] = less[i] + n /\ (\A j \in Items : j # i => less[j] = b[j])
            => Value(b) = Value(less) + n * Worth[i]
    BY ValueChanges
  <2>4. Value(bag) = Value(bag') + 1 * Worth[i]
    <3>1. 1 \in Nat
      OBVIOUS
    <3> QED BY <2>1, <2>2, <2>3, <3>1
  <2>5. Value(bag) \in Nat /\ Value(bag') \in Nat /\ 1 * Worth[i] \in Nat
    <3>1. 1 \in Nat /\ Worth[i] \in Nat
      BY WorthIs
    <3>2. 1 * Worth[i] \in Nat
      BY <3>1, Multiples
    <3> QED BY <2>1, <2>2, <3>2, ValueIs
  <2> QED BY <2>4, <2>5
<1> QED BY <1>1, <1>2 DEF CraftNext, craftVars, CraftRequest, TimerTaken

\* The invariant, of every behaviour.
LEMMA CraftInvAlways == CraftSpec => []CraftInv
<1> QED BY CraftInvInit, CraftInvNext, PTL DEF CraftSpec

\* Amounts stay natural numbers, plans are lists of makings, and a pending timer
\* has a making to do: the type invariant, whatever the requests do to one
\* another's inventory and timer.
THEOREM CraftTypes == CraftSpec => []CraftTypeOK
<1>1. CraftInv => CraftTypeOK
  BY DEF CraftInv
<1> QED BY <1>1, CraftInvAlways, PTL

\* craftItem's plan of one item is exact, whatever inventory it is made for.
THEOREM PlansAreExact == CraftSpec => []PlanIsExact
  BY ExactFromInv, CraftInvAlways, PTL

\* Crafting never creates value, in raw items.
THEOREM ValueNeverGrows == CraftSpec => NothingFromNothing
<1>1. CraftInv /\ [CraftNext]_craftVars => [bag' # bag => Value(bag') <= Value(bag)]_bag
  BY NoValueAdded
<1> QED BY <1>1, CraftInvAlways, PTL DEF CraftSpec, NothingFromNothing
=============================================================================
