----------------------------- MODULE OpkgProofs -----------------------------
(* What is proved of opkg, for every distribution and all commands.          *)
(*   - Versions: pkg_compare_versions computes the order it should, for all  *)
(*     strings; this is an order of the versions, and the candidate opkg     *)
(*     takes for a package is the last in it.                                *)
(*   - Order: opkg_recurse_pkgs_in_order ends, lists each package that is    *)
(*     there once, and where dependencies are not circular lists each after  *)
(*     what it needs.                                                        *)
(*   - Dependencies: pkg_hash_fetch_unsatisfied_dependencies ends, and finds *)
(*     what every package it adds depends on, unless it reports one lost.    *)
(*   - Types: the disk, the database and the calls of the process keep       *)
(*     their types, whatever fails, is interrupted or crashes.               *)
(* The recursive functions of the model are loops whose rank falls: the      *)
(* lemmas about Loop make them functions and give an induction over them.    *)
EXTENDS Opkg, ListLemmas

-----------------------------------------------------------------------------
(* Induction on the rank of the elements of a set: if G holds of each whose  *)
(* lower ones are all in G, then G has them all.                             *)
LEMMA RankInduction ==
  ASSUME NEW X, NEW rank \in [X -> Nat], NEW G,
         ASSUME NEW x \in X, \A y \in X : rank[y] < rank[x] => y \in G
         PROVE  x \in G
  PROVE  \A x \in X : x \in G
<1> DEFINE B == {rank[x] : x \in {y \in X : y \notin G}}
<1>1. SUFFICES ASSUME NEW x \in X, x \notin G PROVE FALSE
  OBVIOUS
<1>2. B \in SUBSET Nat /\ B # {}
  BY <1>1
<1>3. PICK m \in B : \A n \in B : m <= n
  <2> HIDE DEF B
  <2>1. QED BY <1>2, LeastNat
<1>4. PICK y \in X : y \notin G /\ rank[y] = m
  BY <1>3
<1>5. \A z \in X : rank[z] < rank[y] => z \in G
  <2>1. ASSUME NEW z \in X, rank[z] < rank[y], z \notin G PROVE FALSE
    <3>1. rank[z] \in B /\ rank[z] \in Nat /\ rank[y] \in Nat
      BY <2>1
    <3>2. m <= rank[z]
      BY <1>3, <3>1
    <3>3. QED BY <1>4, <2>1, <3>1, <3>2
  <2>2. QED BY <2>1
<1>6. QED BY <1>4, <1>5

-----------------------------------------------------------------------------
(* A loop: from each state x of X that is not in F it goes to next[x], of a  *)
(* lower rank; what it computes from what the rest of it computes is comb.   *)
Loop(f, D, F, res, next, comb) ==
  f = [x \in D |-> IF x \in F THEN res[x] ELSE comb[<<x, f[next[x]]>>]]

Below(X, rank, n) == {x \in X : rank[x] < n}

(* Two solutions agree where both are defined.                               *)
LEMMA LoopUnique ==
  ASSUME NEW X, NEW F, NEW res, NEW next \in [X -> X], NEW comb, NEW rank \in [X -> Nat],
         \A x \in X \ F : rank[next[x]] < rank[x],
         NEW n \in Nat, NEW k \in Nat, NEW f, NEW g,
         Loop(f, Below(X, rank, n), F, res, next, comb),
         Loop(g, Below(X, rank, k), F, res, next, comb)
  PROVE  \A x \in X : rank[x] < n /\ rank[x] < k => f[x] = g[x]
<1> DEFINE G == {x \in X : rank[x] < n /\ rank[x] < k => f[x] = g[x]}
<1>1. ASSUME NEW x \in X, \A y \in X : rank[y] < rank[x] => y \in G
      PROVE  x \in G
  <2>1. SUFFICES ASSUME rank[x] < n, rank[x] < k PROVE f[x] = g[x]
    OBVIOUS
  <2>2. x \in Below(X, rank, n) /\ x \in Below(X, rank, k)
    BY <2>1 DEF Below
  <2>3. /\ f[x] = (IF x \in F THEN res[x] ELSE comb[<<x, f[next[x]]>>])
        /\ g[x] = (IF x \in F THEN res[x] ELSE comb[<<x, g[next[x]]>>])
    BY <2>2 DEF Loop
  <2>4. CASE x \in F
    BY <2>3, <2>4
  <2>5. CASE x \notin F
    <3>1. next[x] \in X /\ rank[next[x]] < rank[x] /\ rank[next[x]] \in Nat /\ rank[x] \in Nat
      BY <2>5
    <3>2. rank[next[x]] < n /\ rank[next[x]] < k
      BY <2>1, <3>1
    <3>3. f[next[x]] = g[next[x]]
      BY <1>1, <3>1, <3>2
    <3>4. QED BY <2>3, <2>5, <3>3
  <2>6. QED BY <2>4, <2>5
<1>2. \A x \in X : x \in G
  <2> HIDE DEF G
  <2>1. QED BY <1>1, RankInduction
<1>3. QED BY <1>2

(* There is a solution on the states of a rank below n.                      *)
LEMMA LoopTo ==
  ASSUME NEW X, NEW F, NEW res, NEW next \in [X -> X], NEW comb, NEW rank \in [X -> Nat],
         \A x \in X \ F : rank[next[x]] < rank[x]
  PROVE  \A n \in Nat : \E f : Loop(f, Below(X, rank, n), F, res, next, comb)
<1> DEFINE G == {n \in Nat : \E f : Loop(f, Below(X, rank, n), F, res, next, comb)}
           id == [n \in Nat |-> n]
<1>1. ASSUME NEW n \in Nat, \A k \in Nat : id[k] < id[n] => k \in G
      PROVE  n \in G
  <2>1. CASE n = 0
    <3> DEFINE f == [x \in {} |-> 0]
    <3>1. Below(X, rank, n) = {}
      BY <2>1 DEF Below
    <3>2. f = [x \in Below(X, rank, n) |-> IF x \in F THEN res[x] ELSE comb[<<x, f[next[x]]>>]]
      BY <3>1
    <3>3. QED BY <3>2 DEF Loop
  <2>2. CASE n # 0
    <3>1. n - 1 \in Nat /\ id[n - 1] < id[n]
      BY <2>2
    <3>2. PICK g : Loop(g, Below(X, rank, n - 1), F, res, next, comb)
      BY <1>1, <3>1
    <3> DEFINE f == [x \in Below(X, rank, n) |->
                       IF x \in F THEN res[x] ELSE comb[<<x, g[next[x]]>>]]
    <3>3. ASSUME NEW x \in Below(X, rank, n), x \notin F
          PROVE  f[next[x]] = g[next[x]]
      <4>1. x \in X /\ rank[x] \in Nat /\ next[x] \in X /\ rank[next[x]] \in Nat
        BY DEF Below
      <4>2. rank[next[x]] < rank[x] /\ rank[x] < n
        BY <3>3, <4>1 DEF Below
      <4>3. next[x] \in Below(X, rank, n - 1) /\ next[x] \in Below(X, rank, n)
        BY <4>1, <4>2 DEF Below
      <4>4. g[next[x]] = (IF next[x] \in F THEN res[next[x]]
                          ELSE comb[<<next[x], g[next[next[x]]]>>])
        BY <3>2, <4>3 DEF Loop
      <4>5. f[next[x]] = (IF next[x] \in F THEN res[next[x]]
                          ELSE comb[<<next[x], g[next[next[x]]]>>])
        BY <4>3
      <4>6. QED BY <4>4, <4>5
    <3>4. f = [x \in Below(X, rank, n) |-> IF x \in F THEN res[x] ELSE comb[<<x, f[next[x]]>>]]
      BY <3>3
    <3>5. QED BY <3>4 DEF Loop
  <2>3. QED BY <2>1, <2>2
<1>2. \A n \in Nat : n \in G
  <2>1. id \in [Nat -> Nat]
    OBVIOUS
  <2> HIDE DEF G, id
  <2>2. QED BY <1>1, <2>1, RankInduction
<1>3. QED BY <1>2

(* There is a solution.                                                      *)
LEMMA LoopExists ==
  ASSUME NEW X, NEW F, NEW res, NEW next \in [X -> X], NEW comb, NEW rank \in [X -> Nat],
         \A x \in X \ F : rank[next[x]] < rank[x]
  PROVE  \E f : Loop(f, X, F, res, next, comb)
<1> DEFINE To(n) == CHOOSE f : Loop(f, Below(X, rank, n), F, res, next, comb)
           f == [x \in X |-> To(rank[x] + 1)[x]]
<1>1. \A n \in Nat : Loop(To(n), Below(X, rank, n), F, res, next, comb)
  BY LoopTo
<1>2. ASSUME NEW x \in X
      PROVE  f[x] = IF x \in F THEN res[x] ELSE comb[<<x, f[next[x]]>>]
  <2>1. rank[x] \in Nat /\ rank[x] + 1 \in Nat /\ x \in Below(X, rank, rank[x] + 1)
    BY DEF Below
  <2>2. To(rank[x] + 1)[x] = (IF x \in F THEN res[x]
                              ELSE comb[<<x, To(rank[x] + 1)[next[x]]>>])
    <3> HIDE DEF To
    <3>1. QED BY <1>1, <2>1 DEF Loop
  <2>3. CASE x \in F
    BY <2>2, <2>3
  <2>4. CASE x \notin F
    <3>1. /\ next[x] \in X /\ rank[next[x]] \in Nat /\ rank[next[x]] + 1 \in Nat
          /\ rank[next[x]] < rank[x] + 1 /\ rank[next[x]] < rank[next[x]] + 1
      BY <2>1, <2>4
    <3>2. To(rank[x] + 1)[next[x]] = To(rank[next[x]] + 1)[next[x]]
      <4> HIDE DEF To
      <4>1. QED BY <1>1, <2>1, <3>1, LoopUnique
    <3>3. f[next[x]] = To(rank[next[x]] + 1)[next[x]]
      BY <3>1
    <3>4. QED BY <2>2, <2>4, <3>2, <3>3
  <2>5. QED BY <2>3, <2>4
<1>3. f = [x \in X |-> IF x \in F THEN res[x] ELSE comb[<<x, f[next[x]]>>]]
  <2> DEFINE h == [x \in X |-> IF x \in F THEN res[x] ELSE comb[<<x, f[next[x]]>>]]
  <2>1. \A x \in X : f[x] = h[x]
    BY <1>2
  <2>2. QED BY <2>1
<1>4. QED BY <1>3 DEF Loop

(* The values of a solution are in V.                                        *)
LEMMA LoopTyped ==
  ASSUME NEW X, NEW V, NEW F, NEW res \in [X -> V], NEW next \in [X -> X],
         NEW comb \in [X \X V -> V], NEW rank \in [X -> Nat],
         \A x \in X \ F : rank[next[x]] < rank[x],
         NEW f, Loop(f, X, F, res, next, comb)
  PROVE  f \in [X -> V]
<1> DEFINE G == {x \in X : f[x] \in V}
<1>2. ASSUME NEW x \in X, \A y \in X : rank[y] < rank[x] => y \in G
      PROVE  x \in G
  <2>1. f[x] = IF x \in F THEN res[x] ELSE comb[<<x, f[next[x]]>>]
    BY DEF Loop
  <2>2. CASE x \in F
    BY <2>1, <2>2
  <2>3. CASE x \notin F
    <3>1. next[x] \in G
      BY <1>2, <2>3
    <3>2. <<x, f[next[x]]>> \in X \X V
      BY <3>1
    <3>3. QED BY <2>1, <2>3, <3>2
  <2>4. QED BY <2>2, <2>3
<1>3. \A x \in X : x \in G
  <2> HIDE DEF G
  <2>1. QED BY <1>2, RankInduction
<1>4. QED BY <1>3 DEF Loop

(* A loop that returns what the rest of it returns.                          *)
TailLoop(f, X, F, res, next) == f = [x \in X |-> IF x \in F THEN res[x] ELSE f[next[x]]]

(* Such a loop has a solution, and each solution has its values in V.        *)
LEMMA TailLoopExists ==
  ASSUME NEW X, NEW V, NEW F, NEW res \in [X -> V], NEW next \in [X -> X],
         NEW rank \in [X -> Nat],
         \A x \in X \ F : rank[next[x]] < rank[x]
  PROVE  /\ \E f : TailLoop(f, X, F, res, next)
         /\ \A f : TailLoop(f, X, F, res, next) => f \in [X -> V]
<1> DEFINE comb == [p \in X \X V |-> p[2]]
<1>1. comb \in [X \X V -> V]
  OBVIOUS
<1>2. PICK g : Loop(g, X, F, res, next, comb)
  <2> HIDE DEF comb
  <2>1. QED BY LoopExists
<1>3. g \in [X -> V]
  <2> HIDE DEF comb
  <2>1. QED BY <1>1, <1>2, LoopTyped
<1>4. ASSUME NEW x \in X PROVE g[x] = IF x \in F THEN res[x] ELSE g[next[x]]
  <2>1. g[x] = IF x \in F THEN res[x] ELSE comb[<<x, g[next[x]]>>]
    BY <1>2 DEF Loop
  <2>2. <<x, g[next[x]]>> \in X \X V
    BY <1>3
  <2>3. comb[<<x, g[next[x]]>>] = g[next[x]]
    BY <2>2
  <2> HIDE DEF comb
  <2>4. QED BY <2>1, <2>3
<1>5. TailLoop(g, X, F, res, next)
  <2> DEFINE h == [x \in X |-> IF x \in F THEN res[x] ELSE g[next[x]]]
  <2>1. \A x \in X : g[x] = h[x]
    BY <1>4
  <2>2. g = h
    BY <1>3, <2>1
  <2>3. QED BY <2>2 DEF TailLoop
<1>6. ASSUME NEW f, TailLoop(f, X, F, res, next) PROVE f \in [X -> V]
  <2> DEFINE G == {x \in X : f[x] \in V}
  <2>1. ASSUME NEW x \in X, \A y \in X : rank[y] < rank[x] => y \in G
        PROVE  x \in G
    <3>1. f[x] = IF x \in F THEN res[x] ELSE f[next[x]]
      BY <1>6 DEF TailLoop
    <3>2. x \notin F => next[x] \in G
      BY <2>1
    <3>3. QED BY <3>1, <3>2
  <2>2. \A x \in X : x \in G
    <3> HIDE DEF G
    <3>1. QED BY <2>1, RankInduction
  <2>3. QED BY <1>6, <2>2 DEF TailLoop
<1>7. QED BY <1>5, <1>6

-----------------------------------------------------------------------------
(* The functions of the comparison.                                          *)
LEMMA TextParts ==
  ASSUME NEW s \in Text, s # <<>>
  PROVE  /\ Head(s) \in Char /\ Tail(s) \in Text
         /\ Len(s) \in Nat \ {0} /\ Len(Tail(s)) = Len(s) - 1
BY DEF Text

(* The character a string begins with is 0 at its end only.                  *)
LEMMA At0Is ==
  ASSUME NEW s \in Text
  PROVE  /\ s = <<>> => At0(s) = 0
         /\ s # <<>> => At0(s) = Head(s) /\ At0(s) \in Char
         /\ At0(s) \in 0 .. 127
         /\ IsDigit(At0(s)) => s # <<>>
         /\ At0(s) = 48 => s # <<>>
         /\ NonDigit(s) <=> s # <<>> /\ ~IsDigit(At0(s))
         /\ Len(s) \in Nat /\ <<>> \in Text
<1>1. s # <<>> => Head(s) \in Char
  BY TextParts
<1>2. QED BY <1>1 DEF At0, IsDigit, NonDigit, Char, Text

(* The loop over the zeroes is the function its definition says it is.       *)
LEMMA SkipZeroesIs ==
  /\ SkipZeroes \in [Text -> Text]
  /\ \A s \in Text : SkipZeroes[s] = IF At0(s) = 48 THEN SkipZeroes[Tail(s)] ELSE s
<1> DEFINE F    == {s \in Text : At0(s) # 48}
           res  == [s \in Text |-> s]
           next == [s \in Text |-> IF At0(s) = 48 THEN Tail(s) ELSE s]
           rank == [s \in Text |-> Len(s)]
<1>1. ASSUME NEW s \in Text
      PROVE  /\ next[s] \in Text /\ rank[s] \in Nat
             /\ s \notin F => rank[next[s]] < rank[s]
  <2>1. CASE At0(s) = 48
    <3>1. Tail(s) \in Text /\ Len(s) \in Nat \ {0} /\ Len(Tail(s)) = Len(s) - 1
      BY <2>1, At0Is, TextParts
    <3>2. next[s] = Tail(s) /\ rank[s] = Len(s) /\ rank[Tail(s)] = Len(Tail(s))
      BY <2>1, <3>1
    <3> HIDE DEF next, rank
    <3>3. QED BY <3>1, <3>2
  <2>2. CASE At0(s) # 48
    BY <2>2, At0Is
  <2>3. QED BY <2>1, <2>2
<1>2. /\ \E f : TailLoop(f, Text, F, res, next)
      /\ \A f : TailLoop(f, Text, F, res, next) => f \in [Text -> Text]
  <2>1. res \in [Text -> Text] /\ next \in [Text -> Text] /\ rank \in [Text -> Nat]
    BY <1>1
  <2>2. \A s \in Text \ F : rank[next[s]] < rank[s]
    BY <1>1
  <2> HIDE DEF F, res, next, rank
  <2>3. QED BY <2>1, <2>2, TailLoopExists, Zenon
<1>3. ASSUME NEW f
      PROVE  TailLoop(f, Text, F, res, next)
               <=> f = [s \in Text |-> IF At0(s) = 48 THEN f[Tail(s)] ELSE s]
  <2> DEFINE g == [s \in Text |-> IF s \in F THEN res[s] ELSE f[next[s]]]
             h == [s \in Text |-> IF At0(s) = 48 THEN f[Tail(s)] ELSE s]
  <2>1. \A s \in Text : g[s] = h[s]
    OBVIOUS
  <2>2. g = h
    BY <2>1
  <2>3. QED BY <2>2 DEF TailLoop
<1>4. \E f : f = [s \in Text |-> IF At0(s) = 48 THEN f[Tail(s)] ELSE s]
  <2> HIDE DEF F, res, next
  <2>1. QED BY <1>2, <1>3
<1>5. SkipZeroes = [s \in Text |-> IF At0(s) = 48 THEN SkipZeroes[Tail(s)] ELSE s]
  BY <1>4, Zenon DEF SkipZeroes
<1>6. SkipZeroes \in [Text -> Text]
  <2> HIDE DEF F, res, next
  <2>1. QED BY <1>2, <1>3, <1>5
<1>7. QED BY <1>5, <1>6

(* The two strings and the difference, with their types.                     *)
LEMMA PointersParts ==
  ASSUME NEW at \in Pointers
  PROVE  at.val \in Text /\ at.ref \in Text /\ at.first_diff \in Int
BY DEF Pointers

(* Where both strings have a character, both pointers can be advanced.       *)
LEMMA AdvanceIs ==
  ASSUME NEW at \in Pointers, at.val # <<>>, at.ref # <<>>
  PROVE  /\ Advance(at) \in Pointers
         /\ Advance(at).val = Tail(at.val) /\ Advance(at).ref = Tail(at.ref)
         /\ Advance(at).first_diff = at.first_diff
<1>1. Tail(at.val) \in Text /\ Tail(at.ref) \in Text
  BY PointersParts, TextParts
<1>2. QED BY <1>1 DEF Advance, Pointers

(* The order of a character tells text from what is not.                     *)
LEMMA OrderIs ==
  ASSUME NEW s \in Text
  PROVE  /\ order(At0(s)) \in Int
         /\ NonDigit(s) => order(At0(s)) # 0 /\ order(At0(s)) = Rank(Head(s))
         /\ ~NonDigit(s) => order(At0(s)) = 0
<1>1. At0(s) \in 0 .. 127 /\ (s = <<>> => At0(s) = 0) /\ (s # <<>> => At0(s) = Head(s) /\ At0(s) \in Char)
      /\ (NonDigit(s) <=> s # <<>> /\ ~IsDigit(At0(s)))
  BY At0Is
<1> DEFINE c == At0(s)
<1>2. c \in 0 .. 127
  BY <1>1
<1>3. order(c) \in Int
  BY <1>2 DEF order, Tilde, IsDigit, IsAlpha
<1>4. c # 0 /\ ~IsDigit(c) => order(c) # 0 /\ order(c) = Rank(c)
  BY <1>2 DEF order, Rank, Tilde, IsDigit, IsAlpha
<1>5. c = 0 \/ IsDigit(c) => order(c) = 0
  BY <1>2 DEF order, Tilde, IsDigit, IsAlpha
<1> HIDE DEF c
<1>6. NonDigit(s) <=> c # 0 /\ ~IsDigit(c)
  <2>1. s # <<>> <=> c # 0
    <3>1. s = <<>> => c = 0
      BY <1>1 DEF c
    <3>2. s # <<>> => c \in 1 .. 127
      BY <1>1 DEF c, Char
    <3>3. 0 \notin 1 .. 127
      OBVIOUS
    <3>4. QED BY <3>1, <3>2, <3>3, Zenon
  <2>2. NonDigit(s) <=> s # <<>> /\ ~IsDigit(c)
    BY <1>1 DEF c
  <2>3. QED BY <2>1, <2>2
<1>7. NonDigit(s) => c = Head(s)
  BY <1>1 DEF c
<1>8. QED BY <1>3, <1>4, <1>5, <1>6, <1>7 DEF c

(* The text is skipped only where both strings have some.                    *)
SameText(at) ==
  (NonDigit(at.val) \/ NonDigit(at.ref)) /\ order(At0(at.val)) = order(At0(at.ref))

(* The text is skipped only where both strings have a character: no pointer  *)
(* is moved past the NUL.                                                    *)
LEMMA SameTextIs ==
  ASSUME NEW at \in Pointers, SameText(at)
  PROVE  NonDigit(at.val) /\ NonDigit(at.ref) /\ at.val # <<>> /\ at.ref # <<>>
<1>1. at.val \in Text /\ at.ref \in Text
  BY PointersParts
<1>2. NonDigit(at.val) /\ NonDigit(at.ref)
  BY <1>1, OrderIs DEF SameText
<1>3. QED BY <1>2 DEF NonDigit

(* The loop over the text is the function its definition says it is.         *)
LEMMA SkipTextIs ==
  /\ SkipText \in [Pointers -> Pointers]
  /\ \A at \in Pointers : SkipText[at] = IF SameText(at) THEN SkipText[Advance(at)] ELSE at
<1> DEFINE F    == {at \in Pointers : ~SameText(at)}
           res  == [at \in Pointers |-> at]
           next == [at \in Pointers |-> IF SameText(at) THEN Advance(at) ELSE at]
           rank == [at \in Pointers |-> Len(at.val)]
<1>1. ASSUME NEW at \in Pointers
      PROVE  /\ next[at] \in Pointers /\ rank[at] \in Nat
             /\ at \notin F => rank[next[at]] < rank[at]
  <2>1. Len(at.val) \in Nat
    BY PointersParts, At0Is
  <2>2. CASE SameText(at)
    <3>1. /\ Advance(at) \in Pointers /\ Advance(at).val = Tail(at.val)
          /\ Len(at.val) \in Nat \ {0} /\ Len(Tail(at.val)) = Len(at.val) - 1
      BY <2>2, SameTextIs, AdvanceIs, PointersParts, TextParts
    <3>2. next[at] = Advance(at) /\ rank[at] = Len(at.val) /\ rank[Advance(at)] = Len(Tail(at.val))
      BY <2>2, <3>1
    <3> HIDE DEF next, rank
    <3>3. QED BY <3>1, <3>2
  <2>3. CASE ~SameText(at)
    BY <2>1, <2>3
  <2>4. QED BY <2>2, <2>3
<1>2. /\ \E f : TailLoop(f, Pointers, F, res, next)
      /\ \A f : TailLoop(f, Pointers, F, res, next) => f \in [Pointers -> Pointers]
  <2>1. res \in [Pointers -> Pointers] /\ next \in [Pointers -> Pointers] /\ rank \in [Pointers -> Nat]
    BY <1>1
  <2>2. \A at \in Pointers \ F : rank[next[at]] < rank[at]
    BY <1>1
  <2> HIDE DEF F, res, next, rank
  <2>3. QED BY <2>1, <2>2, TailLoopExists, Zenon
<1>3. ASSUME NEW f
      PROVE  TailLoop(f, Pointers, F, res, next)
               <=> f = [at \in Pointers |-> IF SameText(at) THEN f[Advance(at)] ELSE at]
  <2> DEFINE g == [at \in Pointers |-> IF at \in F THEN res[at] ELSE f[next[at]]]
             h == [at \in Pointers |-> IF SameText(at) THEN f[Advance(at)] ELSE at]
  <2>1. \A at \in Pointers : g[at] = h[at]
    OBVIOUS
  <2>2. g = h
    BY <2>1
  <2>3. QED BY <2>2 DEF TailLoop
<1>4. \E f : f = [at \in Pointers |-> IF SameText(at) THEN f[Advance(at)] ELSE at]
  <2> HIDE DEF F, res, next
  <2>1. QED BY <1>2, <1>3
<1>5. SkipText = [at \in Pointers |-> IF SameText(at) THEN SkipText[Advance(at)] ELSE at]
  BY <1>4, Zenon DEF SkipText, SameText
<1>6. SkipText \in [Pointers -> Pointers]
  <2> HIDE DEF F, res, next
  <2>1. QED BY <1>2, <1>3, <1>5
<1>7. QED BY <1>5, <1>6

(* The numbers are read while both strings have a digit.                     *)
BothDigits(at) == IsDigit(At0(at.val)) /\ IsDigit(At0(at.ref))
NextDigits(at) ==
  [Advance(at) EXCEPT !.first_diff = IF @ = 0 THEN Head(at.val) - Head(at.ref) ELSE @]

(* One round of the loop over the digits: both strings have one.             *)
LEMMA NextDigitsIs ==
  ASSUME NEW at \in Pointers, BothDigits(at)
  PROVE  /\ NextDigits(at) \in Pointers /\ at.val # <<>> /\ at.ref # <<>>
         /\ NextDigits(at).val = Tail(at.val) /\ NextDigits(at).ref = Tail(at.ref)
         /\ NextDigits(at).first_diff = IF at.first_diff = 0 THEN Head(at.val) - Head(at.ref)
                                        ELSE at.first_diff
<1>1. at.val # <<>> /\ at.ref # <<>>
  BY PointersParts, At0Is DEF BothDigits
<1>2. /\ Advance(at) \in Pointers
      /\ Advance(at).val = Tail(at.val) /\ Advance(at).ref = Tail(at.ref)
      /\ Advance(at).first_diff = at.first_diff
  BY <1>1, AdvanceIs
<1>3. Head(at.val) - Head(at.ref) \in Int
  <2>1. Head(at.val) \in Char /\ Head(at.ref) \in Char
    BY <1>1, PointersParts, TextParts
  <2>2. \A c, d \in Char : c - d \in Int
    BY DEF Char
  <2>3. QED BY <2>1, <2>2
<1>4. QED BY <1>1, <1>2, <1>3 DEF NextDigits, Pointers

(* The loop over the digits is the function its definition says it is.       *)
LEMMA SkipDigitsIs ==
  /\ SkipDigits \in [Pointers -> Pointers]
  /\ \A at \in Pointers : SkipDigits[at] = IF BothDigits(at) THEN SkipDigits[NextDigits(at)] ELSE at
<1> DEFINE F    == {at \in Pointers : ~(BothDigits(at))}
           res  == [at \in Pointers |-> at]
           next == [at \in Pointers |-> IF BothDigits(at) THEN NextDigits(at) ELSE at]
           rank == [at \in Pointers |-> Len(at.val)]
<1>1. ASSUME NEW at \in Pointers
      PROVE  /\ next[at] \in Pointers /\ rank[at] \in Nat
             /\ at \notin F => rank[next[at]] < rank[at]
  <2>1. Len(at.val) \in Nat
    BY PointersParts, At0Is
  <2>2. CASE BothDigits(at)
    <3>1. /\ NextDigits(at) \in Pointers /\ NextDigits(at).val = Tail(at.val)
          /\ Len(at.val) \in Nat \ {0} /\ Len(Tail(at.val)) = Len(at.val) - 1
      BY <2>2, NextDigitsIs, PointersParts, TextParts
    <3>2. next[at] = NextDigits(at) /\ rank[at] = Len(at.val) /\ rank[NextDigits(at)] = Len(Tail(at.val))
      BY <2>2, <3>1
    <3> HIDE DEF next, rank
    <3>3. QED BY <3>1, <3>2
  <2>3. CASE ~BothDigits(at)
    BY <2>1, <2>3
  <2>4. QED BY <2>2, <2>3
<1>2. /\ \E f : TailLoop(f, Pointers, F, res, next)
      /\ \A f : TailLoop(f, Pointers, F, res, next) => f \in [Pointers -> Pointers]
  <2>1. res \in [Pointers -> Pointers] /\ next \in [Pointers -> Pointers] /\ rank \in [Pointers -> Nat]
    BY <1>1
  <2>2. \A at \in Pointers \ F : rank[next[at]] < rank[at]
    BY <1>1
  <2> HIDE DEF F, res, next, rank
  <2>3. QED BY <2>1, <2>2, TailLoopExists, Zenon
<1>3. ASSUME NEW f
      PROVE  TailLoop(f, Pointers, F, res, next)
               <=> f = [at \in Pointers |-> IF BothDigits(at) THEN f[NextDigits(at)] ELSE at]
  <2> DEFINE g == [at \in Pointers |-> IF at \in F THEN res[at] ELSE f[next[at]]]
             h == [at \in Pointers |-> IF BothDigits(at) THEN f[NextDigits(at)] ELSE at]
  <2>1. \A at \in Pointers : g[at] = h[at]
    OBVIOUS
  <2>2. g = h
    BY <2>1
  <2>3. QED BY <2>2 DEF TailLoop
<1>4. \E f : f = [at \in Pointers |-> IF BothDigits(at) THEN f[NextDigits(at)] ELSE at]
  <2> HIDE DEF F, res, next
  <2>1. QED BY <1>2, <1>3
<1>5. SkipDigits = [at \in Pointers |-> IF BothDigits(at) THEN SkipDigits[NextDigits(at)] ELSE at]
  BY <1>4, Zenon DEF SkipDigits, BothDigits, NextDigits
<1>6. SkipDigits \in [Pointers -> Pointers]
  <2> HIDE DEF F, res, next
  <2>1. QED BY <1>2, <1>3, <1>5
<1>7. QED BY <1>5, <1>6

(* One number, as the reference reads it.                                    *)
Reading == [text : Text, value : Nat]
NextDigit(at) == [text |-> Tail(at.text), value |-> 10 * at.value + Head(at.text) - 48]

(* Reading one digit.                                                        *)
LEMMA NextDigitIs ==
  ASSUME NEW at \in Reading, IsDigit(At0(at.text))
  PROVE  /\ NextDigit(at) \in Reading /\ at.text # <<>>
         /\ NextDigit(at).text = Tail(at.text)
         /\ NextDigit(at).value = 10 * at.value + Head(at.text) - 48
         /\ Head(at.text) \in 48 .. 57
<1>1. at.text \in Text /\ at.value \in Nat
  BY DEF Reading
<1>2. at.text # <<>> /\ At0(at.text) = Head(at.text) /\ Head(at.text) \in 48 .. 57
  BY <1>1, At0Is DEF IsDigit
<1>3. Tail(at.text) \in Text
  BY <1>1, <1>2, TextParts
<1>4. 10 * at.value + Head(at.text) - 48 \in Nat
  <2>1. \A n \in Nat : \A d \in 48 .. 57 : 10 * n + d - 48 \in Nat
    OBVIOUS
  <2>2. QED BY <1>1, <1>2, <2>1
<1>5. QED BY <1>2, <1>3, <1>4 DEF NextDigit, Reading

(* Reading a number is the function its definition says it is.               *)
LEMMA ReadNumberIs ==
  /\ ReadNumber \in [Reading -> Reading]
  /\ \A at \in Reading : ReadNumber[at] = IF IsDigit(At0(at.text)) THEN ReadNumber[NextDigit(at)] ELSE at
<1> DEFINE F    == {at \in Reading : ~(IsDigit(At0(at.text)))}
           res  == [at \in Reading |-> at]
           next == [at \in Reading |-> IF IsDigit(At0(at.text)) THEN NextDigit(at) ELSE at]
           rank == [at \in Reading |-> Len(at.text)]
<1>1. ASSUME NEW at \in Reading
      PROVE  /\ next[at] \in Reading /\ rank[at] \in Nat
             /\ at \notin F => rank[next[at]] < rank[at]
  <2>1. at.text \in Text /\ Len(at.text) \in Nat
    BY At0Is DEF Reading
  <2>2. CASE IsDigit(At0(at.text))
    <3>1. /\ NextDigit(at) \in Reading /\ NextDigit(at).text = Tail(at.text)
          /\ Len(at.text) \in Nat \ {0} /\ Len(Tail(at.text)) = Len(at.text) - 1
      BY <2>1, <2>2, NextDigitIs, TextParts
    <3>2. next[at] = NextDigit(at) /\ rank[at] = Len(at.text) /\ rank[NextDigit(at)] = Len(Tail(at.text))
      BY <2>2, <3>1
    <3> HIDE DEF next, rank
    <3>3. QED BY <3>1, <3>2
  <2>3. CASE ~IsDigit(At0(at.text))
    BY <2>1, <2>3
  <2>4. QED BY <2>2, <2>3
<1>2. /\ \E f : TailLoop(f, Reading, F, res, next)
      /\ \A f : TailLoop(f, Reading, F, res, next) => f \in [Reading -> Reading]
  <2>1. res \in [Reading -> Reading] /\ next \in [Reading -> Reading] /\ rank \in [Reading -> Nat]
    BY <1>1
  <2>2. \A at \in Reading \ F : rank[next[at]] < rank[at]
    BY <1>1
  <2> HIDE DEF F, res, next, rank
  <2>3. QED BY <2>1, <2>2, TailLoopExists, Zenon
<1>3. ASSUME NEW f
      PROVE  TailLoop(f, Reading, F, res, next)
               <=> f = [at \in Reading |-> IF IsDigit(At0(at.text)) THEN f[NextDigit(at)] ELSE at]
  <2> DEFINE g == [at \in Reading |-> IF at \in F THEN res[at] ELSE f[next[at]]]
             h == [at \in Reading |-> IF IsDigit(At0(at.text)) THEN f[NextDigit(at)] ELSE at]
  <2>1. \A at \in Reading : g[at] = h[at]
    OBVIOUS
  <2>2. g = h
    BY <2>1
  <2>3. QED BY <2>2 DEF TailLoop
<1>4. \E f : f = [at \in Reading |-> IF IsDigit(At0(at.text)) THEN f[NextDigit(at)] ELSE at]
  <2> HIDE DEF F, res, next
  <2>1. QED BY <1>2, <1>3
<1>5. ReadNumber = [at \in Reading |-> IF IsDigit(At0(at.text)) THEN ReadNumber[NextDigit(at)] ELSE at]
  BY <1>4, Zenon DEF ReadNumber, Reading, NextDigit
<1>6. ReadNumber \in [Reading -> Reading]
  <2> HIDE DEF F, res, next
  <2>1. QED BY <1>2, <1>3, <1>5
<1>7. QED BY <1>5, <1>6

(* What is read is shorter than what there was, and the value grows.         *)
ReadsOn(at) ==
  /\ Len(ReadNumber[at].text) <= Len(at.text)
  /\ ReadNumber[at].value >= at.value
  /\ ~IsDigit(At0(ReadNumber[at].text))

(* What reading a number leaves, by induction on the length of the text.     *)
LEMMA ReadNumberOn == \A at \in Reading : ReadsOn(at)
<1> DEFINE rank == [at \in Reading |-> Len(at.text)]
           G == {at \in Reading : ReadsOn(at)}
<1>1. rank \in [Reading -> Nat]
  BY At0Is DEF Reading
<1>2. ASSUME NEW at \in Reading, \A y \in Reading : rank[y] < rank[at] => y \in G
      PROVE  at \in G
  <2>1. at.text \in Text /\ at.value \in Nat /\ Len(at.text) \in Nat
    BY At0Is DEF Reading
  <2>2. CASE ~IsDigit(At0(at.text))
    <3>1. ReadNumber[at] = at
      BY <2>2, ReadNumberIs
    <3>2. QED BY <2>1, <2>2, <3>1 DEF ReadsOn
  <2>3. CASE IsDigit(At0(at.text))
    <3> DEFINE y == NextDigit(at)
    <3>1. /\ y \in Reading /\ y.text = Tail(at.text) /\ Len(y.text) = Len(at.text) - 1
          /\ y.value = 10 * at.value + Head(at.text) - 48 /\ Head(at.text) \in 48 .. 57
      BY <2>1, <2>3, NextDigitIs, TextParts
    <3>2. ReadNumber[at] = ReadNumber[y]
      BY <2>3, ReadNumberIs
    <3> HIDE DEF y
    <3>3. rank[y] < rank[at]
      <4>1. rank[y] = Len(y.text) /\ rank[at] = Len(at.text)
        BY <3>1
      <4> HIDE DEF rank
      <4>2. QED BY <2>1, <3>1, <4>1
    <3>4. ReadsOn(y)
      BY <1>2, <3>1, <3>3
    <3>5. y.value >= at.value
      <4>1. \A n \in Nat : \A d \in 48 .. 57 : 10 * n + d - 48 >= n
        OBVIOUS
      <4>2. QED BY <2>1, <3>1, <4>1
    <3>6. ReadNumber[y] \in Reading
      BY <3>1, ReadNumberIs
    <3>7. Len(ReadNumber[y].text) \in Nat /\ ReadNumber[y].value \in Nat /\ y.value \in Nat
      BY <3>1, <3>6, At0Is DEF Reading
    <3>8. Len(ReadNumber[at].text) <= Len(at.text)
      BY <2>1, <3>1, <3>2, <3>4, <3>7 DEF ReadsOn
    <3>9. ReadNumber[at].value >= at.value
      BY <2>1, <3>2, <3>4, <3>5, <3>7 DEF ReadsOn
    <3>10. QED BY <3>2, <3>4, <3>8, <3>9 DEF ReadsOn
  <2>4. QED BY <2>2, <2>3
<1>3. \A at \in Reading : at \in G
  <2> HIDE DEF G, rank
  <2>1. QED BY <1>1, <1>2, RankInduction
<1>4. QED BY <1>3

(* A number is read to its last digit; a text without one is left as it is.  *)
LEMMA NumberIs ==
  ASSUME NEW s \in Text
  PROVE  /\ Number(s).text \in Text /\ Number(s).value \in Nat
         /\ ~IsDigit(At0(Number(s).text))
         /\ Len(Number(s).text) <= Len(s)
         /\ IsDigit(At0(s)) => Len(Number(s).text) < Len(s)
         /\ ~IsDigit(At0(s)) => Number(s).text = s /\ Number(s).value = 0
<1> DEFINE at == [text |-> s, value |-> 0]
<1>1. at \in Reading /\ at.text = s /\ at.value = 0 /\ Number(s) = ReadNumber[at]
  BY DEF Reading, Number
<1> HIDE DEF at
<1>2. ReadNumber[at] \in Reading /\ ReadsOn(at)
  BY <1>1, ReadNumberIs, ReadNumberOn
<1>3. ASSUME IsDigit(At0(s)) PROVE Len(Number(s).text) < Len(s)
  <2> DEFINE y == NextDigit(at)
  <2>1. y \in Reading /\ Len(y.text) = Len(s) - 1 /\ Len(s) \in Nat
    BY <1>1, <1>3, NextDigitIs, TextParts
  <2>2. ReadNumber[at] = ReadNumber[y]
    BY <1>1, <1>3, ReadNumberIs
  <2> HIDE DEF y
  <2>3. ReadsOn(y) /\ ReadNumber[y].text \in Text
    BY <2>1, ReadNumberOn, ReadNumberIs DEF Reading
  <2>4. Len(ReadNumber[y].text) <= Len(y.text) /\ Len(ReadNumber[y].text) \in Nat
    BY <2>3, At0Is DEF ReadsOn
  <2>5. QED BY <1>1, <2>1, <2>2, <2>4
<1>4. ASSUME ~IsDigit(At0(s)) PROVE Number(s).text = s /\ Number(s).value = 0
  BY <1>1, <1>4, ReadNumberIs
<1>5. QED BY <1>1, <1>2, <1>3, <1>4 DEF ReadsOn, Reading

(* The weights of a string: those of what it begins with, and of the rest.   *)
Begins(s) == IF IsDigit(Head(s)) THEN <<0, Number(s).value>> ELSE <<Rank(Head(s))>>
After(s) == IF IsDigit(Head(s)) THEN Number(s).text ELSE Tail(s)

(* What a string begins with has weights, and the rest is shorter.           *)
LEMMA BeginsIs ==
  ASSUME NEW s \in Text, s # <<>>
  PROVE  /\ Begins(s) \in Seq(Int) /\ After(s) \in Text /\ Len(After(s)) < Len(s)
<1>1. Head(s) \in Char /\ Tail(s) \in Text /\ Len(s) \in Nat /\ Len(Tail(s)) = Len(s) - 1
  BY TextParts
<1>2. At0(s) = Head(s)
  BY At0Is
<1>3. /\ Number(s).text \in Text /\ Number(s).value \in Int
      /\ IsDigit(Head(s)) => Len(Number(s).text) < Len(s)
  BY <1>2, NumberIs
<1>4. Rank(Head(s)) \in Int
  <2>1. \A c \in Char : Rank(c) \in Int
    BY DEF Rank, Char, IsAlpha, Tilde
  <2>2. QED BY <1>1, <2>1
<1>5. Begins(s) \in Seq(Int)
  BY <1>3, <1>4 DEF Begins
<1>6. After(s) \in Text /\ Len(After(s)) < Len(s)
  BY <1>1, <1>3 DEF After
<1>7. QED BY <1>5, <1>6

(* The weights of a string are the function their definition says they are.  *)
LEMMA WeightsIs ==
  /\ Weights \in [Text -> Seq(Int)]
  /\ \A s \in Text : Weights[s] = IF s = <<>> THEN <<>> ELSE Begins(s) \o Weights[After(s)]
<1> DEFINE F    == {<<>>}
           res  == [s \in Text |-> <<>>]
           next == [s \in Text |-> IF s = <<>> THEN s ELSE After(s)]
           comb == [p \in Text \X Seq(Int) |-> IF p[1] = <<>> THEN <<>> ELSE Begins(p[1]) \o p[2]]
           rank == [s \in Text |-> Len(s)]
<1>1. ASSUME NEW s \in Text
      PROVE  /\ next[s] \in Text /\ rank[s] \in Nat
             /\ s \notin F => rank[next[s]] < rank[s]
  <2>1. CASE s = <<>>
    BY <2>1, At0Is
  <2>2. CASE s # <<>>
    <3>1. After(s) \in Text /\ Len(After(s)) < Len(s) /\ Len(s) \in Nat
      BY <2>2, BeginsIs, At0Is
    <3>2. next[s] = After(s) /\ rank[s] = Len(s) /\ rank[After(s)] = Len(After(s))
      BY <2>2, <3>1
    <3> HIDE DEF next, rank
    <3>3. QED BY <3>1, <3>2
  <2>3. QED BY <2>1, <2>2
<1>2. next \in [Text -> Text] /\ rank \in [Text -> Nat] /\ \A s \in Text \ F : rank[next[s]] < rank[s]
  BY <1>1
<1>3. res \in [Text -> Seq(Int)]
  OBVIOUS
<1>4. comb \in [Text \X Seq(Int) -> Seq(Int)]
  <2>1. ASSUME NEW p \in Text \X Seq(Int)
        PROVE  (IF p[1] = <<>> THEN <<>> ELSE Begins(p[1]) \o p[2]) \in Seq(Int)
    <3>1. p[1] \in Text /\ p[2] \in Seq(Int)
      OBVIOUS
    <3>2. p[1] # <<>> => Begins(p[1]) \in Seq(Int)
      BY <3>1, BeginsIs
    <3>3. QED BY <3>1, <3>2
  <2>2. QED BY <2>1
<1>5. /\ \E f : Loop(f, Text, F, res, next, comb)
      /\ \A f : Loop(f, Text, F, res, next, comb) => f \in [Text -> Seq(Int)]
  <2> HIDE DEF F, res, next, comb, rank
  <2>1. \E f : Loop(f, Text, F, res, next, comb)
    BY <1>2, LoopExists, Zenon
  <2>2. \A f : Loop(f, Text, F, res, next, comb) => f \in [Text -> Seq(Int)]
    BY <1>2, <1>3, <1>4, LoopTyped, Zenon
  <2>3. QED BY <2>1, <2>2
<1> DEFINE W(f) == [s \in Text |-> IF s = <<>> THEN <<>> ELSE Begins(s) \o f[After(s)]]
<1>6. ASSUME NEW f \in [Text -> Seq(Int)]
      PROVE  Loop(f, Text, F, res, next, comb) <=> f = W(f)
  <2> DEFINE g == [s \in Text |-> IF s \in F THEN res[s] ELSE comb[<<s, f[next[s]]>>]]
  <2>1. ASSUME NEW s \in Text PROVE g[s] = W(f)[s]
    <3>1. CASE s = <<>>
      BY <3>1
    <3>2. CASE s # <<>>
      <4>1. next[s] = After(s) /\ After(s) \in Text
        BY <3>2, BeginsIs
      <4>2. <<s, f[After(s)]>> \in Text \X Seq(Int)
        BY <4>1
      <4>3. comb[<<s, f[After(s)]>>] = Begins(s) \o f[After(s)]
        BY <3>2, <4>2
      <4>4. g[s] = comb[<<s, f[next[s]]>>]
        BY <3>2
      <4> HIDE DEF g, comb, next
      <4>5. QED BY <3>2, <4>1, <4>3, <4>4
    <3>3. QED BY <3>1, <3>2
  <2>2. g = W(f)
    BY <2>1
  <2>3. QED BY <2>2 DEF Loop
<1>7. \E f \in [Text -> Seq(Int)] : f = W(f)
  <2> HIDE DEF F, res, next, comb, W
  <2>1. QED BY <1>5, <1>6
<1>8. ASSUME NEW f, f = W(f) PROVE f \in [Text -> Seq(Int)]
  <2> DEFINE G == {s \in Text : f[s] \in Seq(Int)}
  <2>1. ASSUME NEW s \in Text, \A t \in Text : rank[t] < rank[s] => t \in G
        PROVE  s \in G
    <3>1. f[s] = IF s = <<>> THEN <<>> ELSE Begins(s) \o f[After(s)]
      BY <1>8
    <3>2. CASE s = <<>>
      <4>1. f[s] = <<>>
        BY <3>1, <3>2, Zenon
      <4>2. <<>> \in Seq(Int)
        OBVIOUS
      <4>3. f[s] \in Seq(Int)
        BY <4>1, <4>2, Zenon
      <4> HIDE DEF rank, W, next, res, comb, F
      <4>4. QED BY <4>3
    <3>3. CASE s # <<>>
      <4>1. After(s) \in Text /\ Begins(s) \in Seq(Int) /\ Len(After(s)) < Len(s)
        BY <3>3, BeginsIs
      <4>2. rank[After(s)] = Len(After(s)) /\ rank[s] = Len(s)
        BY <4>1
      <4>3. f[After(s)] \in Seq(Int)
        BY <2>1, <4>1, <4>2
      <4>4. Begins(s) \o f[After(s)] \in Seq(Int)
        BY <4>1, <4>3
      <4>5. QED BY <3>1, <3>3, <4>4
    <3>4. QED BY <3>2, <3>3
  <2>2. \A s \in Text : s \in G
    <3> HIDE DEF G, rank
    <3>1. QED BY <1>2, <2>1, RankInduction
  <2>3. QED BY <1>8, <2>2
<1> DEFINE V(f) == [s \in Text |-> IF s = <<>> THEN <<>>
                                  ELSE IF IsDigit(Head(s))
                                       THEN <<0, Number(s).value>> \o f[Number(s).text]
                                       ELSE <<Rank(Head(s))>> \o f[Tail(s)]]
<1>9. ASSUME NEW f PROVE V(f) = W(f)
  <2>1. ASSUME NEW s \in Text PROVE V(f)[s] = W(f)[s]
    <3>1. CASE s = <<>>
      BY <3>1
    <3>2. CASE s # <<>> /\ IsDigit(Head(s))
      BY <3>2 DEF Begins, After
    <3>3. CASE s # <<>> /\ ~IsDigit(Head(s))
      BY <3>3 DEF Begins, After
    <3>4. QED BY <3>1, <3>2, <3>3
  <2>2. QED BY <2>1
<1>10. Weights = V(Weights)
  <2>1. \E f : f = V(f)
    <3> HIDE DEF V, W
    <3>1. QED BY <1>7, <1>9
  <2>2. QED BY <2>1, Zenon DEF Weights
<1>11. Weights = W(Weights)
  <2> HIDE DEF V, W
  <2>1. QED BY <1>9, <1>10
<1>12. Weights \in [Text -> Seq(Int)]
  <2> HIDE DEF W
  <2>1. QED BY <1>8, <1>11
<1>13. QED BY <1>11, <1>12

-----------------------------------------------------------------------------
(* The first difference of two lists of weights, the shorter continued with  *)
(* 0s.                                                                       *)
LEMMA WeightIs ==
  ASSUME NEW v \in Seq(Int), NEW i \in Nat \ {0}
  PROVE  Weight(v, i) \in Int /\ Len(v) \in Nat /\ (i > Len(v) => Weight(v, i) = 0)
<1>1. Len(v) \in Nat
  OBVIOUS
<1>2. CASE i <= Len(v)
  BY <1>1, <1>2 DEF Weight
<1>3. CASE ~(i <= Len(v))
  BY <1>1, <1>3 DEF Weight
<1>4. QED BY <1>1, <1>2, <1>3

(* Lists that have the same weights everywhere have no difference.           *)
LEMMA NoDifference ==
  ASSUME NEW v, NEW w, \A i \in Nat \ {0} : Weight(v, i) = Weight(w, i)
  PROVE  FirstDifference(v, w) = 0
<1> DEFINE D == {i \in 1..(Len(v) + Len(w)) : Weight(v, i) # Weight(w, i)}
<1>1. D = {}
  OBVIOUS
<1> HIDE DEF D
<1>2. QED BY <1>1 DEF FirstDifference, D

(* The first difference is where the weights before it are the same.         *)
LEMMA DifferenceAt ==
  ASSUME NEW v \in Seq(Int), NEW w \in Seq(Int), NEW i \in Nat \ {0},
         Weight(v, i) # Weight(w, i),
         \A j \in 1 .. i - 1 : Weight(v, j) = Weight(w, j)
  PROVE  FirstDifference(v, w) = Sign(Weight(v, i) - Weight(w, i))
<1> DEFINE D == {j \in 1..(Len(v) + Len(w)) : Weight(v, j) # Weight(w, j)}
<1>1. i \in D
  <2>1. Len(v) \in Nat /\ Len(w) \in Nat
    OBVIOUS
  <2>2. i <= Len(v) + Len(w)
    <3>1. SUFFICES ASSUME i > Len(v) + Len(w) PROVE FALSE
      BY <2>1
    <3>2. Weight(v, i) = 0 /\ Weight(w, i) = 0
      BY <2>1, <3>1, WeightIs
    <3>3. QED BY <3>2
  <2>3. QED BY <2>1, <2>2
<1>2. \A j \in D : i <= j /\ j \in Int
  <2>1. ASSUME NEW j \in D PROVE i <= j /\ j \in Int
    <3>1. j \in Nat \ {0} /\ Weight(v, j) # Weight(w, j)
      OBVIOUS
    <3> HIDE DEF D
    <3>2. QED BY <3>1
  <2>2. QED BY <2>1
<1>3. (CHOOSE k \in D : \A j \in D : k <= j) = i
  <2> DEFINE m == CHOOSE k \in D : \A j \in D : k <= j
  <2> HIDE DEF D
  <2>1. m \in D /\ \A j \in D : m <= j
    BY <1>1, <1>2
  <2> HIDE DEF m
  <2>2. m <= i /\ i <= m /\ m \in Int
    BY <1>1, <1>2, <2>1
  <2>3. m = i
    BY <2>2
  <2>4. QED BY <2>3 DEF m
<1>4. D # {}
  BY <1>1
<1>5. FirstDifference(v, w) = IF D = {} THEN 0
        ELSE LET k == CHOOSE k \in D : \A j \in D : k <= j
             IN  Sign(Weight(v, k) - Weight(w, k))
  BY DEF FirstDifference
<1> HIDE DEF D
<1>6. QED BY <1>3, <1>4, <1>5, Zenon

(* There is none, or there is a first one.                                   *)
Same(v, w) == \A i \in Nat \ {0} : Weight(v, i) = Weight(w, i)
Differ(v, w, i) == Weight(v, i) # Weight(w, i) /\ \A j \in 1 .. i - 1 : Weight(v, j) = Weight(w, j)

(* Two lists are the same or have a first difference.                        *)
LEMMA SameOrDiffer ==
  ASSUME NEW v, NEW w, ~Same(v, w)
  PROVE  \E i \in Nat \ {0} : Differ(v, w, i)
<1> DEFINE D == {i \in Nat \ {0} : Weight(v, i) # Weight(w, i)}
<1>1. D # {} /\ D \in SUBSET Nat
  BY DEF Same
<1>2. PICK i \in D : \A j \in D : i <= j
  <2> HIDE DEF D
  <2>1. QED BY <1>1, LeastNat
<1>3. ASSUME NEW j \in 1 .. i - 1, Weight(v, j) # Weight(w, j) PROVE FALSE
  <2>1. j \in D /\ i \in Nat /\ j < i
    BY <1>3
  <2>2. i <= j
    BY <1>2, <2>1
  <2>3. QED BY <2>1, <2>2
<1>4. QED BY <1>2, <1>3 DEF Differ

(* What is left of the weights after the first one.                          *)
Onward(w) == IF w = <<>> THEN <<>> ELSE Tail(w)

(* The weights after the first one are those of the rest.                    *)
LEMMA OnwardIs ==
  ASSUME NEW w \in Seq(Int)
  PROVE  Onward(w) \in Seq(Int) /\ \A i \in Nat \ {0} : Weight(Onward(w), i) = Weight(w, i + 1)
<1>1. CASE w = <<>>
  BY <1>1 DEF Onward, Weight
<1>2. CASE w # <<>>
  <2>1. /\ Onward(w) = Tail(w) /\ Tail(w) \in Seq(Int) /\ Len(w) \in Nat \ {0}
        /\ Len(Tail(w)) = Len(w) - 1
    BY <1>2 DEF Onward
  <2>2. ASSUME NEW i \in Nat \ {0} PROVE Weight(Tail(w), i) = Weight(w, i + 1)
    <3>1. CASE i <= Len(w) - 1
      <4>1. Tail(w)[i] = w[i + 1]
        BY <1>2, <2>1, <3>1
      <4>2. QED BY <2>1, <3>1, <4>1 DEF Weight
    <3>2. CASE ~(i <= Len(w) - 1)
      BY <2>1, <3>2 DEF Weight
    <3>3. QED BY <3>1, <3>2
  <2>3. QED BY <2>1, <2>2
<1>3. QED BY <1>1, <1>2

(* The first weights decide, or else what is left does.                      *)
LEMMA DifferenceStep ==
  ASSUME NEW v \in Seq(Int), NEW w \in Seq(Int)
  PROVE  FirstDifference(v, w) =
           IF Weight(v, 1) # Weight(w, 1) THEN Sign(Weight(v, 1) - Weight(w, 1))
           ELSE FirstDifference(Onward(v), Onward(w))
<1>1. CASE Weight(v, 1) # Weight(w, 1)
  <2>1. \A j \in 1 .. 1 - 1 : Weight(v, j) = Weight(w, j)
    OBVIOUS
  <2>2. FirstDifference(v, w) = Sign(Weight(v, 1) - Weight(w, 1))
    BY <1>1, <2>1, DifferenceAt
  <2>3. QED BY <1>1, <2>2
<1>2. CASE Weight(v, 1) = Weight(w, 1)
  <2>1. /\ Onward(v) \in Seq(Int) /\ \A i \in Nat \ {0} : Weight(Onward(v), i) = Weight(v, i + 1)
        /\ Onward(w) \in Seq(Int) /\ \A i \in Nat \ {0} : Weight(Onward(w), i) = Weight(w, i + 1)
    BY OnwardIs
  <2>2. CASE Same(Onward(v), Onward(w))
    <3>1. ASSUME NEW i \in Nat \ {0} PROVE Weight(v, i) = Weight(w, i)
      <4>1. CASE i = 1
        BY <1>2, <4>1
      <4>2. CASE i # 1
        <5>1. i - 1 \in Nat \ {0} /\ i - 1 + 1 = i
          BY <4>2
        <5>2. QED BY <2>1, <2>2, <5>1 DEF Same
      <4>3. QED BY <4>1, <4>2
    <3>2. FirstDifference(v, w) = 0
      BY <3>1, NoDifference
    <3>3. FirstDifference(Onward(v), Onward(w)) = 0
      BY <2>2, NoDifference DEF Same
    <3>4. QED BY <1>2, <3>2, <3>3
  <2>3. CASE ~Same(Onward(v), Onward(w))
    <3>1. PICK i \in Nat \ {0} : Differ(Onward(v), Onward(w), i)
      BY <2>3, SameOrDiffer
    <3>2. FirstDifference(Onward(v), Onward(w)) = Sign(Weight(Onward(v), i) - Weight(Onward(w), i))
      BY <2>1, <3>1, DifferenceAt DEF Differ
    <3>3. i + 1 \in Nat \ {0} /\ Weight(v, i + 1) # Weight(w, i + 1)
      BY <2>1, <3>1 DEF Differ
    <3>4. ASSUME NEW j \in 1 .. (i + 1) - 1 PROVE Weight(v, j) = Weight(w, j)
      <4>1. CASE j = 1
        BY <1>2, <4>1
      <4>2. CASE j # 1
        <5>1. j - 1 \in Nat \ {0} /\ j - 1 + 1 = j /\ j - 1 \in 1 .. i - 1
          BY <4>2
        <5>2. Weight(Onward(v), j - 1) = Weight(Onward(w), j - 1)
          BY <3>1, <5>1 DEF Differ
        <5>3. QED BY <2>1, <5>1, <5>2
      <4>3. QED BY <4>1, <4>2
    <3>5. FirstDifference(v, w) = Sign(Weight(v, i + 1) - Weight(w, i + 1))
      BY <3>3, <3>4, DifferenceAt
    <3>6. QED BY <1>2, <2>1, <3>2, <3>5
  <2>4. QED BY <2>2, <2>3
<1>3. QED BY <1>1, <1>2

-----------------------------------------------------------------------------
(* The weights of a string, as the comparison meets them.                    *)
LEMMA FirstWeights ==
  ASSUME NEW s \in Text
  PROVE  /\ Weights[s] \in Seq(Int) /\ Onward(Weights[s]) \in Seq(Int)
         /\ Weight(Weights[s], 1) = order(At0(s))
         /\ NonDigit(s) => Onward(Weights[s]) = Weights[Tail(s)]
         /\ ~NonDigit(s) => /\ Weight(Onward(Weights[s]), 1) = Number(s).value
                            /\ Onward(Onward(Weights[s])) = Weights[Number(s).text]
<1>1. Weights[s] \in Seq(Int) /\ Onward(Weights[s]) \in Seq(Int)
  BY WeightsIs, OnwardIs
<1>2. CASE s = <<>>
  <2>1. Weights[s] = <<>> /\ Onward(Weights[s]) = <<>>
    BY <1>2, WeightsIs DEF Onward
  <2>2. At0(s) = 0 /\ ~IsDigit(At0(s)) /\ ~NonDigit(s)
    BY <1>2 DEF At0, NonDigit, IsDigit
  <2>3. order(At0(s)) = 0 /\ Number(s).text = s /\ Number(s).value = 0
    BY <2>2, OrderIs, NumberIs
  <2>4. Weight(<<>>, 1) = 0
    BY DEF Weight
  <2>5. QED BY <1>1, <2>1, <2>2, <2>3, <2>4
<1>3. CASE s # <<>> /\ ~NonDigit(s)
  <2>1. IsDigit(Head(s))
    BY <1>3 DEF NonDigit
  <2>2. Number(s).value \in Int /\ Number(s).text \in Text /\ Weights[Number(s).text] \in Seq(Int)
    BY NumberIs, WeightsIs
  <2>3. Weights[s] = <<0, Number(s).value>> \o Weights[Number(s).text]
    BY <1>3, <2>1, WeightsIs DEF Begins, After
  <2> DEFINE w == Weights[Number(s).text]
             n == Number(s).value
  <2>4. /\ Weight(<<0, n>> \o w, 1) = 0
        /\ Onward(<<0, n>> \o w) = <<n>> \o w
        /\ Weight(<<n>> \o w, 1) = n
        /\ Onward(<<n>> \o w) = w
    <3>1. n \in Int /\ w \in Seq(Int)
      BY <2>2
    <3> HIDE DEF n, w
    <3>2. Len(<<0, n>> \o w) >= 1 /\ (<<0, n>> \o w)[1] = 0 /\ <<0, n>> \o w # <<>>
      BY <3>1
    <3>3. Len(<<n>> \o w) >= 1 /\ (<<n>> \o w)[1] = n /\ <<n>> \o w # <<>>
      BY <3>1
    <3>4. Tail(<<0, n>> \o w) = <<n>> \o w
      BY <3>1
    <3>5. Tail(<<n>> \o w) = w
      BY <3>1
    <3>6. QED BY <3>2, <3>3, <3>4, <3>5 DEF Weight, Onward
  <2>5. order(At0(s)) = 0
    BY <1>3, OrderIs
  <2>6. QED BY <1>1, <1>3, <2>3, <2>4, <2>5
<1>4. CASE NonDigit(s)
  <2>1. s # <<>> /\ ~IsDigit(Head(s)) /\ Tail(s) \in Text
    BY <1>4, TextParts DEF NonDigit
  <2>2. Weights[s] = <<Rank(Head(s))>> \o Weights[Tail(s)]
    BY <2>1, WeightsIs DEF Begins, After
  <2>3. Rank(Head(s)) = order(At0(s)) /\ order(At0(s)) \in Int /\ Weights[Tail(s)] \in Seq(Int)
    BY <1>4, <2>1, OrderIs, WeightsIs
  <2> DEFINE w == Weights[Tail(s)]
             n == Rank(Head(s))
  <2>4. Weight(<<n>> \o w, 1) = n /\ Onward(<<n>> \o w) = w
    <3>1. n \in Int /\ w \in Seq(Int)
      BY <2>3
    <3> HIDE DEF n, w
    <3>2. Len(<<n>> \o w) >= 1 /\ (<<n>> \o w)[1] = n /\ <<n>> \o w # <<>>
      BY <3>1
    <3>3. Tail(<<n>> \o w) = w
      BY <3>1
    <3>4. QED BY <3>2, <3>3 DEF Weight, Onward
  <2>5. QED BY <1>1, <1>4, <2>2, <2>3, <2>4
<1>5. QED BY <1>2, <1>3, <1>4 DEF NonDigit

(* Skipping the text that is the same changes nothing.                       *)
Reduces(at) ==
  /\ ~SameText(SkipText[at])
  /\ Len(SkipText[at].val) <= Len(at.val) /\ Len(SkipText[at].ref) <= Len(at.ref)
  /\ SameText(at) => Len(SkipText[at].val) < Len(at.val)
  /\ Reference(at.val, at.ref) = Reference(SkipText[at].val, SkipText[at].ref)

(* The loop over the text keeps the order of the strings and makes them      *)
(* shorter.                                                                  *)
LEMMA SkipTextReduces == \A at \in Pointers : Reduces(at)
<1> DEFINE rank == [at \in Pointers |-> Len(at.val)]
           G == {at \in Pointers : Reduces(at)}
<1>1. rank \in [Pointers -> Nat]
  BY PointersParts, At0Is
<1>2. ASSUME NEW at \in Pointers, \A y \in Pointers : rank[y] < rank[at] => y \in G
      PROVE  at \in G
  <2>1. at.val \in Text /\ at.ref \in Text /\ Len(at.val) \in Nat /\ Len(at.ref) \in Nat
    BY PointersParts, At0Is
  <2>2. CASE ~SameText(at)
    <3>1. SkipText[at] = at
      BY <2>2, SkipTextIs
    <3>2. QED BY <2>1, <2>2, <3>1 DEF Reduces
  <2>3. CASE SameText(at)
    <3> DEFINE y == Advance(at)
    <3>1. NonDigit(at.val) /\ NonDigit(at.ref) /\ at.val # <<>> /\ at.ref # <<>>
      BY <2>3, SameTextIs
    <3>2. y \in Pointers /\ y.val = Tail(at.val) /\ y.ref = Tail(at.ref)
      BY <3>1, AdvanceIs
    <3>3. Len(y.val) = Len(at.val) - 1 /\ Len(y.ref) = Len(at.ref) - 1
      BY <2>1, <3>1, <3>2, TextParts
    <3>4. SkipText[at] = SkipText[y]
      BY <2>3, SkipTextIs
    <3> HIDE DEF y
    <3>5. Reduces(y)
      <4>1. rank[y] = Len(y.val) /\ rank[at] = Len(at.val)
        BY <3>2
      <4> HIDE DEF rank
      <4>2. rank[y] < rank[at]
        BY <2>1, <3>3, <4>1
      <4>3. QED BY <1>2, <3>2, <4>2
    <3>6. Reference(at.val, at.ref) = Reference(y.val, y.ref)
      <4>1. /\ Weights[at.val] \in Seq(Int) /\ Weight(Weights[at.val], 1) = order(At0(at.val))
            /\ Onward(Weights[at.val]) = Weights[Tail(at.val)]
            /\ Weights[at.ref] \in Seq(Int) /\ Weight(Weights[at.ref], 1) = order(At0(at.ref))
            /\ Onward(Weights[at.ref]) = Weights[Tail(at.ref)]
        BY <2>1, <3>1, FirstWeights
      <4>2. order(At0(at.val)) = order(At0(at.ref))
        BY <2>3 DEF SameText
      <4>3. FirstDifference(Weights[at.val], Weights[at.ref])
              = FirstDifference(Weights[Tail(at.val)], Weights[Tail(at.ref)])
        BY <4>1, <4>2, DifferenceStep
      <4>4. QED BY <3>2, <4>3 DEF Reference
    <3>7. SkipText[y] \in Pointers
      BY <3>2, SkipTextIs
    <3>8. Len(SkipText[y].val) \in Nat /\ Len(SkipText[y].ref) \in Nat
      BY <3>7, PointersParts, At0Is
    <3>9. Len(SkipText[at].val) < Len(at.val) /\ Len(SkipText[at].ref) <= Len(at.ref)
      BY <2>1, <3>3, <3>4, <3>5, <3>8 DEF Reduces
    <3>10. Len(SkipText[at].val) <= Len(at.val)
      BY <2>1, <3>4, <3>8, <3>9
    <3>11. QED BY <3>4, <3>5, <3>6, <3>9, <3>10 DEF Reduces
  <2>4. QED BY <2>2, <2>3
<1>3. \A at \in Pointers : at \in G
  <2> HIDE DEF G, rank
  <2>1. QED BY <1>1, <1>2, RankInduction
<1>4. QED BY <1>3

(* The zeroes before a number do not count.                                  *)
ZeroesSkipped(s) ==
  Number(SkipZeroes[s]) = Number(s) /\ At0(SkipZeroes[s]) # 48

(* The value of a number does not depend on its leading zeroes.              *)
LEMMA SkipZeroesKeeps == \A s \in Text : ZeroesSkipped(s)
<1> DEFINE rank == [s \in Text |-> Len(s)]
           G == {s \in Text : ZeroesSkipped(s)}
<1>1. rank \in [Text -> Nat]
  BY At0Is
<1>2. ASSUME NEW s \in Text, \A t \in Text : rank[t] < rank[s] => t \in G
      PROVE  s \in G
  <2>1. CASE At0(s) # 48
    <3>1. SkipZeroes[s] = s
      BY <2>1, SkipZeroesIs
    <3>2. QED BY <2>1, <3>1 DEF ZeroesSkipped
  <2>2. CASE At0(s) = 48
    <3> DEFINE t  == Tail(s)
               at == [text |-> s, value |-> 0]
    <3>1. s # <<>> /\ Head(s) = 48 /\ t \in Text /\ Len(t) = Len(s) - 1 /\ Len(s) \in Nat
      BY <2>2, At0Is, TextParts
    <3>2. SkipZeroes[s] = SkipZeroes[t]
      BY <2>2, SkipZeroesIs
    <3>3. rank[t] < rank[s]
      <4>1. rank[t] = Len(t) /\ rank[s] = Len(s)
        BY <3>1
      <4> HIDE DEF rank, t
      <4>2. QED BY <3>1, <4>1
    <3>4. ZeroesSkipped(t)
      BY <1>2, <3>1, <3>3
    <3>5. Number(s) = Number(t)
      <4>1. at \in Reading /\ IsDigit(At0(at.text)) /\ at.text = s /\ at.value = 0
        BY <2>2 DEF Reading, IsDigit
      <4>2. NextDigit(at) = [text |-> t, value |-> 0]
        <5>1. 10 * 0 + 48 - 48 = 0
          OBVIOUS
        <5>2. QED BY <3>1, <5>1 DEF NextDigit
      <4>3. ReadNumber[at] = ReadNumber[NextDigit(at)]
        BY <4>1, ReadNumberIs
      <4>4. QED BY <4>2, <4>3 DEF Number
    <3>6. QED BY <3>2, <3>4, <3>5 DEF ZeroesSkipped
  <2>3. QED BY <2>1, <2>2
<1>3. \A s \in Text : s \in G
  <2> HIDE DEF G, rank
  <2>1. QED BY <1>1, <1>2, RankInduction
<1>4. QED BY <1>3

-----------------------------------------------------------------------------
(* The digits of two numbers side by side.  What the reference reads of each *)
(* so far is a and b: the first difference has the sign of theirs, and there *)
(* were as many digits of each, so that one more digit outweighs any lead.   *)
Reads(at, a, b) ==
  /\ Sign(at.first_diff) = Sign(a - b)
  /\ \/ a = 0 /\ b = 0 /\ At0(at.val) # 48 /\ At0(at.ref) # 48
     \/ a >= 1 /\ b >= 1 /\ a < 10 * b /\ b < 10 * a

Told(n, p, q) ==
  /\ IsDigit(At0(n.val)) => p.value > q.value
  /\ IsDigit(At0(n.ref)) => p.value < q.value
  /\ ~IsDigit(At0(n.val)) /\ ~IsDigit(At0(n.ref)) =>
       n.val = p.text /\ n.ref = q.text /\ Sign(n.first_diff) = Sign(p.value - q.value)

ToldOf(at) ==
  \A a, b \in Nat :
    Reads(at, a, b) => Told(SkipDigits[at], ReadNumber[[text |-> at.val, value |-> a]],
                                            ReadNumber[[text |-> at.ref, value |-> b]])

(* One digit more, the first of them not 0, makes more.                      *)
LEMMA OneMoreDigit ==
  ASSUME NEW s \in Text, IsDigit(At0(s)), NEW a \in Nat, NEW b \in Nat,
         \/ a = 0 /\ b = 0 /\ At0(s) # 48
         \/ a >= 1 /\ b < 10 * a
  PROVE  ReadNumber[[text |-> s, value |-> a]].value > b
<1> DEFINE at == [text |-> s, value |-> a]
           y  == NextDigit(at)
<1>1. at \in Reading /\ at.text = s /\ at.value = a
  BY DEF Reading
<1>2. At0(s) = Head(s)
  BY At0Is
<1>3. y \in Reading /\ y.value = 10 * a + Head(s) - 48 /\ Head(s) \in 48 .. 57
  BY <1>1, NextDigitIs
<1>4. ReadNumber[at] = ReadNumber[y]
  BY <1>1, ReadNumberIs
<1> HIDE DEF at, y
<1>5. ReadNumber[y].value >= y.value /\ ReadNumber[y].value \in Nat /\ y.value \in Nat
  BY <1>3, ReadNumberOn, ReadNumberIs DEF ReadsOn, Reading
<1>6. y.value > b
  <2>1. \A d \in 48 .. 57 : d # 48 => 10 * 0 + d - 48 > 0
    OBVIOUS
  <2>2. \A d \in 48 .. 57 : a >= 1 /\ b < 10 * a => 10 * a + d - 48 > b
    OBVIOUS
  <2>3. QED BY <1>2, <1>3, <2>1, <2>2
<1>7. ReadNumber[at].value > b
  BY <1>4, <1>5, <1>6
<1>8. QED BY <1>7 DEF at

(* The digits that both have tell which of two numbers is larger.            *)
LEMMA SkipDigitsTells == \A at \in Pointers : ToldOf(at)
<1> DEFINE rank == [at \in Pointers |-> Len(at.val)]
           G == {at \in Pointers : ToldOf(at)}
<1>1. rank \in [Pointers -> Nat]
  BY PointersParts, At0Is
<1>2. ASSUME NEW at \in Pointers, \A y \in Pointers : rank[y] < rank[at] => y \in G
      PROVE  at \in G
  <2>1. at.val \in Text /\ at.ref \in Text /\ at.first_diff \in Int
    BY PointersParts
  <2>2. ASSUME NEW a \in Nat, NEW b \in Nat, Reads(at, a, b)
        PROVE  Told(SkipDigits[at], ReadNumber[[text |-> at.val, value |-> a]],
                                    ReadNumber[[text |-> at.ref, value |-> b]])
    <3> DEFINE p == [text |-> at.val, value |-> a]
               q == [text |-> at.ref, value |-> b]
    <3>1. /\ p \in Reading /\ p.text = at.val /\ p.value = a
          /\ q \in Reading /\ q.text = at.ref /\ q.value = b
      BY <2>1 DEF Reading
    <3>2. CASE ~BothDigits(at)
      <4>1. SkipDigits[at] = at
        BY <3>2, SkipDigitsIs
      <4>2. ~IsDigit(At0(at.val)) => ReadNumber[p] = p
        BY <3>1, ReadNumberIs
      <4>3. ~IsDigit(At0(at.ref)) => ReadNumber[q] = q
        BY <3>1, ReadNumberIs
      <4>4. IsDigit(At0(at.val)) => ReadNumber[p].value > b
        BY <2>1, <2>2, OneMoreDigit DEF Reads
      <4>5. IsDigit(At0(at.ref)) => ReadNumber[q].value > a
        BY <2>1, <2>2, OneMoreDigit DEF Reads
      <4> HIDE DEF p, q
      <4>6. ReadNumber[p].value \in Nat /\ ReadNumber[q].value \in Nat
        BY <3>1, ReadNumberIs DEF Reading
      <4>7. IsDigit(At0(at.val)) => ReadNumber[p].value > ReadNumber[q].value
        BY <3>1, <3>2, <4>3, <4>4 DEF BothDigits
      <4>8. IsDigit(At0(at.ref)) => ReadNumber[p].value < ReadNumber[q].value
        BY <3>1, <3>2, <4>2, <4>5, <4>6 DEF BothDigits
      <4>9. ~IsDigit(At0(at.val)) /\ ~IsDigit(At0(at.ref)) =>
              /\ at.val = ReadNumber[p].text /\ at.ref = ReadNumber[q].text
              /\ Sign(at.first_diff) = Sign(ReadNumber[p].value - ReadNumber[q].value)
        BY <2>2, <3>1, <4>2, <4>3 DEF Reads
      <4>10. Told(SkipDigits[at], ReadNumber[p], ReadNumber[q])
        BY <4>1, <4>7, <4>8, <4>9 DEF Told
      <4>11. QED BY <4>10 DEF p, q
    <3>3. CASE BothDigits(at)
      <4> DEFINE y == NextDigits(at)
                 c == Head(at.val)
                 d == Head(at.ref)
                 e == 10 * a + c - 48
                 f == 10 * b + d - 48
      <4>1. /\ y \in Pointers /\ at.val # <<>> /\ at.ref # <<>>
            /\ y.val = Tail(at.val) /\ y.ref = Tail(at.ref)
            /\ y.first_diff = IF at.first_diff = 0 THEN c - d ELSE at.first_diff
        BY <3>3, NextDigitsIs
      <4>2. c \in 48 .. 57 /\ d \in 48 .. 57 /\ At0(at.val) = c /\ At0(at.ref) = d
        BY <2>1, <3>3, <4>1, At0Is DEF BothDigits, IsDigit
      <4>3. SkipDigits[at] = SkipDigits[y]
        BY <3>3, SkipDigitsIs
      <4>4. /\ ReadNumber[p] = ReadNumber[[text |-> y.val, value |-> e]]
            /\ ReadNumber[q] = ReadNumber[[text |-> y.ref, value |-> f]]
        <5>1. /\ NextDigit(p) = [text |-> y.val, value |-> e]
              /\ NextDigit(q) = [text |-> y.ref, value |-> f]
          BY <3>1, <4>1 DEF NextDigit
        <5>2. ReadNumber[p] = ReadNumber[NextDigit(p)] /\ ReadNumber[q] = ReadNumber[NextDigit(q)]
          BY <3>1, <3>3, ReadNumberIs DEF BothDigits
        <5>3. QED BY <5>1, <5>2
      <4>5. ToldOf(y)
        <5>1. rank[y] = Len(y.val) /\ rank[at] = Len(at.val)
          BY <4>1
        <5>2. Len(at.val) \in Nat /\ Len(y.val) = Len(at.val) - 1
          BY <2>1, <4>1, TextParts
        <5> HIDE DEF rank, y
        <5>3. rank[y] < rank[at]
          BY <5>1, <5>2
        <5>4. QED BY <1>2, <4>1, <5>3
      <4> HIDE DEF y, c, d
      <4>6. e \in Nat /\ f \in Nat
        BY <4>2
      <4>7. Sign(y.first_diff) = Sign(e - f)
        <5>1. Sign(at.first_diff) = Sign(a - b) /\ at.first_diff \in Int /\ c \in Int /\ d \in Int
          BY <2>1, <2>2, <4>2 DEF Reads
        <5>2. CASE at.first_diff = 0
          <6>1. a = b
            BY <5>1, <5>2 DEF Sign
          <6>2. e - f = c - d
            BY <4>2, <6>1
          <6>3. QED BY <4>1, <5>2, <6>2
        <5>3. CASE at.first_diff > 0
          <6>1. a - b > 0
            BY <5>1, <5>3 DEF Sign
          <6>2. e - f > 0
            BY <4>2, <6>1
          <6>3. QED BY <4>1, <5>1, <5>3, <6>2 DEF Sign
        <5>4. CASE at.first_diff < 0
          <6>1. a - b < 0
            BY <5>1, <5>4 DEF Sign
          <6>2. e - f < 0
            BY <4>2, <6>1
          <6>3. QED BY <4>1, <5>1, <5>4, <6>2 DEF Sign
        <5>5. QED BY <5>1, <5>2, <5>3, <5>4
      <4>8. e >= 1 /\ f >= 1 /\ e < 10 * f /\ f < 10 * e
        <5>1. CASE a = 0 /\ b = 0 /\ At0(at.val) # 48 /\ At0(at.ref) # 48
          BY <4>2, <5>1
        <5>2. CASE a >= 1 /\ b >= 1 /\ a < 10 * b /\ b < 10 * a
          BY <4>2, <5>2
        <5>3. QED BY <2>2, <5>1, <5>2 DEF Reads
      <4> HIDE DEF e, f, p, q
      <4>9. Reads(y, e, f)
        BY <4>7, <4>8 DEF Reads
      <4>10. Told(SkipDigits[at], ReadNumber[p], ReadNumber[q])
        BY <4>3, <4>4, <4>5, <4>6, <4>9 DEF ToldOf
      <4>11. QED BY <4>10 DEF p, q
    <3>4. QED BY <3>2, <3>3
  <2>3. QED BY <2>2 DEF ToldOf
<1>3. \A at \in Pointers : at \in G
  <2> HIDE DEF G, rank
  <2>1. QED BY <1>1, <1>2, RankInduction
<1>4. QED BY <1>3

-----------------------------------------------------------------------------
(* One round of verrevcmp: the text, the number, and what comes after.       *)
BothIs(val, ref) ==
  /\ Both(val, ref) \in Pointers /\ Both(val, ref).val = val
  /\ Both(val, ref).ref = ref /\ Both(val, ref).first_diff = 0

(* The record that the loop over the digits begins with.                     *)
LEMMA BothParts == \A val, ref \in Text : BothIs(val, ref)
BY DEF BothIs, Both, Pointers

AfterText(at)   == SkipText[at]
AfterNumber(at) == SkipDigits[Both(SkipZeroes[AfterText(at).val], SkipZeroes[AfterText(at).ref])]
TextTells(at)   == order(At0(AfterText(at).val)) # order(At0(AfterText(at).ref))
NumberTells(at) ==
  \/ IsDigit(At0(AfterNumber(at).val)) \/ IsDigit(At0(AfterNumber(at).ref))
  \/ AfterNumber(at).first_diff # 0

(* What a round tells is told right, and when it tells nothing the rest does. *)
Round(at) ==
  LET t == AfterText(at)
      n == AfterNumber(at)
  IN  /\ TextTells(at) => Reference(at.val, at.ref)
                            = Sign(order(At0(t.val)) - order(At0(t.ref)))
      /\ ~TextTells(at) => /\ IsDigit(At0(n.val)) => Reference(at.val, at.ref) = 1
                           /\ IsDigit(At0(n.ref)) => Reference(at.val, at.ref) = -1
                           /\ ~IsDigit(At0(n.val)) /\ ~IsDigit(At0(n.ref)) =>
                                Reference(at.val, at.ref)
                                  = IF n.first_diff # 0 THEN Sign(n.first_diff)
                                    ELSE Reference(n.val, n.ref)
      /\ ~TextTells(at) /\ ~NumberTells(at) /\ ~(at.val = <<>> /\ at.ref = <<>>) =>
           Len(n.val) + Len(n.ref) < Len(at.val) + Len(at.ref)

(* A round of verrevcmp decides as the reference order does, or leaves       *)
(* shorter strings of the same order.                                        *)
LEMMA RoundTells ==
  ASSUME NEW at \in Pointers
  PROVE  /\ AfterText(at) \in Pointers /\ AfterNumber(at) \in Pointers
         /\ Round(at)
<1> DEFINE t == AfterText(at)
           u == SkipZeroes[t.val]
           v == SkipZeroes[t.ref]
           n == AfterNumber(at)
           V == Weights[t.val]
           W == Weights[t.ref]
<1>1. t \in Pointers /\ Reduces(at) /\ t = SkipText[at]
  BY SkipTextIs, SkipTextReduces DEF AfterText
<1> HIDE DEF t
<1>2. /\ at.val \in Text /\ at.ref \in Text /\ Len(at.val) \in Nat /\ Len(at.ref) \in Nat
      /\ t.val \in Text /\ t.ref \in Text /\ Len(t.val) \in Nat /\ Len(t.ref) \in Nat
  BY <1>1, PointersParts, At0Is
<1>3. u \in Text /\ v \in Text /\ Number(u) = Number(t.val) /\ Number(v) = Number(t.ref)
      /\ At0(u) # 48 /\ At0(v) # 48
  BY <1>2, SkipZeroesIs, SkipZeroesKeeps DEF ZeroesSkipped
<1>4. n = SkipDigits[Both(u, v)] /\ n \in Pointers
  <2>1. n = SkipDigits[Both(u, v)]
    BY DEF AfterNumber, t
  <2> HIDE DEF n, u, v
  <2>2. QED BY <1>3, <2>1, BothParts, SkipDigitsIs DEF BothIs
<1>5. Told(n, Number(u), Number(v))
  <2> HIDE DEF n, u, v
  <2>1. BothIs(u, v)
    BY <1>3, BothParts
  <2>2. ToldOf(Both(u, v))
    BY <2>1, SkipDigitsTells DEF BothIs
  <2>3. Reads(Both(u, v), 0, 0)
    BY <1>3, <2>1 DEF Reads, BothIs
  <2>4. Told(SkipDigits[Both(u, v)], ReadNumber[[text |-> u, value |-> 0]],
                                     ReadNumber[[text |-> v, value |-> 0]])
    BY <2>1, <2>2, <2>3 DEF ToldOf, BothIs
  <2>5. QED BY <1>4, <2>4 DEF Number
<1> HIDE DEF u, v, n
<1>6. Told(n, Number(t.val), Number(t.ref))
  BY <1>3, <1>5
<1>7. Reference(at.val, at.ref) = FirstDifference(V, W)
  BY <1>1 DEF Reduces, Reference
<1>8. /\ V \in Seq(Int) /\ Onward(V) \in Seq(Int) /\ Weight(V, 1) = order(At0(t.val))
      /\ ~NonDigit(t.val) => /\ Weight(Onward(V), 1) = Number(t.val).value
                             /\ Onward(Onward(V)) = Weights[Number(t.val).text]
  BY <1>2, FirstWeights
<1>9. /\ W \in Seq(Int) /\ Onward(W) \in Seq(Int) /\ Weight(W, 1) = order(At0(t.ref))
      /\ ~NonDigit(t.ref) => /\ Weight(Onward(W), 1) = Number(t.ref).value
                             /\ Onward(Onward(W)) = Weights[Number(t.ref).text]
  BY <1>2, FirstWeights
<1> HIDE DEF V, W
<1>10. TextTells(at) => Reference(at.val, at.ref) = Sign(order(At0(t.val)) - order(At0(t.ref)))
  <2>1. SUFFICES ASSUME TextTells(at)
                 PROVE  Reference(at.val, at.ref) = Sign(order(At0(t.val)) - order(At0(t.ref)))
    OBVIOUS
  <2>2. Weight(V, 1) # Weight(W, 1)
    BY <1>8, <1>9, <2>1 DEF TextTells, t
  <2>3. FirstDifference(V, W) = Sign(Weight(V, 1) - Weight(W, 1))
    BY <1>8, <1>9, <2>2, DifferenceStep
  <2>4. QED BY <1>7, <1>8, <1>9, <2>3
<1>11. ASSUME ~TextTells(at)
       PROVE  /\ ~NonDigit(t.val) /\ ~NonDigit(t.ref)
              /\ Reference(at.val, at.ref) =
                   IF Number(t.val).value # Number(t.ref).value
                   THEN Sign(Number(t.val).value - Number(t.ref).value)
                   ELSE Reference(Number(t.val).text, Number(t.ref).text)
  <2>1. order(At0(t.val)) = order(At0(t.ref))
    BY <1>11 DEF TextTells, t
  <2>2. ~NonDigit(t.val) /\ ~NonDigit(t.ref)
    BY <1>1, <2>1 DEF Reduces, SameText
  <2>3. FirstDifference(V, W) = FirstDifference(Onward(V), Onward(W))
    BY <1>8, <1>9, <2>1, DifferenceStep
  <2>4. FirstDifference(Onward(V), Onward(W)) =
          IF Weight(Onward(V), 1) # Weight(Onward(W), 1)
          THEN Sign(Weight(Onward(V), 1) - Weight(Onward(W), 1))
          ELSE FirstDifference(Onward(Onward(V)), Onward(Onward(W)))
    BY <1>8, <1>9, DifferenceStep
  <2>5. QED BY <1>7, <1>8, <1>9, <2>2, <2>3, <2>4 DEF Reference
<1>12. Number(t.val).value \in Nat /\ Number(t.ref).value \in Nat
  BY <1>2, NumberIs
<1>13. ASSUME ~TextTells(at)
       PROVE  /\ IsDigit(At0(n.val)) => Reference(at.val, at.ref) = 1
              /\ IsDigit(At0(n.ref)) => Reference(at.val, at.ref) = -1
              /\ ~IsDigit(At0(n.val)) /\ ~IsDigit(At0(n.ref)) =>
                   Reference(at.val, at.ref)
                     = IF n.first_diff # 0 THEN Sign(n.first_diff) ELSE Reference(n.val, n.ref)
  <2> DEFINE a == Number(t.val).value
             b == Number(t.ref).value
  <2>0. /\ a \in Nat /\ b \in Nat /\ n.first_diff \in Int
        /\ Reference(at.val, at.ref) = IF a # b THEN Sign(a - b)
                                       ELSE Reference(Number(t.val).text, Number(t.ref).text)
        /\ IsDigit(At0(n.val)) => a > b
        /\ IsDigit(At0(n.ref)) => a < b
        /\ ~IsDigit(At0(n.val)) /\ ~IsDigit(At0(n.ref)) =>
             /\ n.val = Number(t.val).text /\ n.ref = Number(t.ref).text
             /\ Sign(n.first_diff) = Sign(a - b)
    BY <1>4, <1>6, <1>11, <1>12, <1>13, PointersParts DEF Told
  <2> HIDE DEF a, b
  <2>1. a > b => a # b /\ Sign(a - b) = 1
    BY <2>0 DEF Sign
  <2>2. a < b => a # b /\ Sign(a - b) = -1
    BY <2>0 DEF Sign
  <2>3. Sign(n.first_diff) = Sign(a - b) => (n.first_diff # 0 <=> a # b)
    BY <2>0 DEF Sign
  <2>4. QED BY <2>0, <2>1, <2>2, <2>3
<1>14. ASSUME ~TextTells(at), ~NumberTells(at), ~(at.val = <<>> /\ at.ref = <<>>)
       PROVE  Len(n.val) + Len(n.ref) < Len(at.val) + Len(at.ref)
  <2>1. n.val = Number(t.val).text /\ n.ref = Number(t.ref).text
    BY <1>6, <1>14 DEF Told, NumberTells, n
  <2>2. /\ Len(n.val) <= Len(t.val) /\ Len(n.ref) <= Len(t.ref)
        /\ Len(n.val) \in Nat /\ Len(n.ref) \in Nat
        /\ IsDigit(At0(t.val)) => Len(n.val) < Len(t.val)
        /\ IsDigit(At0(t.ref)) => Len(n.ref) < Len(t.ref)
    BY <1>2, <2>1, NumberIs, At0Is
  <2>3. Len(t.val) <= Len(at.val) /\ Len(t.ref) <= Len(at.ref)
    BY <1>1 DEF Reduces
  <2> DEFINE i == Len(n.val)
             j == Len(n.ref)
             k == Len(t.val)
             l == Len(t.ref)
             p == Len(at.val)
             q == Len(at.ref)
  <2>4. /\ i \in Nat /\ j \in Nat /\ k \in Nat /\ l \in Nat /\ p \in Nat /\ q \in Nat
        /\ i <= k /\ j <= l /\ k <= p /\ l <= q
    BY <1>2, <2>2, <2>3
  <2>5. CASE IsDigit(At0(t.val)) \/ IsDigit(At0(t.ref))
    <3>1. i < k \/ j < l
      BY <2>2, <2>5
    <3> HIDE DEF i, j, k, l, p, q
    <3>2. i + j < p + q
      BY <2>4, <3>1
    <3>3. QED BY <3>2 DEF i, j, p, q
  <2>6. CASE ~IsDigit(At0(t.val)) /\ ~IsDigit(At0(t.ref))
    <3>1. t.val = <<>> /\ t.ref = <<>>
      BY <1>2, <1>11, <1>14, <2>6, At0Is
    <3>2. k = 0 /\ l = 0
      BY <3>1
    <3>3. at.val # <<>> => p > 0
      BY <1>2, TextParts
    <3>4. at.ref # <<>> => q > 0
      BY <1>2, TextParts
    <3>5. p > 0 \/ q > 0
      BY <1>14, <3>3, <3>4, Zenon
    <3> HIDE DEF i, j, k, l, p, q
    <3>6. i + j < p + q
      BY <2>4, <3>2, <3>5
    <3>7. QED BY <3>6 DEF i, j, p, q
  <2>7. QED BY <2>5, <2>6
<1>15. QED BY <1>1, <1>4, <1>10, <1>13, <1>14 DEF Round, t, n

(* verrevcmp is the function its definition says it is.                      *)
LEMMA verrevcmpIs ==
  /\ verrevcmp \in [Pointers -> Int]
  /\ \A at \in Pointers :
    verrevcmp[at] = IF at.val = <<>> /\ at.ref = <<>> THEN 0
                    ELSE IF TextTells(at)
                         THEN order(At0(AfterText(at).val)) - order(At0(AfterText(at).ref))
                    ELSE IF IsDigit(At0(AfterNumber(at).val)) THEN 1
                    ELSE IF IsDigit(At0(AfterNumber(at).ref)) THEN -1
                    ELSE IF AfterNumber(at).first_diff # 0 THEN AfterNumber(at).first_diff
                    ELSE verrevcmp[AfterNumber(at)]
<1> DEFINE told(at) == (at.val = <<>> /\ at.ref = <<>>) \/ TextTells(at) \/ NumberTells(at)
           value(at) == IF at.val = <<>> /\ at.ref = <<>> THEN 0
                        ELSE IF TextTells(at)
                             THEN order(At0(AfterText(at).val)) - order(At0(AfterText(at).ref))
                        ELSE IF IsDigit(At0(AfterNumber(at).val)) THEN 1
                        ELSE IF IsDigit(At0(AfterNumber(at).ref)) THEN -1
                        ELSE AfterNumber(at).first_diff
           F    == {at \in Pointers : told(at)}
           res  == [at \in Pointers |-> value(at)]
           next == [at \in Pointers |-> AfterNumber(at)]
           rank == [at \in Pointers |-> Len(at.val) + Len(at.ref)]
           Body(f) == [at \in Pointers |->
                         IF at.val = <<>> /\ at.ref = <<>> THEN 0
                         ELSE LET text   == SkipText[at]
                                  number == SkipDigits[Both(SkipZeroes[text.val],
                                                            SkipZeroes[text.ref])]
                                  vc     == order(At0(text.val))
                                  rc     == order(At0(text.ref))
                              IN  IF vc # rc THEN vc - rc
                                  ELSE IF IsDigit(At0(number.val)) THEN 1
                                  ELSE IF IsDigit(At0(number.ref)) THEN -1
                                  ELSE IF number.first_diff # 0 THEN number.first_diff
                                  ELSE f[number]]
<1>1. ASSUME NEW at \in Pointers
      PROVE  /\ AfterNumber(at) \in Pointers
             /\ Len(at.val) + Len(at.ref) \in Nat
             /\ ~told(at) => Len(AfterNumber(at).val) + Len(AfterNumber(at).ref)
                               < Len(at.val) + Len(at.ref)
  <2>1. AfterNumber(at) \in Pointers /\ Round(at)
    BY RoundTells
  <2>2. Len(at.val) \in Nat /\ Len(at.ref) \in Nat
    BY PointersParts, At0Is
  <2>3. Len(at.val) + Len(at.ref) \in Nat
    <3>1. \A i, j \in Nat : i + j \in Nat
      OBVIOUS
    <3>2. QED BY <2>2, <3>1, Zenon
  <2>4. ~told(at) => Len(AfterNumber(at).val) + Len(AfterNumber(at).ref)
                       < Len(at.val) + Len(at.ref)
    BY <2>1, Zenon DEF Round
  <2>5. QED BY <2>1, <2>3, <2>4
<1>2. next \in [Pointers -> Pointers] /\ rank \in [Pointers -> Nat] /\ res \in [Pointers -> Int]
  <2>1. ASSUME NEW at \in Pointers PROVE value(at) \in Int
    <3>1. AfterText(at) \in Pointers /\ AfterNumber(at) \in Pointers
      BY RoundTells
    <3>2. order(At0(AfterText(at).val)) \in Int /\ order(At0(AfterText(at).ref)) \in Int
      BY <3>1, PointersParts, OrderIs
    <3>3. order(At0(AfterText(at).val)) - order(At0(AfterText(at).ref)) \in Int
      <4>1. \A i, j \in Int : i - j \in Int
        OBVIOUS
      <4>2. QED BY <3>2, <4>1, Zenon
    <3>4. AfterNumber(at).first_diff \in Int /\ 0 \in Int /\ 1 \in Int /\ -1 \in Int
      BY <3>1, PointersParts
    <3>5. QED BY <3>3, <3>4, Zenon
  <2> HIDE DEF told, value
  <2>2. QED BY <1>1, <2>1
<1>3. \A at \in Pointers \ F : rank[next[at]] < rank[at]
  <2> HIDE DEF told, value, res, Body
  <2>1. QED BY <1>1
<1>4. /\ \E f : TailLoop(f, Pointers, F, res, next)
      /\ \A f : TailLoop(f, Pointers, F, res, next) => f \in [Pointers -> Int]
  <2>1. res \in [Pointers -> Int] /\ next \in [Pointers -> Pointers] /\ rank \in [Pointers -> Nat]
    BY <1>2
  <2> HIDE DEF told, value, F, res, next, rank, Body
  <2>2. QED BY <1>3, <2>1, TailLoopExists
<1>5. ASSUME NEW f, NEW at \in Pointers
      PROVE  Body(f)[at] = IF at \in F THEN res[at] ELSE f[next[at]]
  <2>1. Body(f)[at] = IF at.val = <<>> /\ at.ref = <<>> THEN 0
                      ELSE IF TextTells(at)
                           THEN order(At0(AfterText(at).val)) - order(At0(AfterText(at).ref))
                      ELSE IF IsDigit(At0(AfterNumber(at).val)) THEN 1
                      ELSE IF IsDigit(At0(AfterNumber(at).ref)) THEN -1
                      ELSE IF AfterNumber(at).first_diff # 0 THEN AfterNumber(at).first_diff
                      ELSE f[AfterNumber(at)]
    BY Zenon DEF AfterText, AfterNumber, TextTells
  <2>2. (at \in F <=> told(at)) /\ res[at] = value(at) /\ next[at] = AfterNumber(at)
    <3> HIDE DEF told, value, Body
    <3>1. QED OBVIOUS
  <2> HIDE DEF Body, F, res, next
  <2>3. QED BY <2>1, <2>2, Zenon DEF NumberTells
<1>6. ASSUME NEW f PROVE TailLoop(f, Pointers, F, res, next) <=> f = Body(f)
  <2> DEFINE g == [at \in Pointers |-> IF at \in F THEN res[at] ELSE f[next[at]]]
  <2>1. \A at \in Pointers : g[at] = Body(f)[at]
    <3> HIDE DEF F, res, next, Body
    <3>1. QED BY <1>5
  <2>2. g = Body(f)
    <3> HIDE DEF F, res, next
    <3>1. QED BY <2>1
  <2> HIDE DEF Body
  <2>3. QED BY <2>2 DEF TailLoop
<1>7. \E f : f = Body(f)
  <2> HIDE DEF F, res, next, Body
  <2>1. QED BY <1>4, <1>6
<1>8. verrevcmp = Body(verrevcmp)
  BY <1>7, Zenon DEF verrevcmp
<1>9. ASSUME NEW at \in Pointers
      PROVE  verrevcmp[at] = IF at.val = <<>> /\ at.ref = <<>> THEN 0
                    ELSE IF TextTells(at)
                         THEN order(At0(AfterText(at).val)) - order(At0(AfterText(at).ref))
                    ELSE IF IsDigit(At0(AfterNumber(at).val)) THEN 1
                    ELSE IF IsDigit(At0(AfterNumber(at).ref)) THEN -1
                    ELSE IF AfterNumber(at).first_diff # 0 THEN AfterNumber(at).first_diff
                    ELSE verrevcmp[AfterNumber(at)]
  <2>1. verrevcmp[at] = Body(verrevcmp)[at]
    <3> HIDE DEF Body
    <3>1. QED BY <1>8
  <2> HIDE DEF F, res, next, told, value, Body
  <2>2. QED BY <2>1, Zenon DEF AfterText, AfterNumber, TextTells, Body
<1>10. verrevcmp \in [Pointers -> Int]
  <2> HIDE DEF F, res, next, Body
  <2>1. QED BY <1>4, <1>6, <1>8
<1>11. QED BY <1>9, <1>10

(* verrevcmp has the sign of the first difference of the weights.            *)
LEMMA verrevcmpTells ==
  \A at \in Pointers : Sign(verrevcmp[at]) = Reference(at.val, at.ref)
<1> DEFINE rank == [at \in Pointers |-> Len(at.val) + Len(at.ref)]
           G == {at \in Pointers : Sign(verrevcmp[at]) = Reference(at.val, at.ref)}
<1>1. rank \in [Pointers -> Nat]
  <2>1. ASSUME NEW at \in Pointers PROVE Len(at.val) + Len(at.ref) \in Nat
    <3>1. Len(at.val) \in Nat /\ Len(at.ref) \in Nat
      BY PointersParts, At0Is
    <3>2. \A i, j \in Nat : i + j \in Nat
      OBVIOUS
    <3>3. QED BY <3>1, <3>2, Zenon
  <2>2. QED BY <2>1
<1>2. ASSUME NEW at \in Pointers, \A y \in Pointers : rank[y] < rank[at] => y \in G
      PROVE  at \in G
  <2> DEFINE t == AfterText(at)
             n == AfterNumber(at)
  <2>1. n \in Pointers /\ Round(at)
    BY RoundTells
  <2>2. verrevcmp[at] = IF at.val = <<>> /\ at.ref = <<>> THEN 0
                        ELSE IF TextTells(at) THEN order(At0(t.val)) - order(At0(t.ref))
                        ELSE IF IsDigit(At0(n.val)) THEN 1
                        ELSE IF IsDigit(At0(n.ref)) THEN -1
                        ELSE IF n.first_diff # 0 THEN n.first_diff
                        ELSE verrevcmp[n]
    BY verrevcmpIs
  <2>3. Sign(0) = 0 /\ Sign(1) = 1 /\ Sign(-1) = -1
    BY DEF Sign
  <2>4. CASE at.val = <<>> /\ at.ref = <<>>
    <3>1. verrevcmp[at] = 0
      BY <2>2, <2>4
    <3>2. Reference(at.val, at.ref) = 0
      BY <2>4, NoDifference DEF Reference
    <3>3. QED BY <2>3, <3>1, <3>2
  <2>5. CASE ~(at.val = <<>> /\ at.ref = <<>>) /\ TextTells(at)
    <3>1. verrevcmp[at] = order(At0(t.val)) - order(At0(t.ref))
      BY <2>2, <2>5, Zenon
    <3>2. Reference(at.val, at.ref) = Sign(order(At0(t.val)) - order(At0(t.ref)))
      BY <2>1, <2>5 DEF Round
    <3> HIDE DEF t, rank
    <3>3. QED BY <3>1, <3>2
  <2>6. CASE ~(at.val = <<>> /\ at.ref = <<>>) /\ ~TextTells(at) /\ NumberTells(at)
    <3>1. /\ IsDigit(At0(n.val)) => Reference(at.val, at.ref) = 1
          /\ IsDigit(At0(n.ref)) => Reference(at.val, at.ref) = -1
          /\ ~IsDigit(At0(n.val)) /\ ~IsDigit(At0(n.ref)) =>
               Reference(at.val, at.ref) = IF n.first_diff # 0 THEN Sign(n.first_diff)
                                           ELSE Reference(n.val, n.ref)
      BY <2>1, <2>6, Zenon DEF Round
    <3>2. verrevcmp[at] = IF IsDigit(At0(n.val)) THEN 1
                          ELSE IF IsDigit(At0(n.ref)) THEN -1 ELSE n.first_diff
      BY <2>2, <2>6, Zenon DEF NumberTells
    <3>3. IsDigit(At0(n.val)) \/ IsDigit(At0(n.ref)) \/ n.first_diff # 0
      BY <2>6, Zenon DEF NumberTells
    <3>4. Sign(verrevcmp[at]) = Reference(at.val, at.ref)
      <4> HIDE DEF n, t, rank
      <4>1. QED BY <2>3, <3>1, <3>2, <3>3
    <3>5. QED BY <3>4
  <2>7. CASE ~(at.val = <<>> /\ at.ref = <<>>) /\ ~TextTells(at) /\ ~NumberTells(at)
    <3>1. verrevcmp[at] = verrevcmp[n]
      BY <2>2, <2>7, Zenon DEF NumberTells
    <3>2. Reference(at.val, at.ref) = Reference(n.val, n.ref)
      BY <2>1, <2>7, Zenon DEF Round, NumberTells
    <3>3. Len(n.val) + Len(n.ref) < Len(at.val) + Len(at.ref)
      BY <2>1, <2>7, Zenon DEF Round
    <3> HIDE DEF n, t
    <3>4. rank[n] < rank[at]
      BY <2>1, <3>3
    <3>5. n \in G
      <4> HIDE DEF rank
      <4>1. QED BY <1>2, <2>1, <3>4
    <3>6. QED BY <3>1, <3>2, <3>5
  <2>8. QED BY <2>4, <2>5, <2>6, <2>7, Zenon
<1>3. \A at \in Pointers : at \in G
  <2> HIDE DEF G, rank
  <2>1. QED BY <1>1, <1>2, RankInduction
<1>4. QED BY <1>3

-----------------------------------------------------------------------------
(* The sign of the first difference orders the lists of weights.             *)
LEMMA SignIs ==
  /\ Sign(0) = 0
  /\ \A i \in Int : /\ Sign(i) \in -1 .. 1 /\ Sign(-i) = -Sign(i) /\ (Sign(i) <= 0 <=> i <= 0)
                    /\ (Sign(i) = 0 <=> i = 0)
BY DEF Sign

(* The sign of the first difference, from where it is.                       *)
LEMMA DifferenceIs ==
  ASSUME NEW v \in Seq(Int), NEW w \in Seq(Int)
  PROVE  /\ Same(v, w) => FirstDifference(v, w) = 0
         /\ \A i \in Nat \ {0} : Differ(v, w, i) =>
              /\ Weight(v, i) \in Int /\ Weight(w, i) \in Int
              /\ FirstDifference(v, w) = Sign(Weight(v, i) - Weight(w, i))
              /\ FirstDifference(v, w) # 0
              /\ FirstDifference(v, w) <= 0 <=> Weight(v, i) < Weight(w, i)
<1>1. Same(v, w) => FirstDifference(v, w) = 0
  BY NoDifference DEF Same
<1>2. ASSUME NEW i \in Nat \ {0}, Differ(v, w, i)
      PROVE  /\ Weight(v, i) \in Int /\ Weight(w, i) \in Int
             /\ FirstDifference(v, w) = Sign(Weight(v, i) - Weight(w, i))
             /\ FirstDifference(v, w) # 0
             /\ FirstDifference(v, w) <= 0 <=> Weight(v, i) < Weight(w, i)
  <2>1. Weight(v, i) \in Int /\ Weight(w, i) \in Int /\ Weight(v, i) # Weight(w, i)
    BY <1>2, WeightIs DEF Differ
  <2>2. FirstDifference(v, w) = Sign(Weight(v, i) - Weight(w, i))
    BY <1>2, DifferenceAt DEF Differ
  <2>3. \A a, b \in Int : a # b => Sign(a - b) # 0 /\ (Sign(a - b) <= 0 <=> a < b)
    BY DEF Sign
  <2>4. QED BY <2>1, <2>2, <2>3
<1>3. QED BY <1>1, <1>2

(* The first difference seen from the other list has the opposite sign.      *)
LEMMA DifferenceBack ==
  ASSUME NEW v \in Seq(Int), NEW w \in Seq(Int)
  PROVE  /\ FirstDifference(v, w) \in -1 .. 1
         /\ FirstDifference(w, v) = -FirstDifference(v, w)
<1>1. CASE Same(v, w)
  <2>1. Same(w, v)
    BY <1>1 DEF Same
  <2>2. FirstDifference(v, w) = 0 /\ FirstDifference(w, v) = 0
    BY <1>1, <2>1, DifferenceIs
  <2>3. \A i, j \in Int : i + j = 0 => j = -i
    OBVIOUS
  <2>4. 0 \in Int /\ 0 + 0 = 0 /\ 0 \in -1 .. 1
    OBVIOUS
  <2>5. FirstDifference(w, v) = -FirstDifference(v, w)
    BY <2>2, <2>3, <2>4, Zenon
  <2>6. QED BY <2>2, <2>4, <2>5, Zenon
<1>2. CASE ~Same(v, w)
  <2>1. PICK i \in Nat \ {0} : Differ(v, w, i)
    BY <1>2, SameOrDiffer
  <2>2. Differ(w, v, i)
    BY <2>1 DEF Differ
  <2>3. /\ Weight(v, i) \in Int /\ Weight(w, i) \in Int
        /\ FirstDifference(v, w) = Sign(Weight(v, i) - Weight(w, i))
        /\ FirstDifference(w, v) = Sign(Weight(w, i) - Weight(v, i))
    BY <2>1, <2>2, DifferenceIs
  <2>4. \A a, b \in Int : Sign(a - b) \in -1 .. 1 /\ Sign(b - a) = -Sign(a - b)
    BY DEF Sign
  <2>5. QED BY <2>3, <2>4
<1>3. QED BY <1>1, <1>2

(* The order of the lists of weights is transitive.                          *)
LEMMA DifferenceOn ==
  ASSUME NEW u \in Seq(Int), NEW v \in Seq(Int), NEW w \in Seq(Int),
         FirstDifference(u, v) <= 0, FirstDifference(v, w) <= 0
  PROVE  FirstDifference(u, w) <= 0
<1>1. CASE Same(u, v) /\ Same(v, w)
  <2>1. Same(u, w)
    BY <1>1 DEF Same
  <2>2. QED BY <2>1, DifferenceIs
<1>2. CASE Same(u, v) /\ ~Same(v, w)
  <2>1. PICK i \in Nat \ {0} : Differ(v, w, i)
    BY <1>2, SameOrDiffer
  <2>2. Differ(u, w, i) /\ Weight(u, i) = Weight(v, i)
    BY <1>2, <2>1 DEF Differ, Same
  <2>3. QED BY <2>1, <2>2, DifferenceIs
<1>3. CASE ~Same(u, v) /\ Same(v, w)
  <2>1. PICK i \in Nat \ {0} : Differ(u, v, i)
    BY <1>3, SameOrDiffer
  <2>2. Differ(u, w, i) /\ Weight(v, i) = Weight(w, i)
    BY <1>3, <2>1 DEF Differ, Same
  <2>3. QED BY <2>1, <2>2, DifferenceIs
<1>4. CASE ~Same(u, v) /\ ~Same(v, w)
  <2>1. PICK i \in Nat \ {0} : Differ(u, v, i)
    BY <1>4, SameOrDiffer
  <2>2. PICK j \in Nat \ {0} : Differ(v, w, j)
    BY <1>4, SameOrDiffer
  <2>3. /\ Weight(u, i) \in Int /\ Weight(v, i) \in Int /\ Weight(u, i) < Weight(v, i)
        /\ Weight(v, j) \in Int /\ Weight(w, j) \in Int /\ Weight(v, j) < Weight(w, j)
    BY <2>1, <2>2, DifferenceIs
  <2>4. /\ \A k \in Nat \ {0} : k < i => Weight(u, k) = Weight(v, k)
        /\ \A k \in Nat \ {0} : k < j => Weight(v, k) = Weight(w, k)
    BY <2>1, <2>2 DEF Differ
  <2> DEFINE k == IF i <= j THEN i ELSE j
  <2>5. k \in Nat \ {0} /\ k <= i /\ k <= j /\ (k = i \/ k = j)
    OBVIOUS
  <2> HIDE DEF k
  <2>6. Weight(u, k) < Weight(w, k)
    <3>1. CASE k = i /\ k = j
      BY <2>3, <3>1
    <3>2. CASE k = i /\ k < j
      <4>1. Weight(v, k) = Weight(w, k)
        BY <2>4, <2>5, <3>2
      <4>2. QED BY <2>3, <3>2, <4>1
    <3>3. CASE k < i /\ k = j
      <4>1. Weight(u, k) = Weight(v, k)
        BY <2>4, <2>5, <3>3
      <4>2. QED BY <2>3, <3>3, <4>1
    <3>4. QED BY <2>5, <3>1, <3>2, <3>3
  <2>7. \A l \in 1 .. k - 1 : Weight(u, l) = Weight(w, l)
    <3>1. ASSUME NEW l \in 1 .. k - 1 PROVE Weight(u, l) = Weight(w, l)
      <4>1. l \in Nat \ {0} /\ l < i /\ l < j
        BY <2>5
      <4>2. QED BY <2>4, <4>1
    <3>2. QED BY <3>1
  <2>8. Weight(u, k) \in Int /\ Weight(w, k) \in Int
    BY <2>5, WeightIs
  <2>9. Differ(u, w, k)
    BY <2>6, <2>7, <2>8 DEF Differ
  <2>10. QED BY <2>5, <2>6, <2>9, DifferenceIs
<1>5. QED BY <1>1, <1>2, <1>3, <1>4

(* The same of strings.                                                      *)
LEMMA ReferenceOrders ==
  ASSUME NEW s \in Text, NEW t \in Text, NEW u \in Text
  PROVE  /\ Reference(s, t) \in -1 .. 1 /\ Reference(t, s) = -Reference(s, t)
         /\ Reference(s, t) <= 0 /\ Reference(t, u) <= 0 => Reference(s, u) <= 0
<1>1. Weights[s] \in Seq(Int) /\ Weights[t] \in Seq(Int) /\ Weights[u] \in Seq(Int)
  BY WeightsIs
<1>2. QED BY <1>1, DifferenceBack, DifferenceOn DEF Reference

-----------------------------------------------------------------------------
(* Epochs, versions and revisions.                                           *)
LEMMA CompareIs ==
  ASSUME NEW v \in Version, NEW w \in Version
  PROVE  /\ Compare(v, w) \in Int
         /\ Sign(Compare(v, w)) =
              IF v.epoch # w.epoch THEN Sign(v.epoch - w.epoch)
              ELSE IF Reference(v.version, w.version) # 0 THEN Reference(v.version, w.version)
              ELSE Reference(v.revision, w.revision)
<1>1. /\ v.epoch \in Nat /\ v.version \in Text /\ v.revision \in Text
      /\ w.epoch \in Nat /\ w.version \in Text /\ w.revision \in Text
  BY DEF Version
<1> DEFINE p == verrevcmp[Both(v.version, w.version)]
           q == verrevcmp[Both(v.revision, w.revision)]
<1>2. p \in Int /\ Sign(p) = Reference(v.version, w.version)
  <2>1. BothIs(v.version, w.version)
    BY <1>1, BothParts
  <2>2. QED BY <2>1, verrevcmpIs, verrevcmpTells DEF BothIs
<1>3. q \in Int /\ Sign(q) = Reference(v.revision, w.revision)
  <2>1. BothIs(v.revision, w.revision)
    BY <1>1, BothParts
  <2>2. QED BY <2>1, verrevcmpIs, verrevcmpTells DEF BothIs
<1>4. Compare(v, w) = IF v.epoch # w.epoch THEN (IF v.epoch > w.epoch THEN 1 ELSE -1)
                      ELSE IF p # 0 THEN p ELSE q
  BY Zenon DEF Compare
<1> HIDE DEF p, q
<1>5. p # 0 <=> Reference(v.version, w.version) # 0
  BY <1>2, SignIs
<1>6. CASE v.epoch # w.epoch
  <2>1. Sign(IF v.epoch > w.epoch THEN 1 ELSE -1) = Sign(v.epoch - w.epoch)
    BY <1>1, <1>6 DEF Sign
  <2>2. Compare(v, w) = (IF v.epoch > w.epoch THEN 1 ELSE -1)
    BY <1>4, <1>6, Zenon
  <2>3. QED BY <1>6, <2>1, <2>2
<1>7. CASE v.epoch = w.epoch
  <2>1. Compare(v, w) = IF p # 0 THEN p ELSE q
    BY <1>4, <1>7, Zenon
  <2>2. QED BY <1>2, <1>3, <1>5, <1>7, <2>1
<1>8. QED BY <1>6, <1>7

(* pkg_compare_versions is what qsort and the choice of a candidate need: of *)
(* two versions each is told the same about the other, and what is not newer *)
(* than what is not newer is not newer (pkg_name_version_and_architecture_   *)
(* compare, pkg_hash_fetch_best_installation_candidate).                     *)
THEOREM VersionsAreOrdered ==
  \A u, v, w \in Version :
    /\ Compare(u, v) \in Int /\ Sign(Compare(v, u)) = -Sign(Compare(u, v))
    /\ Compare(u, v) <= 0 /\ Compare(v, w) <= 0 => Compare(u, w) <= 0
<1>1. ASSUME NEW u \in Version, NEW v \in Version, NEW w \in Version
      PROVE  /\ Compare(u, v) \in Int /\ Sign(Compare(v, u)) = -Sign(Compare(u, v))
             /\ Compare(u, v) <= 0 /\ Compare(v, w) <= 0 => Compare(u, w) <= 0
  <2> DEFINE Verdict(x, y) == IF x.epoch # y.epoch THEN Sign(x.epoch - y.epoch)
                           ELSE IF Reference(x.version, y.version) # 0
                                THEN Reference(x.version, y.version)
                           ELSE Reference(x.revision, y.revision)
  <2>1. /\ Compare(u, v) \in Int /\ Sign(Compare(u, v)) = Verdict(u, v)
        /\ Compare(v, u) \in Int /\ Sign(Compare(v, u)) = Verdict(v, u)
        /\ Compare(v, w) \in Int /\ Sign(Compare(v, w)) = Verdict(v, w)
        /\ Compare(u, w) \in Int /\ Sign(Compare(u, w)) = Verdict(u, w)
    BY CompareIs, Zenon
  <2>2. /\ u.epoch \in Nat /\ v.epoch \in Nat /\ w.epoch \in Nat
        /\ u.version \in Text /\ v.version \in Text /\ w.version \in Text
        /\ u.revision \in Text /\ v.revision \in Text /\ w.revision \in Text
    BY DEF Version
  <2>3. \A s, t, x \in Text :
          /\ Reference(s, t) \in -1 .. 1 /\ Reference(t, s) = -Reference(s, t)
          /\ Reference(s, t) <= 0 /\ Reference(t, x) <= 0 => Reference(s, x) <= 0
    BY ReferenceOrders
  <2>4. Verdict(v, u) = -Verdict(u, v)
    <3>1. /\ Reference(v.version, u.version) = -Reference(u.version, v.version)
          /\ Reference(v.revision, u.revision) = -Reference(u.revision, v.revision)
          /\ Reference(u.version, v.version) \in Int
          /\ Reference(u.revision, v.revision) \in Int
      BY <2>2, <2>3
    <3>2. Sign(v.epoch - u.epoch) = -Sign(u.epoch - v.epoch)
      BY <2>2 DEF Sign
    <3>3. QED BY <3>1, <3>2
  <2>5. Verdict(u, v) <= 0 /\ Verdict(v, w) <= 0 => Verdict(u, w) <= 0
    <3>1. SUFFICES ASSUME Verdict(u, v) <= 0, Verdict(v, w) <= 0 PROVE Verdict(u, w) <= 0
      OBVIOUS
    <3> DEFINE a == Reference(u.version, v.version)
               b == Reference(v.version, w.version)
               c == Reference(u.version, w.version)
               d == Reference(u.revision, v.revision)
               e == Reference(v.revision, w.revision)
               f == Reference(u.revision, w.revision)
    <3>2. /\ Reference(v.version, u.version) = -a /\ Reference(w.version, v.version) = -b
          /\ Reference(w.version, u.version) = -c
      BY <2>2, <2>3
    <3>3. /\ a \in -1 .. 1 /\ b \in -1 .. 1 /\ c \in -1 .. 1
          /\ a <= 0 /\ b <= 0 => c <= 0
          /\ b <= 0 /\ -c <= 0 => -a <= 0
          /\ -c <= 0 /\ a <= 0 => -b <= 0
          /\ d \in -1 .. 1 /\ e \in -1 .. 1 /\ f \in -1 .. 1
          /\ d <= 0 /\ e <= 0 => f <= 0
      BY <2>2, <2>3, <3>2
    <3>4. /\ u.epoch # v.epoch => u.epoch < v.epoch
          /\ v.epoch # w.epoch => v.epoch < w.epoch
      BY <2>2, <3>1, SignIs DEF Sign
    <3>5. CASE u.epoch # v.epoch \/ v.epoch # w.epoch
      <4>1. u.epoch < w.epoch
        BY <2>2, <3>4, <3>5
      <4>2. Sign(u.epoch - w.epoch) = -1 /\ u.epoch # w.epoch
        BY <2>2, <4>1 DEF Sign
      <4>3. QED BY <4>2
    <3>6. CASE u.epoch = v.epoch /\ v.epoch = w.epoch
      <4>1. /\ (IF a # 0 THEN a ELSE d) <= 0 /\ (IF b # 0 THEN b ELSE e) <= 0
            /\ Verdict(u, w) = IF c # 0 THEN c ELSE f
        BY <3>1, <3>6
      <4> HIDE DEF a, b, c, d, e, f, Verdict
      <4>2. a <= 0 /\ b <= 0
        BY <3>3, <4>1
      <4>3. c = 0 => a = 0 /\ b = 0
        BY <3>3, <4>2
      <4>4. QED BY <3>3, <4>1, <4>2, <4>3
    <3>7. QED BY <3>5, <3>6
  <2> HIDE DEF Verdict
  <2>6. QED BY <2>1, <2>4, <2>5, SignIs
<1>2. QED BY <1>1

(* What opkg answers about two strings is what their numbers, texts and      *)
(* tildes say, for all strings (opkg_compare_versions_cmd).                  *)
THEOREM OpkgVersionOrder == Spec => []VersionOrder
<1>1. Init => VersionOrder
  BY DEF Init, VersionOrder
<1>2. VersionOrder /\ [Next]_all => VersionOrder'
  <2>1. SUFFICES ASSUME VersionOrder, [Next]_all PROVE VersionOrder'
    OBVIOUS
  <2>2. CASE CompareVersions
    <3> DEFINE Only(s) == [epoch |-> 0, version |-> s, revision |-> <<>>]
    <3>1. PICK v \in Strings, w \in Strings :
            answer' = [it |-> v, ref |-> w, is |-> Sign(Compare(Only(v), Only(w)))]
      BY <2>2 DEF CompareVersions
    <3>2. v \in Text /\ w \in Text /\ <<>> \in Text
      BY StringsAssumption DEF Text
    <3>3. /\ Only(v) \in Version /\ Only(v).epoch = 0 /\ Only(v).version = v
          /\ Only(v).revision = <<>>
          /\ Only(w) \in Version /\ Only(w).epoch = 0 /\ Only(w).version = w
          /\ Only(w).revision = <<>>
      BY <3>2 DEF Version
    <3> HIDE DEF Only
    <3>4. Reference(<<>>, <<>>) = 0
      BY NoDifference DEF Reference
    <3>5. Sign(Compare(Only(v), Only(w))) = Reference(v, w)
      BY <3>3, <3>4, CompareIs
    <3>6. answer'.it = v /\ answer'.ref = w /\ answer'.is = Reference(v, w)
      BY <3>1, <3>5
    <3>7. QED BY <3>6 DEF VersionOrder
  <2>3. CASE ~CompareVersions
    <3>1. answer' = answer
      BY <2>1, <2>3 DEF Next, all, CmdInstall, CmdRemove, CmdFlag, CmdConfigure, CmdSave,
         LibInstall, LibRemove, LibUpgrade, LibUpgradeAll, LibUpgradeNext, LibConfigure, LibSave,
         Configure, ConfigureEnd, SaveOpen, SaveWrite, SaveList, Exit, Start, Interrupt, Crash,
         Edit, Done
    <3>2. QED BY <2>1, <3>1 DEF VersionOrder
  <2>4. QED BY <2>2, <2>3
<1>3. QED BY <1>1, <1>2, PTL DEF Spec

-----------------------------------------------------------------------------
(* The two comparisons of packages, by their definitions.                    *)
LEMMA BeforeIs ==
  ASSUME NEW p \in Pkg, NEW q \in Pkg
  PROVE  /\ Newer[p][q] = Compare(Info[p].version, Info[q].version)
         /\ Before[p][q] = IF NameOf(p) = NameOf(q) THEN Newer[p][q] < 0 ELSE Place(p) < Place(q)
BY DEF Newer, Before

(* A name has one place in the order of the names.                           *)
LEMMA PlaceIs ==
  ASSUME NEW p \in Pkg, NEW q \in Pkg
  PROVE  Place(p) \in Nat /\ (Place(p) = Place(q) <=> NameOf(p) = NameOf(q))
<1>1. ASSUME NEW o \in Pkg PROVE Place(o) \in DOMAIN NameSeq /\ NameSeq[Place(o)] = NameOf(o)
  <2>1. \E i \in DOMAIN NameSeq : NameSeq[i] = NameOf(o)
    BY InfoAssumption DEF Name, Range, NameOf
  <2>2. QED BY <2>1 DEF Place
<1>2. DOMAIN NameSeq = 1 .. Len(NameSeq) /\ Len(NameSeq) \in Nat
  BY PkgAssumption DEF Distinguished
<1>3. NameOf(p) = NameOf(q) => Place(p) = Place(q)
  BY DEF Place
<1>4. QED BY <1>1, <1>2, <1>3

(* The order of versions is strict and total between packages.               *)
LEMMA NewerOrders ==
  ASSUME NEW p \in Pkg, NEW q \in Pkg, NEW r \in Pkg
  PROVE  /\ ~(Newer[p][p] < 0)
         /\ Newer[p][q] < 0 /\ Newer[q][r] < 0 => Newer[p][r] < 0
         /\ p # q /\ NameOf(p) = NameOf(q) => Newer[p][q] < 0 \/ Newer[q][p] < 0
<1> DEFINE C(x, y) == Compare(Info[x].version, Info[y].version)
<1>1. Info[p].version \in Version /\ Info[q].version \in Version /\ Info[r].version \in Version
  BY PkgAssumption DEF Distinguished
<1>2. /\ Newer[p][p] = C(p, p) /\ Newer[p][q] = C(p, q) /\ Newer[q][r] = C(q, r)
      /\ Newer[p][r] = C(p, r) /\ Newer[q][p] = C(q, p)
  BY BeforeIs
<1>3. \A x, y \in {p, q, r} : C(x, y) \in Int /\ Sign(C(y, x)) = -Sign(C(x, y))
  BY <1>1, VersionsAreOrdered
<1>4. \A x, y, z \in {p, q, r} : C(x, y) <= 0 /\ C(y, z) <= 0 => C(x, z) <= 0
  BY <1>1, VersionsAreOrdered
<1> HIDE DEF C
<1>5. \A x, y \in {p, q, r} : C(x, y) < 0 <=> C(y, x) > 0
  <2>1. \A i, j \in Int : Sign(j) = -Sign(i) => (i < 0 <=> j > 0)
    BY DEF Sign
  <2>2. QED BY <1>3, <2>1
<1>6. \A x, y \in {p, q, r} : ~(C(x, y) < 0) <=> C(y, x) <= 0
  <2>1. \A i \in Int : ~(i > 0) <=> i <= 0
    OBVIOUS
  <2>2. QED BY <1>3, <1>5, <2>1
<1>7. ~(C(p, p) < 0)
  <2>1. \A i \in Int : i < 0 => ~(i > 0)
    OBVIOUS
  <2>2. QED BY <1>3, <1>5, <2>1
<1>8. C(p, q) < 0 /\ C(q, r) < 0 => C(p, r) < 0
  <2>1. SUFFICES ASSUME C(p, q) < 0, C(q, r) < 0, ~(C(p, r) < 0) PROVE FALSE
    OBVIOUS
  <2>2. C(r, p) <= 0
    BY <1>6, <2>1
  <2>3. C(p, q) <= 0
    BY <1>3, <2>1
  <2>4. C(r, q) <= 0
    BY <1>4, <2>2, <2>3
  <2>5. ~(C(q, r) < 0)
    BY <1>6, <2>4
  <2>6. QED BY <2>1, <2>5
<1>9. p # q /\ NameOf(p) = NameOf(q) => C(p, q) < 0 \/ C(q, p) < 0
  <2>1. p # q /\ NameOf(p) = NameOf(q) => C(p, q) # 0
    BY <1>2, PkgAssumption DEF Distinguished
  <2>2. \A i \in Int : i # 0 => i < 0 \/ i > 0
    OBVIOUS
  <2>3. QED BY <1>3, <1>5, <2>1, <2>2
<1>10. QED BY <1>2, <1>7, <1>8, <1>9

(* The order of packages is strict and total.                                *)
LEMMA BeforeOrders ==
  ASSUME NEW p \in Pkg, NEW q \in Pkg, NEW r \in Pkg
  PROVE  /\ ~Before[p][p]
         /\ Before[p][q] /\ Before[q][r] => Before[p][r]
         /\ p # q => Before[p][q] \/ Before[q][p]
<1>1. /\ Before[p][p] = (Newer[p][p] < 0)
      /\ Before[p][q] = IF NameOf(p) = NameOf(q) THEN Newer[p][q] < 0 ELSE Place(p) < Place(q)
      /\ Before[q][p] = IF NameOf(q) = NameOf(p) THEN Newer[q][p] < 0 ELSE Place(q) < Place(p)
      /\ Before[q][r] = IF NameOf(q) = NameOf(r) THEN Newer[q][r] < 0 ELSE Place(q) < Place(r)
      /\ Before[p][r] = IF NameOf(p) = NameOf(r) THEN Newer[p][r] < 0 ELSE Place(p) < Place(r)
  BY BeforeIs
<1>2. /\ Place(p) \in Nat /\ Place(q) \in Nat /\ Place(r) \in Nat
      /\ Place(p) = Place(q) <=> NameOf(p) = NameOf(q)
      /\ Place(q) = Place(r) <=> NameOf(q) = NameOf(r)
      /\ Place(p) = Place(r) <=> NameOf(p) = NameOf(r)
  BY PlaceIs
<1>3. /\ ~(Newer[p][p] < 0)
      /\ Newer[p][q] < 0 /\ Newer[q][r] < 0 => Newer[p][r] < 0
      /\ p # q /\ NameOf(p) = NameOf(q) => Newer[p][q] < 0 \/ Newer[q][p] < 0
  BY NewerOrders
<1>4. \A i, j, k \in Nat : /\ i < j /\ j < k => i < k /\ i # k
                           /\ i # j => i < j \/ j < i
                           /\ i < j /\ j = k => i < k
                           /\ i = j /\ j < k => i < k
  OBVIOUS
<1>5. Before[p][q] /\ Before[q][r] => Before[p][r]
  <2>1. SUFFICES ASSUME Before[p][q], Before[q][r] PROVE Before[p][r]
    OBVIOUS
  <2>2. CASE NameOf(p) = NameOf(q) /\ NameOf(q) = NameOf(r)
    BY <1>1, <1>3, <2>1, <2>2, Zenon
  <2>3. CASE NameOf(p) = NameOf(q) /\ NameOf(q) # NameOf(r)
    <3>1. Place(q) < Place(r) /\ Place(p) = Place(q) /\ NameOf(p) # NameOf(r)
      BY <1>1, <1>2, <2>1, <2>3, Zenon
    <3>2. Place(p) < Place(r)
      BY <1>2, <1>4, <3>1, Zenon
    <3>3. QED BY <1>1, <3>1, <3>2, Zenon
  <2>4. CASE NameOf(p) # NameOf(q) /\ NameOf(q) = NameOf(r)
    <3>1. Place(p) < Place(q) /\ Place(q) = Place(r) /\ NameOf(p) # NameOf(r)
      BY <1>1, <1>2, <2>1, <2>4, Zenon
    <3>2. Place(p) < Place(r)
      BY <1>2, <1>4, <3>1, Zenon
    <3>3. QED BY <1>1, <3>1, <3>2, Zenon
  <2>5. CASE NameOf(p) # NameOf(q) /\ NameOf(q) # NameOf(r)
    <3>1. Place(p) < Place(q) /\ Place(q) < Place(r)
      BY <1>1, <2>1, <2>5, Zenon
    <3>2. Place(p) < Place(r) /\ Place(p) # Place(r)
      BY <1>2, <1>4, <3>1, Zenon
    <3>3. QED BY <1>1, <1>2, <3>2, Zenon
  <2>6. QED BY <2>2, <2>3, <2>4, <2>5, Zenon
<1>6. p # q => Before[p][q] \/ Before[q][p]
  <2>1. CASE NameOf(p) = NameOf(q)
    BY <1>1, <1>3, <2>1, Zenon
  <2>2. CASE NameOf(p) # NameOf(q)
    <3>1. Place(p) < Place(q) \/ Place(q) < Place(p)
      BY <1>2, <1>4, <2>2, Zenon
    <3>2. QED BY <1>1, <2>2, <3>1, Zenon
  <2>3. QED BY <2>1, <2>2
<1>7. ~Before[p][p]
  BY <1>1, <1>3, Zenon
<1>8. QED BY <1>5, <1>6, <1>7

(* Of the candidates, one is later than all others: the package that a name  *)
(* stands for does not depend on the order in which the feeds were read      *)
(* (pkg_hash_fetch_best_installation_candidate).                             *)
THEOREM LatestIsTheLast ==
  ASSUME NEW S \in SUBSET Pkg, IsFiniteSet(S), S # {}
  PROVE  /\ Latest(S) \in S
         /\ \A q \in S \ {Latest(S)} : Before[q][Latest(S)] /\ ~Before[Latest(S)][q]
<1> DEFINE Above(p) == {q \in S : Before[p][q]}
           B == {Cardinality(Above(p)) : p \in S}
<1>1. ASSUME NEW p \in S PROVE IsFiniteSet(Above(p)) /\ Cardinality(Above(p)) \in Nat
  <2>1. Above(p) \in SUBSET S
    OBVIOUS
  <2> HIDE DEF Above
  <2>2. QED BY <2>1, FS_Subset, FS_CardinalityType
<1>2. B \in SUBSET Nat /\ B # {}
  <2> HIDE DEF Above
  <2>1. QED BY <1>1
<1>3. PICK m \in B : \A n \in B : m <= n
  <2> HIDE DEF B
  <2>1. QED BY <1>2, LeastNat
<1>4. PICK p \in S : Cardinality(Above(p)) = m
  <2> HIDE DEF Above
  <2>1. QED OBVIOUS
<1>5. ASSUME NEW q \in S \ {p} PROVE Before[q][p]
  <2>1. SUFFICES ASSUME ~Before[q][p] PROVE FALSE
    OBVIOUS
  <2>2. Before[p][q] /\ ~Before[q][q]
    BY <2>1, BeforeOrders
  <2>3. Above(q) \in SUBSET Above(p)
    <3>1. ASSUME NEW r \in Above(q) PROVE r \in Above(p)
      BY <2>2, BeforeOrders
    <3>2. QED BY <3>1
  <2>4. q \in Above(p) /\ q \notin Above(q)
    BY <2>2
  <2> HIDE DEF Above, B
  <2>5. /\ IsFiniteSet(Above(p)) /\ Cardinality(Above(p)) \in Nat
        /\ Cardinality(Above(q)) \in Nat
    BY <1>1
  <2>6. /\ Cardinality(Above(q)) <= Cardinality(Above(p))
        /\ Cardinality(Above(q)) # Cardinality(Above(p))
    BY <2>3, <2>4, <2>5, FS_Subset
  <2>7. m <= Cardinality(Above(q))
    BY <1>3 DEF B
  <2>8. QED BY <1>4, <2>5, <2>6, <2>7
<1>6. Latest(S) = CHOOSE x \in S : \A q \in S \ {x} : Before[q][x]
  BY DEF Latest
<1>7. Latest(S) \in S /\ \A q \in S \ {Latest(S)} : Before[q][Latest(S)]
  <2> HIDE DEF Above, B
  <2>1. QED BY <1>5, <1>6
<1>8. ASSUME NEW q \in S \ {Latest(S)} PROVE ~Before[Latest(S)][q]
  <2>1. Before[q][Latest(S)]
    BY <1>7
  <2>2. Before[Latest(S)][q] => Before[q][q]
    BY <1>7, <2>1, BeforeOrders
  <2>3. QED BY <2>2, BeforeOrders
<1>9. QED BY <1>7, <1>8

-----------------------------------------------------------------------------
(* Packages in order.                                                        *)

(* A set of packages is finite.                                              *)
LEMMA PkgsFinite ==
  ASSUME NEW S \in SUBSET Pkg
  PROVE  IsFiniteSet(S) /\ Cardinality(S) \in Nat /\ (Cardinality(S) = 0 <=> S = {})
BY PkgAssumption, FS_Subset, FS_CardinalityType, FS_EmptySet

(* Those of S that come before a package; a later one has more before it.    *)
Prior(S, p) == {q \in S : Before[q][p]}

(* A later package has more before it.                                       *)
LEMMA PriorGrows ==
  ASSUME NEW S \in SUBSET Pkg, NEW p \in S, NEW q \in S, Before[p][q]
  PROVE  /\ Cardinality(Prior(S, p)) < Cardinality(Prior(S, q))
         /\ Cardinality(Prior(S, p)) \in Nat /\ Cardinality(Prior(S, q)) \in Nat
<1>1. Prior(S, p) \subseteq Prior(S, q)
  BY BeforeOrders DEF Prior
<1>2. p \in Prior(S, q) /\ p \notin Prior(S, p)
  BY BeforeOrders DEF Prior
<1>3. Prior(S, p) \in SUBSET Pkg /\ Prior(S, q) \in SUBSET Pkg
  BY DEF Prior
<1>4. /\ IsFiniteSet(Prior(S, q)) /\ Cardinality(Prior(S, q)) \in Nat
      /\ Cardinality(Prior(S, p)) \in Nat
  BY <1>3, PkgsFinite
<1>5. /\ Cardinality(Prior(S, p)) <= Cardinality(Prior(S, q))
      /\ Cardinality(Prior(S, q)) = Cardinality(Prior(S, p)) => Prior(S, q) = Prior(S, p)
  BY <1>1, <1>4, FS_Subset
<1>6. QED BY <1>2, <1>4, <1>5

(* Each place in the order of a set is that of one package.                  *)
LEMMA PlacesTaken ==
  ASSUME NEW S \in SUBSET Pkg
  PROVE  \A i \in 1 .. Cardinality(S) : \E p \in S : Cardinality(Prior(S, p)) = i - 1
<1> DEFINE n == Cardinality(S)
           T == 0 .. n - 1
           f == [p \in S |-> Cardinality(Prior(S, p))]
<1>1. IsFiniteSet(S) /\ n \in Nat
  BY PkgsFinite
<1>2. ASSUME NEW p \in S PROVE f[p] \in T
  <2>1. Prior(S, p) \in SUBSET S /\ p \notin Prior(S, p)
    BY BeforeOrders DEF Prior
  <2>2. /\ Cardinality(Prior(S, p)) <= n /\ Cardinality(Prior(S, p)) \in Nat
        /\ n = Cardinality(Prior(S, p)) => S = Prior(S, p)
    BY <1>1, <2>1, FS_Subset, FS_CardinalityType
  <2>3. QED BY <1>1, <2>1, <2>2
<1>3. ASSUME NEW p \in S, NEW q \in S, p # q PROVE f[p] # f[q]
  <2>1. Before[p][q] \/ Before[q][p]
    BY <1>3, BeforeOrders
  <2>2. QED BY <2>1, PriorGrows
<1>4. f \in Injection(S, T)
  BY <1>2, <1>3 DEF Injection, IsInjective
<1>5. IsFiniteSet(T) /\ Cardinality(T) = n
  <2>1. 0 \in Int /\ n - 1 \in Int
    BY <1>1
  <2>2. IsFiniteSet(T) /\ Cardinality(T) = IF 0 > n - 1 THEN 0 ELSE n - 1 - 0 + 1
    BY <2>1, FS_Interval
  <2>3. QED BY <1>1, <2>2
<1>6. f \in Surjection(S, T)
  <2> HIDE DEF f, T
  <2>1. QED BY <1>4, <1>5, FS_Injection
<1>7. ASSUME NEW i \in 1 .. n PROVE \E p \in S : Cardinality(Prior(S, p)) = i - 1
  <2>1. i - 1 \in T
    BY <1>1
  <2>2. \E p \in S : f[p] = i - 1
    <3> HIDE DEF f, T
    <3>1. QED BY <1>6, <2>1 DEF Surjection
  <2>3. QED BY <2>2
<1>8. QED BY <1>7

(* The first of a set of packages, and the last.                             *)
LEMMA EarliestIs ==
  ASSUME NEW S \in SUBSET Pkg
  PROVE  /\ S = {} => Earliest(S) = None
         /\ S # {} => Earliest(S) \in S
         /\ Earliest(S) \in Pkg \cup {None}
<1>1. SUFFICES ASSUME S # {} PROVE Earliest(S) \in S
  BY DEF Earliest
<1>2. Cardinality(S) \in Nat /\ Cardinality(S) # 0
  BY <1>1, PkgsFinite
<1>3. PICK p \in S : Cardinality(Prior(S, p)) = 0
  <2>1. 1 \in 1 .. Cardinality(S)
    BY <1>2
  <2>2. \E p \in S : Cardinality(Prior(S, p)) = 1 - 1
    BY <2>1, PlacesTaken
  <2>3. QED BY <2>2
<1>4. Prior(S, p) = {}
  <2>1. Prior(S, p) \in SUBSET Pkg
    BY DEF Prior
  <2>2. QED BY <1>3, <2>1, PkgsFinite
<1>5. \A q \in S \ {p} : Before[p][q]
  BY <1>4, BeforeOrders DEF Prior
<1>6. QED BY <1>1, <1>5 DEF Earliest

(* The latest of a set of packages is one of them.                           *)
LEMMA LatestIs ==
  ASSUME NEW S \in SUBSET Pkg
  PROVE  /\ S = {} => Latest(S) = None
         /\ S # {} => Latest(S) \in S
         /\ Latest(S) \in Pkg \cup {None}
<1>1. S # {} => Latest(S) \in S
  BY PkgsFinite, LatestIsTheLast
<1>2. QED BY <1>1 DEF Latest

(* Sorting a set of packages lists each of them once.                        *)
LEMMA SortedIs ==
  ASSUME NEW S \in SUBSET Pkg
  PROVE  /\ Sorted(S) \in Seq(S) /\ Sorted(S) \in Seq(Pkg)
         /\ Range(Sorted(S)) = S
         /\ Len(Sorted(S)) = Cardinality(S)
<1> DEFINE n == Cardinality(S)
           At1(i) == CHOOSE p \in S : Cardinality(Prior(S, p)) = i - 1
<1>1. n \in Nat /\ IsFiniteSet(S)
  BY PkgsFinite
<1>2. Sorted(S) = [i \in 1 .. n |-> At1(i)]
  BY DEF Sorted, Prior
<1>3. \A i \in 1 .. n : At1(i) \in S /\ Cardinality(Prior(S, At1(i))) = i - 1
  BY PlacesTaken
<1>4. Sorted(S) \in Seq(S) /\ Len(Sorted(S)) = n
  <2> HIDE DEF At1
  <2>1. QED BY <1>1, <1>2, <1>3
<1>5. ASSUME NEW p \in S PROVE \E i \in 1 .. n : At1(i) = p
  <2>1. Prior(S, p) \in SUBSET S /\ p \notin Prior(S, p)
    BY BeforeOrders DEF Prior
  <2>2. /\ Cardinality(Prior(S, p)) \in Nat /\ Cardinality(Prior(S, p)) <= n
        /\ n = Cardinality(Prior(S, p)) => S = Prior(S, p)
    BY <1>1, <2>1, FS_Subset, FS_CardinalityType
  <2>3. Cardinality(Prior(S, p)) + 1 \in 1 .. n
    BY <1>1, <2>1, <2>2
  <2> DEFINE i == Cardinality(Prior(S, p)) + 1
  <2>4. At1(i) \in S /\ Cardinality(Prior(S, At1(i))) = Cardinality(Prior(S, p))
    <3>1. i \in 1 .. n /\ i - 1 = Cardinality(Prior(S, p))
      BY <2>2, <2>3
    <3> HIDE DEF i, At1
    <3>2. QED BY <1>3, <3>1
  <2>5. At1(i) = p
    <3> HIDE DEF i, At1
    <3>1. SUFFICES ASSUME At1(i) # p PROVE FALSE
      OBVIOUS
    <3>2. Before[At1(i)][p] \/ Before[p][At1(i)]
      BY <2>4, <3>1, BeforeOrders
    <3>3. QED BY <2>4, <3>2, PriorGrows
  <2>6. QED BY <2>3, <2>5
<1>6. Range(Sorted(S)) = S
  <2> HIDE DEF At1
  <2>1. QED BY <1>1, <1>2, <1>3, <1>5 DEF Range
<1>7. Sorted(S) \in Seq(Pkg)
  BY <1>4
<1>8. QED BY <1>4, <1>6, <1>7

-----------------------------------------------------------------------------
(* Lists of dependencies.                                                    *)

(* Joining lists of elements of T makes such a list.                         *)
LEMMA FlattenIs ==
  ASSUME NEW T, NEW s \in Seq(Seq(T))
  PROVE  FlattenSeq(s) \in Seq(T)
<1> DEFINE n == Len(s)
<1>1. n \in Nat /\ \A i \in 1 .. n : s[i] \in Seq(T)
  OBVIOUS
<1>2. CASE n = 0
  <2>1. s = <<>>
    BY <1>2, EmptySeq
  <2>2. FlattenSeq(s) = s
    BY <1>2 DEF FlattenSeq
  <2>3. <<>> \in Seq(T)
    OBVIOUS
  <2>4. QED BY <2>1, <2>2, <2>3
<1>3. CASE n # 0
  <2> DEFINE X == 1 .. n
             F == {1}
             next == [i \in X |-> IF i = 1 THEN 1 ELSE i - 1]
             rank == [i \in X |-> i]
             comb == [p \in X \X Seq(T) |-> p[2] \o s[p[1]]]
             flatten == CHOOSE f : f = [i \in 1 .. Len(s) |->
                                          IF i = 1 THEN s[i] ELSE f[i - 1] \o s[i]]
  <2>1. s \in [X -> Seq(T)] /\ next \in [X -> X] /\ rank \in [X -> Nat]
    BY <1>1
  <2>2. comb \in [X \X Seq(T) -> Seq(T)]
    BY <1>1, ConcatIs
  <2>3. \A i \in X \ F : rank[next[i]] < rank[i]
    OBVIOUS
  <2>4. \E f : Loop(f, X, F, s, next, comb)
    <3> HIDE DEF X, F, next, rank, comb
    <3>1. QED BY <2>1, <2>2, <2>3, LoopExists
  <2>5. PICK f : Loop(f, X, F, s, next, comb)
    BY <2>4
  <2>6. f \in [X -> Seq(T)]
    <3> HIDE DEF X, F, next, rank, comb
    <3>1. QED BY <2>1, <2>2, <2>3, <2>5, LoopTyped
  <2>7. f = [i \in 1 .. Len(s) |-> IF i = 1 THEN s[i] ELSE f[i - 1] \o s[i]]
    <3> DEFINE h == [i \in X |-> IF i = 1 THEN s[i] ELSE f[i - 1] \o s[i]]
    <3>1. ASSUME NEW i \in X PROVE f[i] = h[i]
      <4>1. f[i] = IF i \in F THEN s[i] ELSE comb[<<i, f[next[i]]>>]
        <5> HIDE DEF X, F, next, comb
        <5>1. QED BY <2>5 DEF Loop
      <4>2. CASE i = 1
        BY <4>1, <4>2
      <4>3. CASE i # 1
        <5>1. i - 1 \in X /\ next[i] = i - 1 /\ i \notin F
          BY <4>3
        <5>2. comb[<<i, f[i - 1]>>] = f[i - 1] \o s[i]
          BY <2>6, <5>1
        <5> HIDE DEF comb, next, F
        <5>3. QED BY <4>1, <4>3, <5>1, <5>2
      <4>4. QED BY <4>2, <4>3
    <3>2. DOMAIN f = X
      BY <2>6
    <3>3. f = [i \in X |-> f[i]]
      BY <2>6
    <3>4. QED BY <3>1, <3>3
  <2>8. flatten = [i \in 1 .. Len(s) |-> IF i = 1 THEN s[i] ELSE flatten[i - 1] \o s[i]]
    BY <2>7
  <2>9. Loop(flatten, X, F, s, next, comb)
    <3> DEFINE h == [i \in X |-> IF i \in F THEN s[i] ELSE comb[<<i, flatten[next[i]]>>]]
    <3> HIDE DEF flatten
    <3> DEFINE G == {i \in X : flatten[i] \in Seq(T)}
    <3>1. ASSUME NEW i \in X, \A j \in X : rank[j] < rank[i] => j \in G PROVE i \in G
      <4>1. CASE i = 1
        BY <1>1, <2>8, <4>1
      <4>2. CASE i # 1
        <5>1. i - 1 \in X /\ rank[i - 1] < rank[i]
          BY <4>2
        <5>2. flatten[i - 1] \in Seq(T) /\ s[i] \in Seq(T)
          BY <1>1, <3>1, <5>1
        <5>3. flatten[i] = flatten[i - 1] \o s[i]
          BY <2>8, <4>2
        <5>4. flatten[i - 1] \o s[i] \in Seq(T)
          BY <5>2, ConcatIs
        <5>5. QED BY <5>3, <5>4
      <4>3. QED BY <4>1, <4>2
    <3>2. \A i \in X : i \in G
      <4> HIDE DEF G, rank, X
      <4>1. QED BY <2>1, <3>1, RankInduction
    <3>3. ASSUME NEW i \in X PROVE flatten[i] = h[i]
      <4>1. CASE i = 1
        BY <2>8, <4>1
      <4>2. CASE i # 1
        <5>1. i - 1 \in X /\ next[i] = i - 1 /\ i \notin F
          BY <4>2
        <5>2. comb[<<i, flatten[i - 1]>>] = flatten[i - 1] \o s[i]
          BY <3>2, <5>1
        <5>3. flatten[i] = flatten[i - 1] \o s[i]
          BY <2>8, <4>2
        <5> HIDE DEF comb, next, F
        <5>4. QED BY <5>1, <5>2, <5>3
      <4>3. QED BY <4>1, <4>2
    <3>4. flatten = h
      BY <2>8, <3>3
    <3>5. QED BY <3>4 DEF Loop
  <2>10. flatten \in [X -> Seq(T)]
    <3> HIDE DEF X, F, next, rank, comb, flatten
    <3>1. QED BY <2>1, <2>2, <2>3, <2>9, LoopTyped
  <2>11. FlattenSeq(s) = flatten[n]
    BY <1>3 DEF FlattenSeq
  <2> HIDE DEF flatten
  <2>12. QED BY <1>1, <1>3, <2>10, <2>11
<1>4. QED BY <1>2, <1>3

(* The names among the alternatives of dependencies.                         *)
AltName == {alt.name : alt \in Alternatives}

(* The names among the alternatives of dependencies.                         *)
LEMMA DependNamesIs ==
  ASSUME NEW p \in Pkg, NEW types
  PROVE  DependNames(p, types) \in Seq(AltName)
<1> DEFINE deps == Info[p].depends
           names == [i \in DOMAIN deps |->
                       IF deps[i].type \in types
                       THEN [j \in DOMAIN deps[i].alts |-> deps[i].alts[j].name] ELSE <<>>]
<1>1. deps \in Seq(Range(deps)) /\ DOMAIN deps = 1 .. Len(deps) /\ Len(deps) \in Nat
  BY DependsAssumption
<1>2. ASSUME NEW i \in DOMAIN deps PROVE names[i] \in Seq(AltName)
  <2>1. deps[i].alts \in Seq(Range(deps[i].alts))
    BY <1>1, DependsAssumption DEF Range
  <2>2. DOMAIN deps[i].alts = 1 .. Len(deps[i].alts) /\ Len(deps[i].alts) \in Nat
    BY <2>1
  <2>3. ASSUME NEW j \in DOMAIN deps[i].alts PROVE deps[i].alts[j].name \in AltName
    <3>1. deps[i].alts[j] \in Range(deps[i].alts)
      BY DEF Range
    <3>2. Range(deps[i].alts) \in {Range(Info[p].depends[k].alts) : k \in DOMAIN Info[p].depends}
      OBVIOUS
    <3>3. deps[i].alts[j] \in Alternatives
      BY <3>1, <3>2 DEF Alternatives
    <3>4. QED BY <3>3 DEF AltName
  <2>4. [j \in DOMAIN deps[i].alts |-> deps[i].alts[j].name] \in Seq(AltName)
    <3> HIDE DEF deps
    <3>1. QED BY <2>2, <2>3
  <2>5. <<>> \in Seq(AltName)
    OBVIOUS
  <2>6. QED BY <2>4, <2>5
<1>3. names \in Seq(Seq(AltName))
  <2>1. names = [i \in 1 .. Len(deps) |-> names[i]]
    BY <1>1
  <2>2. \A i \in 1 .. Len(deps) : names[i] \in Seq(AltName)
    BY <1>1, <1>2
  <2> DEFINE m == Len(deps)
             W == Seq(AltName)
  <2>3. m \in Nat /\ names = [i \in 1 .. m |-> names[i]] /\ \A i \in 1 .. m : names[i] \in W
    BY <1>1, <2>1, <2>2
  <2> HIDE DEF names, m, W
  <2>4. names \in [1 .. m -> W]
    BY <2>3
  <2>5. names \in Seq(W)
    BY <2>3, <2>4
  <2>6. QED BY <2>5 DEF W
<1>4. DependNames(p, types) = FlattenSeq(names)
  BY DEF DependNames
<1> HIDE DEF names
<1>5. QED BY <1>3, <1>4, FlattenIs

(* The three lists of names of a package.                                    *)
LEMMA NamesOf ==
  ASSUME NEW p \in Pkg
  PROVE  Depends[p] \in Seq(AltName) /\ Needs[p] \in Seq(AltName) /\ Wishes[p] \in Seq(AltName)
BY DependNamesIs DEF Depends, Needs, Wishes

(* There is a largest of the numbers of a function on the packages.          *)
LEMMA PkgBound ==
  ASSUME NEW f \in [Pkg -> Nat]
  PROVE  \E k \in Nat : \A p \in Pkg : f[p] <= k
<1> DEFINE bounded == {S \in SUBSET Pkg : \E k \in Nat : \A p \in S : f[p] <= k}
           rank == [S \in SUBSET Pkg |-> Cardinality(S)]
<1>1. rank \in [SUBSET Pkg -> Nat]
  BY PkgsFinite
<1>2. ASSUME NEW S \in SUBSET Pkg, \A R \in SUBSET Pkg : rank[R] < rank[S] => R \in bounded
      PROVE  S \in bounded
  <2>1. CASE S = {}
    BY <2>1
  <2>2. CASE S # {}
    <3>1. PICK p \in S : TRUE
      BY <2>2
    <3>2. IsFiniteSet(S) /\ Cardinality(S) \in Nat
      BY PkgsFinite
    <3>3. Cardinality(S \ {p}) = Cardinality(S) - 1
      BY <3>1, <3>2, FS_RemoveElement
    <3>4. S \ {p} \in bounded
      <4>1. S \ {p} \in SUBSET Pkg /\ rank[S \ {p}] < rank[S]
        BY <3>2, <3>3
      <4> HIDE DEF bounded, rank
      <4>2. QED BY <1>2, <4>1
    <3>7. PICK k \in Nat : \A q \in S \ {p} : f[q] <= k
      BY <3>4
    <3>5. f[p] + k \in Nat /\ \A q \in S : f[q] <= f[p] + k
      BY <3>1, <3>7
    <3>6. QED BY <3>5
  <2>3. QED BY <2>1, <2>2
<1>3. \A S \in SUBSET Pkg : S \in bounded
  <2> DEFINE X == SUBSET Pkg
  <2>1. rank \in [X -> Nat]
    BY <1>1
  <2>2. \A S \in X : (\A R \in X : rank[R] < rank[S] => R \in bounded) => S \in bounded
    BY <1>2
  <2> HIDE DEF bounded, rank, X
  <2>3. \A S \in X : S \in bounded
    BY <2>1, <2>2, RankInduction
  <2>4. QED BY <2>3 DEF X
<1>4. Pkg \in bounded
  <2> HIDE DEF bounded
  <2>1. QED BY <1>3
<1>5. QED BY <1>4

(* The names are finitely many.                                              *)
LEMMA NamesFinite ==
  ASSUME NEW S \in SUBSET Name
  PROVE  IsFiniteSet(S) /\ Cardinality(S) \in Nat /\ (Cardinality(S) = 0 <=> S = {})
<1>1. NameSeq \in Seq(Name)
  BY PkgAssumption DEF Distinguished
<1>2. Len(NameSeq) \in Nat /\ DOMAIN NameSeq = 1 .. Len(NameSeq)
  BY <1>1
<1>3. NameSeq \in Surjection(1 .. Len(NameSeq), Name)
  BY <1>1, <1>2 DEF Surjection, Name, Range
<1>4. IsFiniteSet(1 .. Len(NameSeq))
  BY <1>2, FS_Interval
<1>5. IsFiniteSet(Name)
  BY <1>3, <1>4, FS_Surjection
<1>6. QED BY <1>5, FS_Subset, FS_CardinalityType, FS_EmptySet

-----------------------------------------------------------------------------
(* The order in which packages are configured.                               *)

(* The packages that are there, and what a package needs of them.            *)
There(d) == {p \in d.known : d.status[p] # "not_installed"}
Below1(d, p) == [i \in DOMAIN Wishes[p] |-> PresentProvider(d, Wishes[p][i])]

(* The provider of a name is a package that is there.                        *)
LEMMA ProviderIs ==
  ASSUME NEW d, d.known \in SUBSET Pkg, NEW n
  PROVE  PresentProvider(d, n) \in There(d) \cup {None}
<1> DEFINE found == {m \in Providers(d, n) : PresentOf(d, m) # {}}
           m == CHOOSE m \in found : TRUE
<1>1. CASE found = {}
  BY <1>1 DEF PresentProvider
<1>2. CASE found # {}
  <2>1. m \in found
    BY <1>2
  <2>2. PresentOf(d, m) # {}
    BY <2>1
  <2>3. PresentOf(d, m) \in SUBSET Pkg /\ PresentOf(d, m) \subseteq There(d)
    BY DEF PresentOf, Records, There
  <2>4. Earliest(PresentOf(d, m)) \in PresentOf(d, m)
    BY <2>2, <2>3, EarliestIs
  <2>5. PresentProvider(d, n) = Earliest(PresentOf(d, m))
    BY <1>2 DEF PresentProvider
  <2>6. QED BY <2>3, <2>4, <2>5
<1>3. QED BY <1>1, <1>2

(* What is put before a package on the list.                                 *)
LEMMA BelowIs ==
  ASSUME NEW d, d.known \in SUBSET Pkg, NEW p \in Pkg
  PROVE  /\ Below1(d, p) \in Seq(There(d) \cup {None})
         /\ Len(Below1(d, p)) = Len(Wishes[p]) /\ Len(Wishes[p]) \in Nat
         /\ DOMAIN Below1(d, p) = DOMAIN Wishes[p]
         /\ \A i \in DOMAIN Wishes[p] : Below1(d, p)[i] = PresentProvider(d, Wishes[p][i])
<1> DEFINE n == Len(Wishes[p])
           T == There(d) \cup {None}
           f == [i \in 1 .. n |-> PresentProvider(d, Wishes[p][i])]
<1>1. n \in Nat /\ DOMAIN Wishes[p] = 1 .. n
  BY NamesOf
<1>2. Below1(d, p) = f
  BY <1>1 DEF Below1
<1>3. \A i \in 1 .. n : f[i] \in T
  BY ProviderIs
<1>4. f \in Seq(T) /\ Len(f) = n /\ DOMAIN f = 1 .. n
  <2>1. f = [i \in 1 .. n |-> f[i]]
    OBVIOUS
  <2> HIDE DEF f, T, n
  <2>2. QED BY <1>1, <1>3, <2>1
<1>5. \A i \in DOMAIN Wishes[p] : Below1(d, p)[i] = PresentProvider(d, Wishes[p][i])
  BY <1>1, <1>2
<1>6. QED BY <1>1, <1>2, <1>4, <1>5

(* The list of what to visit.                                                *)
LEMMA ToVisitIs ==
  ASSUME NEW ps \in Seq(Pkg \cup {None})
  PROVE  /\ ToVisit(ps) \in Seq(ToDo) /\ Len(ToVisit(ps)) = Len(ps) /\ Len(ps) \in Nat
         /\ \A i \in 1 .. Len(ps) : ToVisit(ps)[i].p = ps[i] /\ ~ToVisit(ps)[i].below
<1> DEFINE n == Len(ps)
           f == [i \in 1 .. n |-> [p |-> ps[i], below |-> FALSE]]
<1>1. n \in Nat /\ DOMAIN ps = 1 .. n /\ \A i \in 1 .. n : ps[i] \in Pkg \cup {None}
  OBVIOUS
<1>2. ToVisit(ps) = f
  BY <1>1 DEF ToVisit
<1>3. \A i \in 1 .. n : f[i] \in ToDo /\ f[i].p = ps[i] /\ ~f[i].below
  BY <1>1 DEF ToDo
<1>4. f \in Seq(ToDo) /\ Len(f) = n
  <2>1. f = [i \in 1 .. n |-> f[i]]
    OBVIOUS
  <2> HIDE DEF f, n
  <2>2. QED BY <1>1, <1>3, <2>1
<1>5. QED BY <1>1, <1>2, <1>3, <1>4

(* The three things a visit can be: a package is done, there is nothing to   *)
(* do for it, or what it needs goes before it.                               *)
Finishes(t) == t.todo[1].below
Enters(d, t) ==
  /\ ~t.todo[1].below /\ t.todo[1].p # None /\ d.status[t.todo[1].p] # "not_installed"
  /\ NameOf(t.todo[1].p) \notin t.visited
Passes(d, t) == ~Finishes(t) /\ ~Enters(d, t)
Marker(p) == [p |-> p, below |-> TRUE]

(* What one visit of the recursion for the order does, in each of its three  *)
(* cases.                                                                    *)
LEMMA VisitIs ==
  ASSUME NEW d, d.known \in SUBSET Pkg, NEW t \in Tour, t.todo # <<>>
  PROVE  LET p == t.todo[1].p
             v == Visit(d, t)
         IN  /\ v \in Tour
             /\ Finishes(t) => /\ p \in Pkg /\ v.visited = t.visited
                               /\ v.ordered = Append(t.ordered, p) /\ v.todo = Tail(t.todo)
             /\ Passes(d, t) => /\ v.visited = t.visited /\ v.ordered = t.ordered
                                /\ v.todo = Tail(t.todo)
             /\ Enters(d, t) => /\ p \in Pkg /\ v.visited = t.visited \cup {NameOf(p)}
                                /\ v.ordered = t.ordered
                                /\ v.todo = (ToVisit(Below1(d, p)) \o <<Marker(p)>>) \o Tail(t.todo)
<1> DEFINE p == t.todo[1].p
           v == Visit(d, t)
           rest == Tail(t.todo)
<1>1. /\ t.visited \in SUBSET Name /\ t.ordered \in Seq(Pkg) /\ t.todo \in Seq(ToDo)
      /\ DOMAIN t = {"visited", "ordered", "todo"}
  BY DEF Tour
<1>2. Head(t.todo) = t.todo[1] /\ t.todo[1] \in ToDo /\ rest \in Seq(ToDo)
  BY <1>1, TailIs
<1>3. p \in Pkg \cup {None} /\ (t.todo[1].below => p \in Pkg) /\ t.todo[1].below \in BOOLEAN
  BY <1>2 DEF ToDo
<1>4. CASE Finishes(t)
  <2>1. v = [[t EXCEPT !.todo = rest] EXCEPT !.ordered = Append(@, p)]
    BY <1>2, <1>4 DEF Visit, Finishes
  <2>2. v.visited = t.visited /\ v.ordered = Append(t.ordered, p) /\ v.todo = rest
    BY <1>1, <2>1 DEF Tour
  <2>3. p \in Pkg /\ Append(t.ordered, p) \in Seq(Pkg)
    BY <1>1, <1>3, <1>4, AppendIs DEF Finishes
  <2>4. v = [visited |-> t.visited, ordered |-> Append(t.ordered, p), todo |-> rest]
    BY <1>1, <2>1 DEF Tour
  <2>5. v \in Tour
    BY <1>1, <1>2, <2>3, <2>4 DEF Tour
  <2>6. ~Passes(d, t) /\ ~Enters(d, t)
    BY <1>4 DEF Passes, Finishes, Enters
  <2>7. QED BY <2>2, <2>3, <2>5, <2>6
<1>5. CASE Passes(d, t)
  <2>1. v = [t EXCEPT !.todo = rest]
    BY <1>2, <1>5 DEF Visit, Finishes, Passes, Enters
  <2>2. v.visited = t.visited /\ v.ordered = t.ordered /\ v.todo = rest
    BY <1>1, <2>1 DEF Tour
  <2>3. v = [visited |-> t.visited, ordered |-> t.ordered, todo |-> rest]
    BY <1>1, <2>1 DEF Tour
  <2>4. v \in Tour
    BY <1>1, <1>2, <2>3 DEF Tour
  <2>5. ~Finishes(t) /\ ~Enters(d, t)
    BY <1>5 DEF Passes
  <2>6. QED BY <2>2, <2>4, <2>5
<1>6. CASE Enters(d, t)
  <2> DEFINE todo == (ToVisit(Below1(d, p)) \o <<Marker(p)>>) \o rest
  <2>1. p \in Pkg
    BY <1>3, <1>6 DEF Enters
  <2>2. ToVisit(Below1(d, p)) \in Seq(ToDo)
    <3>1. Below1(d, p) \in Seq(Pkg \cup {None})
      <4>1. Below1(d, p) \in Seq(There(d) \cup {None}) /\ There(d) \subseteq Pkg
        BY <2>1, BelowIs DEF There
      <4>2. QED BY <4>1
    <3>2. QED BY <3>1, ToVisitIs
  <2>3. <<Marker(p)>> \in Seq(ToDo)
    BY <2>1 DEF Marker, ToDo
  <2>4. todo \in Seq(ToDo)
    BY <1>2, <2>2, <2>3, ConcatIs
  <2>5. v = [[t EXCEPT !.todo = rest] EXCEPT !.visited = @ \cup {NameOf(p)},
               !.todo = ToVisit(Below1(d, p)) \o <<Marker(p)>> \o @]
    BY <1>2, <1>6 DEF Visit, Enters, Below1, Marker
  <2>6. NameOf(p) \in Name
    BY <2>1, InfoAssumption DEF NameOf
  <2>7. v = [visited |-> t.visited \cup {NameOf(p)}, ordered |-> t.ordered, todo |-> todo]
    BY <1>1, <2>5 DEF Tour
  <2> HIDE DEF todo, v
  <2>8. v \in Tour
    BY <1>1, <2>4, <2>6, <2>7 DEF Tour
  <2>9. ~Finishes(t) /\ ~Passes(d, t)
    BY <1>6 DEF Passes, Finishes, Enters
  <2>10. v.visited = t.visited \cup {NameOf(p)} /\ v.ordered = t.ordered /\ v.todo = todo
    BY <2>7
  <2>11. QED BY <2>1, <2>8, <2>9, <2>10, Zenon DEF todo, v
<1>7. QED BY <1>4, <1>5, <1>6 DEF Passes

(* Whatever circle the dependencies go round, the tour ends: each visit      *)
(* enters a name for the first time or leaves less to do.                    *)
Wide == CHOOSE k \in Nat : \A p \in Pkg : Len(Wishes[p]) + 1 <= k
Left(t) == Cardinality(Name \ t.visited) * (Wide + 1) + Len(t.todo)

(* A visit leaves less to do.                                                *)
LEMMA VisitEnds ==
  ASSUME NEW d, d.known \in SUBSET Pkg, NEW t \in Tour
  PROVE  /\ Left(t) \in Nat
         /\ t.todo # <<>> => Left(Visit(d, t)) < Left(t)
<1> DEFINE k == Wide + 1
           c == Cardinality(Name \ t.visited)
           v == Visit(d, t)
<1>1. Wide \in Nat /\ \A p \in Pkg : Len(Wishes[p]) + 1 <= Wide
  <2> DEFINE f == [p \in Pkg |-> Len(Wishes[p]) + 1]
  <2>1. f \in [Pkg -> Nat]
    BY NamesOf
  <2>2. \E n \in Nat : \A p \in Pkg : f[p] <= n
    <3> HIDE DEF f
    <3>1. QED BY <2>1, PkgBound
  <2>3. QED BY <2>2 DEF Wide
<1>2. /\ t.visited \in SUBSET Name /\ t.todo \in Seq(ToDo) /\ Len(t.todo) \in Nat
      /\ IsFiniteSet(Name \ t.visited) /\ c \in Nat /\ k \in Nat
  BY <1>1, NamesFinite DEF Tour
<1>3. \A i, j \in Nat : i * j \in Nat
  OBVIOUS
<1>4. Left(t) \in Nat
  BY <1>2, <1>3 DEF Left
<1>5. ASSUME t.todo # <<>> PROVE Left(v) < Left(t)
  <2> DEFINE p == t.todo[1].p
             rest == Tail(t.todo)
  <2>1. Len(rest) = Len(t.todo) - 1 /\ rest \in Seq(ToDo) /\ Len(t.todo) # 0 /\ Len(rest) \in Nat
    BY <1>2, <1>5, TailIs
  <2>2. v \in Tour
    BY <1>5, VisitIs
  <2>3. CASE ~Enters(d, t)
    <3>1. v.visited = t.visited /\ v.todo = rest
      BY <1>5, <2>3, VisitIs DEF Passes
    <3>2. Left(v) = c * k + Len(rest)
      BY <3>1 DEF Left
    <3>3. c * k \in Nat /\ Left(t) = c * k + Len(t.todo)
      BY <1>2, <1>3 DEF Left
    <3>4. \A x, i, j \in Nat : i = j - 1 => x + i < x + j
      OBVIOUS
    <3> HIDE DEF c, k, rest
    <3>5. QED BY <1>2, <2>1, <3>2, <3>3, <3>4
  <2>4. CASE Enters(d, t)
    <3> DEFINE below == ToVisit(Below1(d, p))
    <3>1. p \in Pkg /\ v.visited = t.visited \cup {NameOf(p)} /\ v.todo = (below \o <<Marker(p)>>) \o rest
      BY <1>5, <2>4, VisitIs
    <3>2. NameOf(p) \in Name \ t.visited
      BY <2>4, <3>1, InfoAssumption DEF Enters, NameOf
    <3>3. Name \ v.visited = (Name \ t.visited) \ {NameOf(p)}
      BY <3>1
    <3>4. Cardinality(Name \ v.visited) = c - 1
      <4> DEFINE S == Name \ t.visited
      <4>1. Cardinality(S \ {NameOf(p)}) = IF NameOf(p) \in S THEN Cardinality(S) - 1 ELSE Cardinality(S)
        <5>1. IsFiniteSet(S)
          BY <1>2
        <5> HIDE DEF S, p
        <5>2. QED BY <5>1, FS_RemoveElement
      <4> HIDE DEF p
      <4>2. QED BY <3>2, <3>3, <4>1
    <3>5. below \in Seq(ToDo) /\ Len(below) = Len(Wishes[p]) /\ Len(Wishes[p]) \in Nat
      <4>1. Below1(d, p) \in Seq(There(d) \cup {None}) /\ There(d) \subseteq Pkg
            /\ Len(Below1(d, p)) = Len(Wishes[p]) /\ Len(Wishes[p]) \in Nat
        BY <3>1, BelowIs DEF There
      <4>2. Below1(d, p) \in Seq(Pkg \cup {None})
        BY <4>1
      <4>3. QED BY <4>1, <4>2, ToVisitIs
    <3>6. <<Marker(p)>> \in Seq(ToDo) /\ Len(<<Marker(p)>>) = 1
      BY <3>1 DEF Marker, ToDo
    <3> HIDE DEF below, rest
    <3>7. below \o <<Marker(p)>> \in Seq(ToDo) /\ Len(below \o <<Marker(p)>>) = Len(below) + 1
      BY <3>5, <3>6, ConcatIs
    <3>8. Len(v.todo) = Len(Wishes[p]) + 1 + Len(rest)
      <4> DEFINE w == below \o <<Marker(p)>>
      <4>1. w \in Seq(ToDo) /\ Len(w) = Len(below) + 1 /\ v.todo = w \o rest
        BY <3>1, <3>7
      <4> HIDE DEF w, p, v
      <4>2. Len(w \o rest) = Len(w) + Len(rest)
        BY <2>1, <4>1, ConcatIs
      <4>3. QED BY <3>5, <4>1, <4>2
    <3>9. Left(v) = (c - 1) * k + (Len(Wishes[p]) + 1 + Len(rest))
      BY <3>4, <3>8 DEF Left
    <3>10. c # 0 /\ c \in Nat /\ c - 1 \in Nat
      <4>1. Name \ t.visited # {} /\ Name \ t.visited \in SUBSET Name
        BY <3>2
      <4>2. c # 0
        BY <4>1, NamesFinite
      <4> HIDE DEF c, p
      <4>3. QED BY <1>2, <4>2
    <3>11. (c - 1) * k = c * k - k /\ c * k \in Nat
      <4>1. \A i, j \in Nat : (i - 1) * j = i * j - j
        OBVIOUS
      <4>2. QED BY <1>2, <1>3, <4>1
    <3>12. Left(t) = c * k + Len(t.todo)
      BY DEF Left
    <3>13. Len(Wishes[p]) + 1 < k
      BY <1>1, <3>1, <3>5
    <3>14. \A x, h, w, i, j \in Nat : w + 1 < h /\ i = j - 1 => (x - h) + (w + 1 + i) < x + j
      OBVIOUS
    <3> HIDE DEF c, k, p
    <3>15. QED BY <1>2, <2>1, <3>5, <3>9, <3>11, <3>12, <3>13, <3>14
  <2>5. QED BY <2>3, <2>4
<1>6. QED BY <1>4, <1>5

(* The function that tours what is to be visited.                            *)
Toured(d) ==
  CHOOSE f : f = [t \in Tour |-> IF t.todo = <<>> THEN t ELSE f[Visit(d, t)]]

(* The recursion is a function: every visit leaves less to do.               *)
LEMMA TouredIs ==
  ASSUME NEW d, d.known \in SUBSET Pkg
  PROVE  /\ Toured(d) \in [Tour -> Tour]
         /\ \A t \in Tour : Toured(d)[t] = IF t.todo = <<>> THEN t ELSE Toured(d)[Visit(d, t)]
<1> DEFINE F    == {t \in Tour : t.todo = <<>>}
           res  == [t \in Tour |-> t]
           next == [t \in Tour |-> IF t.todo = <<>> THEN t ELSE Visit(d, t)]
           rank == [t \in Tour |-> Left(t)]
           def(f) == f = [t \in Tour |-> IF t.todo = <<>> THEN t ELSE f[Visit(d, t)]]
<1>1. /\ res \in [Tour -> Tour] /\ next \in [Tour -> Tour] /\ rank \in [Tour -> Nat]
      /\ \A t \in Tour \ F : rank[next[t]] < rank[t]
  <2>1. \A t \in Tour : next[t] \in Tour
    BY VisitIs
  <2>2. \A t \in Tour : rank[t] \in Nat
    BY VisitEnds
  <2>3. \A t \in Tour \ F : Left(Visit(d, t)) < Left(t) /\ Visit(d, t) \in Tour
    BY VisitEnds, VisitIs
  <2>4. QED BY <2>1, <2>2, <2>3
<1>2. \A f : TailLoop(f, Tour, F, res, next) <=> def(f)
  <2>1. ASSUME NEW f
        PROVE  [t \in Tour |-> IF t \in F THEN res[t] ELSE f[next[t]]]
             = [t \in Tour |-> IF t.todo = <<>> THEN t ELSE f[Visit(d, t)]]
    OBVIOUS
  <2>2. QED BY <2>1 DEF TailLoop
<1>3. /\ \E f : TailLoop(f, Tour, F, res, next)
      /\ \A f : TailLoop(f, Tour, F, res, next) => f \in [Tour -> Tour]
  <2> HIDE DEF F, res, next, rank
  <2>1. res \in [Tour -> Tour] /\ next \in [Tour -> Tour] /\ rank \in [Tour -> Nat]
    BY <1>1
  <2>2. \A t \in Tour \ F : rank[next[t]] < rank[t]
    BY <1>1
  <2>3. \E f : TailLoop(f, Tour, F, res, next)
    BY <2>1, <2>2, TailLoopExists
  <2>4. \A f : TailLoop(f, Tour, F, res, next) => f \in [Tour -> Tour]
    BY <2>1, <2>2, TailLoopExists
  <2>5. QED BY <2>3, <2>4
<1>4. def(Toured(d)) /\ Toured(d) \in [Tour -> Tour]
  <2>1. \E f : def(f)
    <3> HIDE DEF F, res, next, rank, def
    <3>1. QED BY <1>2, <1>3
  <2>2. def(Toured(d))
    BY <2>1 DEF Toured
  <2>3. QED
    <3> HIDE DEF F, res, next, rank, def
    <3>1. QED BY <1>2, <1>3, <2>2
<1>5. QED BY <1>4

(* Where the packages are on the list after a visit.                         *)
LEMMA VisitPlaces ==
  ASSUME NEW d, d.known \in SUBSET Pkg, NEW t \in Tour, t.todo # <<>>
  PROVE  LET w == Visit(d, t).todo
             m == Len(t.todo)
         IN  /\ m \in Nat \ {0} /\ DOMAIN t.todo = 1 .. m
             /\ ~Enters(d, t) => DOMAIN w = 1 .. m - 1 /\ \A i \in 1 .. m - 1 : w[i] = t.todo[i + 1]
             /\ Enters(d, t) =>
                  LET p == t.todo[1].p
                      n == Len(Below1(d, p))
                  IN  /\ n \in Nat /\ DOMAIN w = 1 .. n + m
                      /\ \A i \in 1 .. n : w[i].p = Below1(d, p)[i] /\ ~w[i].below
                      /\ w[n + 1].p = p /\ w[n + 1].below
                      /\ \A i \in n + 2 .. n + m : w[i] = t.todo[i - n]
<1> DEFINE p == t.todo[1].p
           w == Visit(d, t).todo
           m == Len(t.todo)
           rest == Tail(t.todo)
<1>1. t.todo \in Seq(ToDo)
  BY DEF Tour
<1>2. /\ m \in Nat \ {0} /\ rest \in Seq(ToDo) /\ Len(rest) = m - 1 /\ Len(rest) \in Nat
      /\ \A i \in 1 .. m - 1 : rest[i] = t.todo[i + 1]
  <2>1. rest \in Seq(ToDo)
    BY <1>1, TailIs
  <2>2. Len(rest) \in Nat
    BY <2>1
  <2>3. QED BY <1>1, <2>1, <2>2, TailIs
<1>3. DOMAIN t.todo = 1 .. m /\ DOMAIN rest = 1 .. m - 1
  BY <1>1, <1>2
<1>4. CASE ~Enters(d, t)
  <2>1. w = rest
    BY <1>4, VisitIs DEF Passes
  <2> HIDE DEF w, rest
  <2>2. QED BY <1>2, <1>3, <1>4, <2>1 DEF w
<1>5. CASE Enters(d, t)
  <2> DEFINE below == Below1(d, p)
             A == ToVisit(below)
             B == A \o <<Marker(p)>>
             n == Len(below)
  <2>1. p \in Pkg /\ w = B \o rest
    BY <1>5, VisitIs
  <2>2. below \in Seq(Pkg \cup {None})
    <3>1. below \in Seq(There(d) \cup {None}) /\ There(d) \subseteq Pkg
      BY <2>1, BelowIs DEF There
    <3>2. QED BY <3>1
  <2>3. /\ A \in Seq(ToDo) /\ Len(A) = n /\ n \in Nat
        /\ \A i \in 1 .. n : A[i].p = below[i] /\ ~A[i].below
    BY <2>2, ToVisitIs
  <2> DEFINE one == <<Marker(p)>>
  <2>4. one \in Seq(ToDo) /\ Len(one) = 1 /\ one[1].p = p /\ one[1].below
    BY <2>1 DEF Marker, ToDo
  <2> HIDE DEF A, one, p, w, rest, below
  <2>5. /\ B \in Seq(ToDo) /\ Len(B) = n + 1
        /\ \A i \in 1 .. n : B[i] = A[i]
        /\ B[n + 1] = one[1]
    <3>1. /\ A \o one \in Seq(ToDo) /\ Len(A \o one) = Len(A) + Len(one)
          /\ \A i \in 1 .. Len(one) : (A \o one)[Len(A) + i] = one[i]
          /\ \A i \in 1 .. Len(A) : (A \o one)[i] = A[i]
      BY <2>3, <2>4, ConcatIs
    <3>2. B = A \o one
      BY DEF one
    <3>3. 1 \in 1 .. Len(one)
      BY <2>4
    <3> HIDE DEF B
    <3>4. QED BY <2>3, <2>4, <3>1, <3>2, <3>3
  <2> HIDE DEF B
  <2>6. /\ w \in Seq(ToDo) /\ Len(w) = n + m
        /\ \A i \in 1 .. n + 1 : w[i] = B[i]
        /\ \A i \in 1 .. m - 1 : w[n + 1 + i] = rest[i]
    <3>1. /\ B \o rest \in Seq(ToDo) /\ Len(B \o rest) = Len(B) + Len(rest)
          /\ \A i \in 1 .. Len(rest) : (B \o rest)[Len(B) + i] = rest[i]
          /\ \A i \in 1 .. Len(B) : (B \o rest)[i] = B[i]
      <4>1. B \in Seq(ToDo) /\ rest \in Seq(ToDo)
        BY <1>2, <2>5
      <4>2. QED BY <4>1, ConcatIs
    <3> HIDE DEF m, n
    <3>2. QED BY <1>2, <2>1, <2>3, <2>5, <3>1
  <2>7. DOMAIN w = 1 .. n + m
    BY <2>6
  <2>8. \A i \in 1 .. n : w[i].p = below[i] /\ ~w[i].below
    <3> HIDE DEF n
    <3>1. ASSUME NEW i \in 1 .. n PROVE w[i] = A[i]
      BY <2>3, <2>5, <2>6
    <3>2. QED BY <2>3, <3>1
  <2>9. w[n + 1].p = p /\ w[n + 1].below
    <3>1. n + 1 \in 1 .. n + 1
      BY <2>3
    <3> HIDE DEF n
    <3>2. QED BY <2>4, <2>5, <2>6, <3>1
  <2>10. ASSUME NEW i \in n + 2 .. n + m PROVE w[i] = t.todo[i - n]
    <3> HIDE DEF n, m
    <3>1. i - n - 1 \in 1 .. m - 1 /\ n + 1 + (i - n - 1) = i /\ i - n - 1 + 1 = i - n
      BY <1>2, <2>3
    <3>2. QED BY <1>2, <2>6, <3>1
  <2>11. QED
    BY <1>2, <1>3, <1>5, <2>3, <2>7, <2>8, <2>9, <2>10, Zenon DEF w, p, below
<1>6. QED BY <1>4, <1>5

(* What a tour keeps.  Of each name that is visited one package is in the    *)
(* order or has its marker on the list, one of the two and once; what is     *)
(* there under a name not visited is still to be visited.                    *)
Marked(t) == {t.todo[i].p : i \in {j \in DOMAIN t.todo : t.todo[j].below}}
Coming(t) == {t.todo[i].p : i \in {j \in DOMAIN t.todo : ~t.todo[j].below}}

TourInv(d, t) ==
  /\ t \in Tour
  /\ Coming(t) \subseteq d.known \cup {None}
  /\ Marked(t) \subseteq There(d) /\ Range(t.ordered) \subseteq There(d)
  /\ IsInjective(t.ordered) /\ Marked(t) \cap Range(t.ordered) = {}
  /\ \A i, j \in DOMAIN t.todo :
       t.todo[i].below /\ t.todo[j].below /\ t.todo[i].p = t.todo[j].p => i = j
  /\ t.visited = {NameOf(p) : p \in Marked(t) \cup Range(t.ordered)}
  /\ \A p, q \in Marked(t) \cup Range(t.ordered) : NameOf(p) = NameOf(q) => p = q
  /\ \A p \in There(d) : NameOf(p) \in t.visited \/ p \in Coming(t)

(* What a visit does to the packages on the list.                            *)
LEMMA VisitMarks ==
  ASSUME NEW d, d.known \in SUBSET Pkg, NEW t, TourInv(d, t), t.todo # <<>>
  PROVE  LET p == t.todo[1].p
             v == Visit(d, t)
         IN  /\ Finishes(t) => /\ p \in Marked(t) /\ Marked(v) = Marked(t) \ {p}
                               /\ Coming(v) = Coming(t)
             /\ Passes(d, t) => /\ Marked(v) = Marked(t)
                                /\ Coming(t) = Coming(v) \cup {p}
             /\ Enters(d, t) => /\ p \in There(d) /\ Marked(v) = Marked(t) \cup {p}
                                /\ Coming(t) \ {p} \subseteq Coming(v)
                                /\ Coming(v) \subseteq Coming(t) \cup There(d) \cup {None}
             /\ \A i, j \in DOMAIN v.todo :
                  v.todo[i].below /\ v.todo[j].below /\ v.todo[i].p = v.todo[j].p => i = j
<1> DEFINE p == t.todo[1].p
           v == Visit(d, t)
           m == Len(t.todo)
<1>1. t \in Tour
  BY DEF TourInv
<1>2. /\ m \in Nat \ {0} /\ DOMAIN t.todo = 1 .. m /\ 1 \in DOMAIN t.todo
  BY <1>1, VisitPlaces
<1>3. \A i, j \in 1 .. m : t.todo[i].below /\ t.todo[j].below /\ t.todo[i].p = t.todo[j].p => i = j
  BY <1>2 DEF TourInv
<1>4. CASE ~Enters(d, t)
  <2>1. DOMAIN v.todo = 1 .. m - 1 /\ \A i \in 1 .. m - 1 : v.todo[i] = t.todo[i + 1]
    <3>1. t \in Tour /\ t.todo # <<>> /\ ~Enters(d, t)
      BY <1>1, <1>4
    <3>2. v.todo = Tail(t.todo)
      BY <3>1, VisitIs DEF Passes
    <3>3. t.todo \in Seq(ToDo)
      BY <1>1 DEF Tour
    <3> HIDE DEF v
    <3>4. QED BY <1>2, <3>1, <3>2, <3>3, TailIs
  <2> HIDE DEF v, p, m
  <2>2. \A i \in 2 .. m : i - 1 \in DOMAIN v.todo /\ v.todo[i - 1] = t.todo[i]
    BY <1>2, <2>1
  <2>3. \A i \in DOMAIN v.todo : i + 1 \in 2 .. m /\ v.todo[i] = t.todo[i + 1]
    BY <1>2, <2>1
  <2>4. \A i \in 1 .. m : i = 1 \/ i \in 2 .. m
    BY <1>2
  <2>5. Marked(t) = IF t.todo[1].below THEN Marked(v) \cup {p} ELSE Marked(v)
    <3>1. Marked(v) = {t.todo[i].p : i \in {j \in 2 .. m : t.todo[j].below}}
      BY <2>2, <2>3 DEF Marked
    <3>2. Marked(t) = {t.todo[i].p : i \in {j \in 1 .. m : t.todo[j].below}}
      BY <1>2 DEF Marked
    <3>3. \A i \in 2 .. m : i \in 1 .. m
      BY <1>2
    <3>4. QED BY <1>2, <2>4, <3>1, <3>2, <3>3 DEF p
  <2>6. Coming(t) = IF t.todo[1].below THEN Coming(v) ELSE Coming(v) \cup {p}
    <3>1. Coming(v) = {t.todo[i].p : i \in {j \in 2 .. m : ~t.todo[j].below}}
      BY <2>2, <2>3 DEF Coming
    <3>2. Coming(t) = {t.todo[i].p : i \in {j \in 1 .. m : ~t.todo[j].below}}
      BY <1>2 DEF Coming
    <3>3. \A i \in 2 .. m : i \in 1 .. m
      BY <1>2
    <3>4. QED BY <1>2, <2>4, <3>1, <3>2, <3>3 DEF p
  <2>7. Finishes(t) => p \notin Marked(v)
    <3>1. SUFFICES ASSUME Finishes(t), p \in Marked(v) PROVE FALSE
      OBVIOUS
    <3>2. PICK i \in DOMAIN v.todo : v.todo[i].below /\ v.todo[i].p = p
      BY <3>1 DEF Marked
    <3>3. i + 1 \in 2 .. m /\ t.todo[i + 1].below /\ t.todo[i + 1].p = p
      BY <2>3, <3>2
    <3>4. i + 1 = 1
      BY <1>2, <1>3, <3>1, <3>3 DEF Finishes, p
    <3>5. QED BY <1>2, <3>3, <3>4
  <2>8. \A i, j \in DOMAIN v.todo :
          v.todo[i].below /\ v.todo[j].below /\ v.todo[i].p = v.todo[j].p => i = j
    <3>1. SUFFICES ASSUME NEW i \in DOMAIN v.todo, NEW j \in DOMAIN v.todo,
                          v.todo[i].below, v.todo[j].below, v.todo[i].p = v.todo[j].p
                   PROVE  i = j
      OBVIOUS
    <3>2. i + 1 \in 1 .. m /\ j + 1 \in 1 .. m
      BY <1>2, <2>1
    <3>3. v.todo[i] = t.todo[i + 1] /\ v.todo[j] = t.todo[j + 1]
      BY <2>3
    <3>4. i + 1 = j + 1
      BY <1>3, <3>1, <3>2, <3>3
    <3>5. QED BY <2>1, <3>4
  <2>9. QED BY <1>4, <2>5, <2>6, <2>7, <2>8 DEF Finishes, Passes, p, v
<1>5. CASE Enters(d, t)
  <2> DEFINE n == Len(Below1(d, p))
  <2>1. /\ n \in Nat /\ DOMAIN v.todo = 1 .. n + m
        /\ \A i \in 1 .. n : v.todo[i].p = Below1(d, p)[i] /\ ~v.todo[i].below
        /\ v.todo[n + 1].p = p /\ v.todo[n + 1].below
        /\ \A i \in n + 2 .. n + m : v.todo[i] = t.todo[i - n]
    BY <1>1, <1>5, VisitPlaces
  <2>2. p \in Pkg /\ p \in There(d) /\ ~t.todo[1].below
    <3>1. p \in Coming(t)
      BY <1>2, <1>5 DEF Coming, Enters
    <3>2. p \in d.known
      BY <1>5, <3>1 DEF TourInv, Enters
    <3>3. QED BY <1>5, <3>2 DEF Enters, There
  <2>3. \A i \in 1 .. n : v.todo[i].p \in There(d) \cup {None}
    <3>1. Below1(d, p) \in Seq(There(d) \cup {None})
      BY <2>2, BelowIs
    <3>2. QED BY <2>1, <3>1
  <2> HIDE DEF v, p, m, n
  <2>4. p \notin Marked(t)
    <3>1. p \in Marked(t) => NameOf(p) \in t.visited
      BY DEF TourInv
    <3>2. QED BY <1>5, <3>1 DEF Enters, p
  <2>5. /\ n + 1 \in 1 .. n + m
        /\ \A i \in 1 .. n + m : i \in 1 .. n \/ i = n + 1 \/ i \in n + 2 .. n + m
        /\ \A i \in 2 .. m : i + n \in n + 2 .. n + m /\ i + n - n = i /\ i + n \in 1 .. n + m
        /\ \A i \in n + 2 .. n + m : i - n \in 2 .. m /\ i - n \in 1 .. m
        /\ \A i \in 1 .. m : i = 1 \/ i \in 2 .. m
        /\ \A i \in 1 .. n : i \in 1 .. n + m
    BY <1>2, <2>1
  <2>6. \A i \in 2 .. m : i + n \in DOMAIN v.todo /\ v.todo[i + n] = t.todo[i]
    BY <2>1, <2>5
  <2>7. Marked(v) = Marked(t) \cup {p}
    <3>1. ASSUME NEW q \in Marked(v) PROVE q \in Marked(t) \cup {p}
      <4>1. PICK i \in DOMAIN v.todo : v.todo[i].below /\ v.todo[i].p = q
        BY DEF Marked
      <4>2. i = n + 1 \/ i \in n + 2 .. n + m
        BY <2>1, <2>5, <4>1
      <4>3. CASE i \in n + 2 .. n + m
        BY <1>2, <2>1, <2>5, <4>1, <4>3 DEF Marked
      <4>4. QED BY <2>1, <4>1, <4>2, <4>3
    <3>2. ASSUME NEW q \in Marked(t) PROVE q \in Marked(v)
      <4>1. PICK i \in DOMAIN t.todo : t.todo[i].below /\ t.todo[i].p = q
        BY DEF Marked
      <4>2. i \in 2 .. m
        BY <1>2, <2>2, <2>5, <4>1
      <4>3. QED BY <2>6, <4>1, <4>2 DEF Marked
    <3>3. p \in Marked(v)
      BY <2>1, <2>5 DEF Marked
    <3>4. QED BY <3>1, <3>2, <3>3
  <2>8. Coming(t) \ {p} \subseteq Coming(v)
    <3>1. SUFFICES ASSUME NEW q \in Coming(t), q # p PROVE q \in Coming(v)
      OBVIOUS
    <3>2. PICK i \in DOMAIN t.todo : ~t.todo[i].below /\ t.todo[i].p = q
      BY DEF Coming
    <3>3. i \in 2 .. m
      BY <1>2, <2>5, <3>1, <3>2 DEF p
    <3>4. QED BY <2>6, <3>2, <3>3 DEF Coming
  <2>9. Coming(v) \subseteq Coming(t) \cup There(d) \cup {None}
    <3>1. SUFFICES ASSUME NEW q \in Coming(v) PROVE q \in Coming(t) \cup There(d) \cup {None}
      OBVIOUS
    <3>2. PICK i \in DOMAIN v.todo : ~v.todo[i].below /\ v.todo[i].p = q
      BY DEF Coming
    <3>3. i \in 1 .. n \/ i \in n + 2 .. n + m
      BY <2>1, <2>5, <3>2
    <3>4. CASE i \in n + 2 .. n + m
      <4>1. i - n \in DOMAIN t.todo /\ ~t.todo[i - n].below /\ t.todo[i - n].p = q
        BY <1>2, <2>1, <2>5, <3>2, <3>4
      <4>2. QED BY <4>1 DEF Coming
    <3>5. QED BY <2>3, <3>2, <3>3, <3>4
  <2>10. ASSUME NEW i \in DOMAIN v.todo, NEW j \in DOMAIN v.todo,
                v.todo[i].below, v.todo[j].below, v.todo[i].p = v.todo[j].p
         PROVE  i = j
    <3>1. \A k \in DOMAIN v.todo : v.todo[k].below =>
            k = n + 1 \/ (k \in n + 2 .. n + m /\ k - n \in 1 .. m /\ v.todo[k] = t.todo[k - n])
      BY <2>1, <2>5
    <3>2. \A k \in n + 2 .. n + m : v.todo[k].below => v.todo[k].p # p
      <4>1. SUFFICES ASSUME NEW k \in n + 2 .. n + m, v.todo[k].below, v.todo[k].p = p PROVE FALSE
        OBVIOUS
      <4>2. k - n \in DOMAIN t.todo /\ t.todo[k - n].below /\ t.todo[k - n].p = p
        BY <1>2, <2>1, <2>5, <4>1
      <4>3. QED BY <2>4, <4>2 DEF Marked
    <3>3. CASE i = n + 1 \/ j = n + 1
      BY <2>1, <2>10, <3>1, <3>2, <3>3
    <3>4. CASE i # n + 1 /\ j # n + 1
      <4>1. i - n = j - n
        BY <1>3, <2>10, <3>1, <3>4
      <4>2. i \in Int /\ j \in Int /\ n \in Int
        BY <1>2, <2>1
      <4>3. QED BY <4>1, <4>2
    <3>5. QED BY <3>3, <3>4
  <2>11. ~Finishes(t) /\ ~Passes(d, t)
    BY <1>5 DEF Finishes, Passes, Enters
  <2>12. QED BY <2>2, <2>7, <2>8, <2>9, <2>10, <2>11 DEF p, v
<1>6. QED BY <1>4, <1>5

(* A list with one more element, which it did not have.                      *)
LEMMA AppendedIs ==
  ASSUME NEW T, NEW s \in Seq(T), NEW x \in T
  PROVE  /\ Range(Append(s, x)) = Range(s) \cup {x}
         /\ IsInjective(s) /\ x \notin Range(s) => IsInjective(Append(s, x))
<1> DEFINE w == Append(s, x)
           n == Len(s)
<1>1. n \in Nat /\ DOMAIN s = 1 .. n
  OBVIOUS
<1>2. DOMAIN w = 1 .. n + 1 /\ (\A i \in 1 .. n : w[i] = s[i]) /\ w[n + 1] = x
  <2>1. w \in Seq(T) /\ Len(w) = n + 1 /\ (\A i \in 1 .. n : w[i] = s[i]) /\ w[n + 1] = x
    BY AppendIs
  <2>2. QED BY <2>1
<1> HIDE DEF w, n
<1>3. /\ \A i \in 1 .. n + 1 : i \in 1 .. n \/ i = n + 1
      /\ \A i \in 1 .. n : i \in 1 .. n + 1
      /\ n + 1 \in 1 .. n + 1
  BY <1>1
<1>4. Range(w) = Range(s) \cup {x}
  BY <1>1, <1>2, <1>3 DEF Range
<1>5. ASSUME IsInjective(s), x \notin Range(s) PROVE IsInjective(w)
  <2>1. \A i \in 1 .. n : s[i] # x
    BY <1>1, <1>5 DEF Range
  <2>2. QED BY <1>1, <1>2, <1>3, <1>5, <2>1 DEF IsInjective
<1>6. QED BY <1>4, <1>5 DEF w

(* A visit keeps the invariant of the tour.                                  *)
LEMMA VisitKeeps ==
  ASSUME NEW d, d.known \in SUBSET Pkg, NEW t, TourInv(d, t), t.todo # <<>>
  PROVE  TourInv(d, Visit(d, t))
<1> DEFINE p == t.todo[1].p
           v == Visit(d, t)
<1>1. /\ t \in Tour /\ t.visited \in SUBSET Name /\ t.ordered \in Seq(Pkg)
      /\ Coming(t) \subseteq d.known \cup {None}
      /\ Marked(t) \subseteq There(d) /\ Range(t.ordered) \subseteq There(d)
      /\ IsInjective(t.ordered) /\ Marked(t) \cap Range(t.ordered) = {}
      /\ t.visited = {NameOf(q) : q \in Marked(t) \cup Range(t.ordered)}
      /\ \A q, r \in Marked(t) \cup Range(t.ordered) : NameOf(q) = NameOf(r) => q = r
      /\ \A q \in There(d) : NameOf(q) \in t.visited \/ q \in Coming(t)
  BY DEF TourInv, Tour
<1>2. v \in Tour
  BY <1>1, VisitIs
<1>3. \A i, j \in DOMAIN v.todo :
        v.todo[i].below /\ v.todo[j].below /\ v.todo[i].p = v.todo[j].p => i = j
  BY VisitMarks
<1>4. There(d) \subseteq d.known
  BY DEF There
<1>5. CASE Finishes(t)
  <2>1. /\ p \in Pkg /\ v.visited = t.visited /\ v.ordered = Append(t.ordered, p)
        /\ p \in Marked(t) /\ Marked(v) = Marked(t) \ {p} /\ Coming(v) = Coming(t)
    BY <1>1, <1>5, VisitIs, VisitMarks
  <2>2. Range(v.ordered) = Range(t.ordered) \cup {p} /\ IsInjective(v.ordered)
    <3> HIDE DEF p, v
    <3>1. p \notin Range(t.ordered)
      BY <1>1, <2>1
    <3>2. QED BY <1>1, <2>1, <3>1, AppendedIs
  <2> HIDE DEF p, v
  <2>3. Marked(v) \cup Range(v.ordered) = Marked(t) \cup Range(t.ordered)
    BY <2>1, <2>2
  <2>4. Marked(v) \cap Range(v.ordered) = {}
    BY <1>1, <2>1, <2>2
  <2>5. Marked(v) \subseteq There(d) /\ Range(v.ordered) \subseteq There(d)
    BY <1>1, <2>1, <2>2
  <2>6. TourInv(d, v)
    BY <1>1, <1>2, <1>3, <2>1, <2>2, <2>3, <2>4, <2>5 DEF TourInv
  <2>7. QED BY <2>6 DEF v
<1>6. CASE Passes(d, t)
  <2>1. /\ v.visited = t.visited /\ v.ordered = t.ordered
        /\ Marked(v) = Marked(t) /\ Coming(t) = Coming(v) \cup {p}
    BY <1>1, <1>6, VisitIs, VisitMarks
  <2>2. p \in There(d) => NameOf(p) \in t.visited
    BY <1>6, PkgAssumption DEF Passes, Finishes, Enters, There
  <2> HIDE DEF p, v
  <2>3. \A q \in There(d) : NameOf(q) \in v.visited \/ q \in Coming(v)
    BY <1>1, <2>1, <2>2
  <2>4. Coming(v) \subseteq d.known \cup {None}
    BY <1>1, <2>1
  <2>5. TourInv(d, v)
    BY <1>1, <1>2, <1>3, <2>1, <2>3, <2>4 DEF TourInv
  <2>6. QED BY <2>5 DEF v
<1>7. CASE Enters(d, t)
  <2>1. /\ p \in Pkg /\ v.visited = t.visited \cup {NameOf(p)} /\ v.ordered = t.ordered
        /\ p \in There(d) /\ Marked(v) = Marked(t) \cup {p}
        /\ Coming(t) \ {p} \subseteq Coming(v)
        /\ Coming(v) \subseteq Coming(t) \cup There(d) \cup {None}
    BY <1>1, <1>7, VisitIs, VisitMarks
  <2>2. NameOf(p) \notin t.visited
    BY <1>7 DEF Enters
  <2> HIDE DEF p, v
  <2>3. p \notin Marked(t) \cup Range(t.ordered)
        /\ \A q \in Marked(t) \cup Range(t.ordered) : NameOf(q) # NameOf(p)
    BY <1>1, <2>2
  <2>4. Marked(v) \cup Range(v.ordered) = (Marked(t) \cup Range(t.ordered)) \cup {p}
    BY <2>1
  <2>5. /\ v.visited = {NameOf(q) : q \in Marked(v) \cup Range(v.ordered)}
        /\ \A q, r \in Marked(v) \cup Range(v.ordered) : NameOf(q) = NameOf(r) => q = r
    BY <1>1, <2>1, <2>3, <2>4
  <2>6. \A q \in There(d) : NameOf(q) \in v.visited \/ q \in Coming(v)
    BY <1>1, <2>1
  <2>7. /\ Coming(v) \subseteq d.known \cup {None}
        /\ Marked(v) \subseteq There(d) /\ Range(v.ordered) \subseteq There(d)
        /\ IsInjective(v.ordered) /\ Marked(v) \cap Range(v.ordered) = {}
    BY <1>1, <1>4, <2>1, <2>3
  <2>8. TourInv(d, v)
    BY <1>2, <1>3, <2>5, <2>6, <2>7 DEF TourInv
  <2>9. QED BY <2>8 DEF v
<1>8. QED BY <1>5, <1>6, <1>7 DEF Passes

(* The tour that is about to begin.                                          *)
Setting(d) == [visited |-> {}, ordered |-> <<>>, todo |-> ToVisit(Sorted(d.known))]

(* The tour starts in its invariant, and what it ends with is the order.     *)
LEMMA SettingIs ==
  ASSUME NEW d, d.known \in SUBSET Pkg
  PROVE  /\ TourInv(d, Setting(d))
         /\ Setting(d).ordered = <<>> /\ \A i \in DOMAIN Setting(d).todo : ~Setting(d).todo[i].below
         /\ InOrder(d) = Toured(d)[Setting(d)].ordered
<1> DEFINE s == Sorted(d.known)
           t == Setting(d)
<1>1. s \in Seq(d.known) /\ s \in Seq(Pkg \cup {None}) /\ Range(s) = d.known
  <2>1. s \in Seq(d.known) /\ s \in Seq(Pkg) /\ Range(s) = d.known
    BY SortedIs
  <2> HIDE DEF s
  <2>2. QED BY <2>1
<1> HIDE DEF s
<1>2. /\ t.todo = ToVisit(s) /\ t.visited = {} /\ t.ordered = <<>>
      /\ t = [visited |-> {}, ordered |-> <<>>, todo |-> ToVisit(s)]
  BY DEF Setting, s
<1>3. /\ ToVisit(s) \in Seq(ToDo) /\ DOMAIN ToVisit(s) = 1 .. Len(s) /\ DOMAIN s = 1 .. Len(s)
      /\ \A i \in 1 .. Len(s) : ToVisit(s)[i].p = s[i] /\ ~ToVisit(s)[i].below
  <2>1. /\ ToVisit(s) \in Seq(ToDo) /\ Len(ToVisit(s)) = Len(s) /\ Len(s) \in Nat
        /\ \A i \in 1 .. Len(s) : ToVisit(s)[i].p = s[i] /\ ~ToVisit(s)[i].below
    BY <1>1, ToVisitIs
  <2>2. QED BY <1>1, <2>1
<1>4. t \in Tour
  <2>1. <<>> \in Seq(Pkg)
    OBVIOUS
  <2>2. QED BY <1>2, <1>3, <2>1 DEF Tour
<1> HIDE DEF t
<1>5. Marked(t) = {} /\ Coming(t) = d.known
  <2>1. Marked(t) = {}
    BY <1>2, <1>3 DEF Marked
  <2>2. Coming(t) = {s[i] : i \in 1 .. Len(s)}
    BY <1>2, <1>3 DEF Coming
  <2>3. QED BY <1>1, <1>3, <2>1, <2>2 DEF Range
<1>6. Range(t.ordered) = {} /\ IsInjective(t.ordered)
  <2>1. DOMAIN <<>> = {}
    OBVIOUS
  <2>2. QED BY <1>2, <2>1 DEF Range, IsInjective
<1>7. There(d) \subseteq d.known
  BY DEF There
<1>8. TourInv(d, t)
  BY <1>2, <1>3, <1>4, <1>5, <1>6, <1>7 DEF TourInv
<1>9. InOrder(d) = Toured(d)[t].ordered
  BY DEF InOrder, Toured, Setting, t
<1>10. QED BY <1>2, <1>3, <1>8, <1>9 DEF t

(* What every visit keeps holds when a tour ends.                            *)
LEMMA TourKeeps ==
  ASSUME NEW d, d.known \in SUBSET Pkg, NEW Held \in SUBSET Tour,
         \A t \in Held : t.todo # <<>> => Visit(d, t) \in Held
  PROVE  \A t \in Held : Toured(d)[t] \in Held /\ Toured(d)[t].todo = <<>>
<1> DEFINE good == {t \in Tour : t \in Held => Toured(d)[t] \in Held /\ Toured(d)[t].todo = <<>>}
           rank == [t \in Tour |-> Left(t)]
<1>1. rank \in [Tour -> Nat]
  BY VisitEnds
<1>2. ASSUME NEW t \in Tour, \A u \in Tour : rank[u] < rank[t] => u \in good
      PROVE  t \in good
  <2>1. CASE t.todo = <<>>
    BY <2>1, TouredIs
  <2>2. CASE t.todo # <<>>
    <3>1. Visit(d, t) \in Tour /\ Left(Visit(d, t)) < Left(t)
      BY <2>2, VisitIs, VisitEnds
    <3>2. Visit(d, t) \in good
      <4>1. rank[Visit(d, t)] < rank[t]
        BY <3>1
      <4> HIDE DEF good, rank
      <4>2. QED BY <1>2, <3>1, <4>1
    <3>3. Toured(d)[t] = Toured(d)[Visit(d, t)]
      BY <2>2, TouredIs
    <3>4. QED BY <2>2, <3>1, <3>2, <3>3
  <2>3. QED BY <2>1, <2>2
<1>3. \A t \in Tour : t \in good
  <2> HIDE DEF good, rank
  <2>1. QED BY <1>1, <1>2, RankInduction
<1>4. QED BY <1>3

(* Configuring in order (opkg_configure_packages) meets each name of which a *)
(* package is there, and of each one package: whatever circles the           *)
(* dependencies make, the recursion ends, and nothing is done twice.         *)
THEOREM ConfiguresEach ==
  ASSUME NEW d, d.known \in SUBSET Pkg
  PROVE  /\ InOrder(d) \in Seq(There(d))
         /\ \A i, j \in DOMAIN InOrder(d) :
              NameOf(InOrder(d)[i]) = NameOf(InOrder(d)[j]) => i = j
         /\ \A p \in There(d) : \E i \in DOMAIN InOrder(d) : NameOf(InOrder(d)[i]) = NameOf(p)
<1> DEFINE Held == {t \in Tour : TourInv(d, t)}
           e == Toured(d)[Setting(d)]
<1>1. \A t \in Held : t.todo # <<>> => Visit(d, t) \in Held
  BY VisitKeeps DEF TourInv
<1>2. Setting(d) \in Held
  BY SettingIs DEF TourInv
<1>3. e \in Held /\ e.todo = <<>>
  <2>1. Held \in SUBSET Tour
    OBVIOUS
  <2> HIDE DEF Held
  <2>2. QED BY <1>1, <1>2, <2>1, TourKeeps
<1> HIDE DEF e
<1>4. InOrder(d) = e.ordered /\ e.ordered \in Seq(Pkg)
  BY <1>3, SettingIs DEF e, Tour
<1>5. Marked(e) = {} /\ Coming(e) = {}
  <2>1. DOMAIN e.todo = {}
    BY <1>3
  <2>2. QED BY <2>1 DEF Marked, Coming
<1>6. Range(e.ordered) \subseteq There(d) /\ IsInjective(e.ordered)
  BY <1>3 DEF TourInv
<1>7. InOrder(d) \in Seq(There(d))
  <2>1. \A i \in DOMAIN e.ordered : e.ordered[i] \in There(d)
    BY <1>6 DEF Range
  <2>2. QED BY <1>4, <2>1
<1>8. ASSUME NEW i \in DOMAIN e.ordered, NEW j \in DOMAIN e.ordered,
             NameOf(e.ordered[i]) = NameOf(e.ordered[j])
      PROVE  i = j
  <2>1. e.ordered[i] \in Range(e.ordered) /\ e.ordered[j] \in Range(e.ordered)
    BY DEF Range
  <2>2. e.ordered[i] = e.ordered[j]
    BY <1>3, <1>8, <2>1 DEF TourInv
  <2>3. QED BY <1>6, <2>2 DEF IsInjective
<1>9. ASSUME NEW p \in There(d)
      PROVE  \E i \in DOMAIN e.ordered : NameOf(e.ordered[i]) = NameOf(p)
  <2>1. NameOf(p) \in {NameOf(q) : q \in Range(e.ordered)}
    BY <1>3, <1>5 DEF TourInv
  <2>2. QED BY <2>1 DEF Range
<1>10. QED BY <1>4, <1>7, <1>8, <1>9

(* What is there of what a package needs; no circle of needs when there are  *)
(* depths that grow from what is needed to what needs it.                    *)
Under(d, p) == Range(Below1(d, p)) \ {None}
Deepens(d, depth) ==
  /\ depth \in [Name -> Nat]
  /\ \A p \in There(d) : \A q \in Under(d, p) : depth[NameOf(q)] < depth[NameOf(p)]

(* Then a tour keeps this: what the packages of the order need comes before  *)
(* them; what those to be put into it need is in it or before them on the    *)
(* list; and what is before them on the list is less deep.                   *)
DoneNames(t) == {NameOf(p) : p \in Range(t.ordered)}
AheadNames(d, t, k) ==
  {NameOf(t.todo[j].p) : j \in {i \in DOMAIN t.todo : i < k /\ t.todo[i].p \in There(d)}}

NeedsInv(d, depth, t) ==
  /\ TourInv(d, t)
  /\ \A i \in DOMAIN t.ordered : \A q \in Under(d, t.ordered[i]) :
       \E j \in DOMAIN t.ordered : j < i /\ NameOf(t.ordered[j]) = NameOf(q)
  /\ \A k \in DOMAIN t.todo : t.todo[k].below =>
       \A q \in Under(d, t.todo[k].p) : NameOf(q) \in DoneNames(t) \cup AheadNames(d, t, k)
  /\ \A j, k \in DOMAIN t.todo :
       j < k /\ t.todo[k].below /\ t.todo[j].p # None =>
         depth[NameOf(t.todo[j].p)] < depth[NameOf(t.todo[k].p)]

(* A visit keeps what is said of the packages needed.                        *)
LEMMA NeedsKept ==
  ASSUME NEW d, d.known \in SUBSET Pkg, NEW depth, Deepens(d, depth),
         NEW t, NeedsInv(d, depth, t), t.todo # <<>>
  PROVE  NeedsInv(d, depth, Visit(d, t))
<1> DEFINE p == t.todo[1].p
           v == Visit(d, t)
           m == Len(t.todo)
<1>1. TourInv(d, t) /\ t \in Tour /\ t.ordered \in Seq(Pkg) /\ t.todo \in Seq(ToDo)
  BY DEF NeedsInv, TourInv, Tour
<1>2. TourInv(d, v)
  BY <1>1, VisitKeeps
<1>3. /\ m \in Nat \ {0} /\ DOMAIN t.todo = 1 .. m /\ 1 \in DOMAIN t.todo
      /\ \A i \in 1 .. m : t.todo[i] \in ToDo
  <2>1. m \in Nat \ {0} /\ DOMAIN t.todo = 1 .. m
    BY <1>1, VisitPlaces
  <2>2. QED BY <1>1, <2>1
<1>4. /\ \A k \in 1 .. m : t.todo[k].below =>
           \A q \in Under(d, t.todo[k].p) : NameOf(q) \in DoneNames(t) \cup AheadNames(d, t, k)
      /\ \A j, k \in 1 .. m :
           j < k /\ t.todo[k].below /\ t.todo[j].p # None =>
             depth[NameOf(t.todo[j].p)] < depth[NameOf(t.todo[k].p)]
      /\ \A i \in DOMAIN t.ordered : \A q \in Under(d, t.ordered[i]) :
           \E j \in DOMAIN t.ordered : j < i /\ NameOf(t.ordered[j]) = NameOf(q)
  BY <1>3 DEF NeedsInv
<1>5. \A q \in Pkg : depth[NameOf(q)] \in Nat
  BY InfoAssumption DEF Deepens, NameOf
<1>6. CASE ~Enters(d, t)
  <2>1. v.todo = Tail(t.todo)
    BY <1>1, <1>6, VisitIs DEF Passes
  <2> HIDE DEF v, p
  <2>2. DOMAIN v.todo = 1 .. m - 1 /\ \A i \in 1 .. m - 1 : v.todo[i] = t.todo[i + 1]
    <3>1. Tail(t.todo) \in Seq(ToDo) /\ Len(Tail(t.todo)) = m - 1
          /\ \A i \in 1 .. m - 1 : Tail(t.todo)[i] = t.todo[i + 1]
      BY <1>1, TailIs
    <3> HIDE DEF m
    <3>2. QED BY <1>3, <2>1, <3>1
  <2> HIDE DEF m
  <2>3. \A j, k \in DOMAIN v.todo :
          j < k /\ v.todo[k].below /\ v.todo[j].p # None =>
            depth[NameOf(v.todo[j].p)] < depth[NameOf(v.todo[k].p)]
    <3>1. SUFFICES ASSUME NEW j \in DOMAIN v.todo, NEW k \in DOMAIN v.todo,
                          j < k, v.todo[k].below, v.todo[j].p # None
                   PROVE  depth[NameOf(v.todo[j].p)] < depth[NameOf(v.todo[k].p)]
      OBVIOUS
    <3>2. j + 1 \in 1 .. m /\ k + 1 \in 1 .. m /\ j + 1 < k + 1
      BY <1>3, <2>2, <3>1
    <3>3. v.todo[j] = t.todo[j + 1] /\ v.todo[k] = t.todo[k + 1]
      BY <2>2
    <3>4. QED BY <1>4, <3>1, <3>2, <3>3
  <2>4. ASSUME NEW k \in 1 .. m - 1
        PROVE  AheadNames(d, t, k + 1) \subseteq
                 AheadNames(d, v, k) \cup (IF p \in There(d) THEN {NameOf(p)} ELSE {})
    <3>1. SUFFICES ASSUME NEW j \in 1 .. m, j < k + 1, t.todo[j].p \in There(d), j # 1
                   PROVE  NameOf(t.todo[j].p) \in AheadNames(d, v, k)
      BY <1>3 DEF AheadNames, p
    <3>2. j - 1 \in 1 .. m - 1 /\ j - 1 < k /\ j - 1 + 1 = j
      BY <1>3, <3>1
    <3>3. v.todo[j - 1] = t.todo[j] /\ j - 1 \in DOMAIN v.todo
      BY <2>2, <3>2
    <3>4. QED BY <3>1, <3>2, <3>3 DEF AheadNames
  <2>5. CASE Finishes(t)
    <3>1. p \in Pkg /\ v.ordered = Append(t.ordered, p)
      BY <1>1, <2>5, VisitIs DEF p, v
    <3> DEFINE l == Len(t.ordered)
    <3>2. /\ l \in Nat /\ DOMAIN t.ordered = 1 .. l /\ DOMAIN v.ordered = 1 .. l + 1
          /\ \A i \in 1 .. l : v.ordered[i] = t.ordered[i]
          /\ v.ordered[l + 1] = p
      <4>1. /\ v.ordered \in Seq(Pkg) /\ Len(v.ordered) = l + 1 /\ l \in Nat /\ DOMAIN t.ordered = 1 .. l
            /\ \A i \in 1 .. l : v.ordered[i] = t.ordered[i]
            /\ v.ordered[l + 1] = p
        BY <1>1, <3>1, AppendIs
      <4>2. QED BY <4>1
    <3> HIDE DEF l
    <3>3. DoneNames(v) = DoneNames(t) \cup {NameOf(p)}
      <4>1. \A i \in 1 .. l + 1 : i \in 1 .. l \/ i = l + 1
        BY <3>2
      <4>2. \A i \in 1 .. l : i \in 1 .. l + 1
        BY <3>2
      <4>3. l + 1 \in 1 .. l + 1
        BY <3>2
      <4>4. Range(v.ordered) = Range(t.ordered) \cup {p}
        BY <3>2, <4>1, <4>2, <4>3 DEF Range
      <4>5. QED BY <4>4 DEF DoneNames
    <3>4. \A k \in DOMAIN v.todo : v.todo[k].below =>
            \A q \in Under(d, v.todo[k].p) : NameOf(q) \in DoneNames(v) \cup AheadNames(d, v, k)
      <4>1. SUFFICES ASSUME NEW k \in 1 .. m - 1, v.todo[k].below,
                            NEW q \in Under(d, v.todo[k].p)
                     PROVE  NameOf(q) \in DoneNames(v) \cup AheadNames(d, v, k)
        BY <2>2
      <4>2. k + 1 \in 1 .. m /\ v.todo[k] = t.todo[k + 1]
        BY <1>3, <2>2
      <4>3. NameOf(q) \in DoneNames(t) \cup AheadNames(d, t, k + 1)
        BY <1>4, <4>1, <4>2
      <4>4. QED BY <2>4, <3>3, <4>3
    <3>5. \A q \in Under(d, p) : NameOf(q) \in DoneNames(t)
      <4>1. AheadNames(d, t, 1) = {}
        BY <1>3 DEF AheadNames
      <4>2. 1 \in 1 .. m /\ t.todo[1].below
        BY <1>3, <2>5 DEF Finishes
      <4>3. QED BY <1>4, <4>1, <4>2 DEF p
    <3>6. \A i \in DOMAIN v.ordered : \A q \in Under(d, v.ordered[i]) :
            \E j \in DOMAIN v.ordered : j < i /\ NameOf(v.ordered[j]) = NameOf(q)
      <4>1. SUFFICES ASSUME NEW i \in 1 .. l + 1, NEW q \in Under(d, v.ordered[i])
                     PROVE  \E j \in 1 .. l : j < i /\ NameOf(t.ordered[j]) = NameOf(q)
        <5>1. \A j \in 1 .. l : j \in DOMAIN v.ordered /\ v.ordered[j] = t.ordered[j]
          BY <3>2
        <5>2. QED BY <3>2, <5>1
      <4>2. CASE i \in 1 .. l
        BY <1>4, <3>2, <4>2
      <4>3. CASE i = l + 1
        <5>1. q \in Under(d, p)
          BY <3>2, <4>3
        <5>2. PICK j \in 1 .. l : NameOf(t.ordered[j]) = NameOf(q)
          BY <3>2, <3>5, <5>1 DEF DoneNames, Range
        <5>3. QED BY <3>2, <4>3, <5>2
      <4>4. QED BY <3>2, <4>2, <4>3
    <3>7. NeedsInv(d, depth, v)
      BY <1>2, <2>3, <3>4, <3>6 DEF NeedsInv
    <3>8. QED BY <3>7 DEF v
  <2>6. CASE Passes(d, t)
    <3>1. v.ordered = t.ordered
      BY <1>1, <2>6, VisitIs DEF v
    <3>2. DoneNames(v) = DoneNames(t)
      BY <3>1 DEF DoneNames
    <3>3. p \in There(d) => NameOf(p) \in DoneNames(t)
      <4>1. SUFFICES ASSUME p \in There(d), NameOf(p) \notin DoneNames(t) PROVE FALSE
        OBVIOUS
      <4>2. p \in Pkg /\ p # None
        BY <4>1, PkgAssumption DEF There
      <4>3. NameOf(p) \in t.visited /\ ~t.todo[1].below
        BY <2>6, <4>1, <4>2 DEF Passes, Finishes, Enters, There, p
      <4>4. NameOf(p) \in {NameOf(q) : q \in Marked(t)}
        BY <1>1, <4>1, <4>3 DEF TourInv, DoneNames
      <4>5. PICK k \in 1 .. m : t.todo[k].below /\ NameOf(t.todo[k].p) = NameOf(p)
        BY <1>3, <4>4 DEF Marked
      <4>6. 1 \in 1 .. m /\ 1 < k
        BY <1>3, <4>3, <4>5
      <4>7. depth[NameOf(p)] < depth[NameOf(t.todo[k].p)]
        BY <1>4, <4>2, <4>5, <4>6 DEF p
      <4>8. QED BY <1>5, <4>2, <4>5, <4>7
    <3>4. \A k \in DOMAIN v.todo : v.todo[k].below =>
            \A q \in Under(d, v.todo[k].p) : NameOf(q) \in DoneNames(v) \cup AheadNames(d, v, k)
      <4>1. SUFFICES ASSUME NEW k \in 1 .. m - 1, v.todo[k].below,
                            NEW q \in Under(d, v.todo[k].p)
                     PROVE  NameOf(q) \in DoneNames(v) \cup AheadNames(d, v, k)
        BY <2>2
      <4>2. k + 1 \in 1 .. m /\ v.todo[k] = t.todo[k + 1]
        BY <1>3, <2>2
      <4>3. NameOf(q) \in DoneNames(t) \cup AheadNames(d, t, k + 1)
        BY <1>4, <4>1, <4>2
      <4>4. QED BY <2>4, <3>2, <3>3, <4>3
    <3>5. NeedsInv(d, depth, v)
      BY <1>2, <1>4, <2>3, <3>1, <3>4 DEF NeedsInv
    <3>6. QED BY <3>5 DEF v
  <2>7. QED BY <1>6, <2>5, <2>6 DEF Passes
<1>7. CASE Enters(d, t)
  <2> DEFINE n == Len(Below1(d, p))
  <2>1. /\ n \in Nat /\ DOMAIN v.todo = 1 .. n + m
        /\ \A i \in 1 .. n : v.todo[i].p = Below1(d, p)[i] /\ ~v.todo[i].below
        /\ v.todo[n + 1].p = p /\ v.todo[n + 1].below
        /\ \A i \in n + 2 .. n + m : v.todo[i] = t.todo[i - n]
    BY <1>1, <1>7, VisitPlaces
  <2>2. p \in There(d) /\ p \in Pkg /\ v.ordered = t.ordered
    BY <1>1, <1>7, VisitIs, VisitMarks
  <2>3. Below1(d, p) \in Seq(There(d) \cup {None}) /\ DOMAIN Below1(d, p) = 1 .. n
    BY <2>2, BelowIs
  <2>4. \A i \in 1 .. n : v.todo[i].p # None => v.todo[i].p \in Under(d, p) /\ v.todo[i].p \in There(d)
    <3>1. \A i \in 1 .. n : Below1(d, p)[i] \in Range(Below1(d, p)) /\ Below1(d, p)[i] \in There(d) \cup {None}
      BY <2>3 DEF Range
    <3>2. QED BY <2>1, <3>1 DEF Under
  <2> HIDE DEF v, p, m, n
  <2>5. /\ n + 1 \in 1 .. n + m
        /\ \A i \in 1 .. n + m : i \in 1 .. n \/ i = n + 1 \/ i \in n + 2 .. n + m
        /\ \A i \in 2 .. m : i + n \in n + 2 .. n + m /\ i + n - n = i /\ i + n \in 1 .. n + m
        /\ \A i \in n + 2 .. n + m : i - n \in 2 .. m /\ i - n \in 1 .. m
        /\ \A i \in 1 .. m : i = 1 \/ i \in 2 .. m
        /\ \A i \in 1 .. n : i \in 1 .. n + m
        /\ 1 \in 1 .. m
    BY <1>3, <2>1
  <2>6. \A i \in 1 .. n : v.todo[i].p # None => depth[NameOf(v.todo[i].p)] < depth[NameOf(p)]
    BY <2>2, <2>4 DEF Deepens
  <2>7. \A j, k \in DOMAIN v.todo :
          j < k /\ v.todo[k].below /\ v.todo[j].p # None =>
            depth[NameOf(v.todo[j].p)] < depth[NameOf(v.todo[k].p)]
    <3>1. SUFFICES ASSUME NEW j \in 1 .. n + m, NEW k \in 1 .. n + m,
                          j < k, v.todo[k].below, v.todo[j].p # None
                   PROVE  depth[NameOf(v.todo[j].p)] < depth[NameOf(v.todo[k].p)]
      BY <2>1
    <3>2. CASE k = n + 1
      <4>1. j \in 1 .. n
        BY <2>1, <3>1, <3>2
      <4>2. QED BY <2>1, <2>6, <3>1, <3>2, <4>1
    <3>3. CASE k \in n + 2 .. n + m
      <4>1. k - n \in 2 .. m /\ k - n \in 1 .. m /\ v.todo[k] = t.todo[k - n] /\ 1 < k - n
        BY <2>1, <2>5, <3>3
      <4>2. t.todo[k - n].p \in Pkg
        BY <1>3, <3>1, <4>1 DEF ToDo
      <4>3. depth[NameOf(p)] < depth[NameOf(v.todo[k].p)]
        BY <1>4, <2>2, <2>5, <3>1, <4>1, PkgAssumption DEF p
      <4>4. CASE j \in 1 .. n
        <5>1. depth[NameOf(v.todo[j].p)] < depth[NameOf(p)] /\ v.todo[j].p \in Pkg
          BY <2>4, <2>6, <3>1, <4>4 DEF There
        <5>2. /\ depth[NameOf(v.todo[j].p)] \in Nat /\ depth[NameOf(p)] \in Nat
              /\ depth[NameOf(v.todo[k].p)] \in Nat
          BY <1>5, <2>2, <4>1, <4>2, <5>1
        <5>3. QED BY <4>3, <5>1, <5>2
      <4>5. CASE j = n + 1
        BY <2>1, <4>3, <4>5
      <4>6. CASE j \in n + 2 .. n + m
        <5>1. j - n \in 1 .. m /\ v.todo[j] = t.todo[j - n] /\ j - n < k - n
          BY <2>1, <2>5, <3>1, <4>6
        <5>2. QED BY <1>4, <3>1, <4>1, <5>1
      <4>7. QED BY <2>5, <4>4, <4>5, <4>6
    <3>4. CASE k \in 1 .. n
      BY <2>1, <3>1, <3>4
    <3>5. QED BY <2>5, <3>2, <3>3, <3>4
  <2>8. ASSUME NEW k \in n + 2 .. n + m
        PROVE  AheadNames(d, t, k - n) \subseteq AheadNames(d, v, k)
    <3>1. SUFFICES ASSUME NEW j \in 1 .. m, j < k - n, t.todo[j].p \in There(d)
                   PROVE  NameOf(t.todo[j].p) \in AheadNames(d, v, k)
      BY <1>3 DEF AheadNames
    <3>2. CASE j = 1
      <4>1. n + 1 \in DOMAIN v.todo /\ n + 1 < k /\ v.todo[n + 1].p = p
        BY <2>1, <2>5
      <4>2. QED BY <2>2, <3>2, <4>1 DEF AheadNames, p
    <3>3. CASE j \in 2 .. m
      <4>1. j + n \in DOMAIN v.todo /\ j + n < k /\ v.todo[j + n] = t.todo[j]
        BY <2>1, <2>5, <3>1, <3>3
      <4>2. QED BY <3>1, <4>1 DEF AheadNames
    <3>4. QED BY <2>5, <3>2, <3>3
  <2>9. \A k \in DOMAIN v.todo : v.todo[k].below =>
          \A q \in Under(d, v.todo[k].p) : NameOf(q) \in DoneNames(v) \cup AheadNames(d, v, k)
    <3>1. SUFFICES ASSUME NEW k \in 1 .. n + m, v.todo[k].below,
                          NEW q \in Under(d, v.todo[k].p)
                   PROVE  NameOf(q) \in DoneNames(v) \cup AheadNames(d, v, k)
      BY <2>1
    <3>2. CASE k = n + 1
      <4>1. q \in Under(d, p)
        BY <2>1, <3>2
      <4>2. PICK i \in 1 .. n : Below1(d, p)[i] = q
        BY <2>3, <4>1 DEF Under, Range
      <4>3. i \in DOMAIN v.todo /\ i < k /\ v.todo[i].p = q /\ q # None
        BY <2>1, <2>5, <3>2, <4>1, <4>2 DEF Under
      <4>4. q \in There(d)
        BY <2>4, <4>3
      <4>5. QED BY <4>3, <4>4 DEF AheadNames
    <3>3. CASE k \in n + 2 .. n + m
      <4>1. k - n \in 1 .. m /\ v.todo[k] = t.todo[k - n]
        BY <2>1, <2>5, <3>3
      <4>2. NameOf(q) \in DoneNames(t) \cup AheadNames(d, t, k - n)
        BY <1>4, <3>1, <4>1
      <4>3. DoneNames(v) = DoneNames(t)
        BY <2>2 DEF DoneNames
      <4>4. QED BY <2>8, <3>3, <4>2, <4>3
    <3>4. QED BY <2>1, <2>5, <3>1, <3>2, <3>3
  <2>10. NeedsInv(d, depth, v)
    BY <1>2, <1>4, <2>2, <2>7, <2>9 DEF NeedsInv
  <2>11. QED BY <2>10 DEF v
<1>8. QED BY <1>6, <1>7

(* Where the needs of the packages that are there make no circle, each is    *)
(* configured after whatever provides what it needs, so that its script      *)
(* finds that working (opkg_recurse_pkgs_in_order).                          *)
THEOREM ConfiguresInOrder ==
  ASSUME NEW d, d.known \in SUBSET Pkg, NEW depth, Deepens(d, depth)
  PROVE  \A i \in DOMAIN InOrder(d) : \A q \in Under(d, InOrder(d)[i]) :
           \E j \in DOMAIN InOrder(d) : j < i /\ NameOf(InOrder(d)[j]) = NameOf(q)
<1> DEFINE Held == {t \in Tour : NeedsInv(d, depth, t)}
           e == Toured(d)[Setting(d)]
<1>1. \A t \in Held : t.todo # <<>> => Visit(d, t) \in Held
  BY NeedsKept, VisitIs
<1>2. Setting(d) \in Held
  <2>1. /\ TourInv(d, Setting(d)) /\ Setting(d) \in Tour
        /\ DOMAIN Setting(d).ordered = {}
        /\ \A i \in DOMAIN Setting(d).todo : ~Setting(d).todo[i].below
    BY SettingIs DEF TourInv
  <2>2. QED BY <2>1 DEF NeedsInv
<1>3. e \in Held
  <2>1. Held \in SUBSET Tour
    OBVIOUS
  <2> HIDE DEF Held
  <2>2. QED BY <1>1, <1>2, <2>1, TourKeeps
<1>4. InOrder(d) = e.ordered
  BY SettingIs
<1> HIDE DEF e
<1>5. QED BY <1>3, <1>4 DEF NeedsInv

-----------------------------------------------------------------------------
(* What satisfies a dependency.                                              *)

(* The candidate for a name is a package that is known.                      *)
LEMMA BestIs ==
  ASSUME NEW d, d.known \in SUBSET Pkg, NEW n, NEW good, NEW quiet
  PROVE  Best(d, n, good, quiet) \in d.known \cup {None}
<1> DEFINE matching == Candidates(d, n)
           held == {p \in Pkg : "hold" \in d.flags[p]}
           parents == {p \in Pkg : d.abs[NameOf(p)] \in Present}
           ranks == SelectSeq(<<good, held, parents>>, LAMBDA S : S \cap matching # {})
<1>1. matching \subseteq d.known
  BY DEF Candidates, Records
<1>2. Best(d, n, good, quiet) =
        IF ranks # <<>> THEN Latest(Head(ranks) \cap matching)
        ELSE IF Cardinality(matching) > 1 /\ quiet THEN None ELSE Earliest(matching)
  BY DEF Best, BestOf
<1> HIDE DEF ranks, matching
<1>3. matching \in SUBSET Pkg /\ Head(ranks) \cap matching \in SUBSET Pkg
  BY <1>1
<1>4. Latest(Head(ranks) \cap matching) \in matching \cup {None}
  BY <1>3, LatestIs
<1>5. Earliest(matching) \in matching \cup {None}
  BY <1>3, EarliestIs
<1>6. QED BY <1>1, <1>2, <1>4, <1>5

(* The alternatives of the dependencies.                                     *)
LEMMA AlternativesOf ==
  ASSUME NEW dep \in Dependency
  PROVE  /\ DOMAIN dep.alts = 1 .. Len(dep.alts) /\ Len(dep.alts) \in Nat
         /\ \A i \in DOMAIN dep.alts : dep.alts[i] \in Alternatives
<1>1. PICK p \in Pkg : dep \in Range(Info[p].depends)
  BY DEF Dependency
<1>2. PICK k \in DOMAIN Info[p].depends : Info[p].depends[k] = dep
  BY <1>1 DEF Range
<1>3. dep.alts \in Seq(Range(dep.alts))
  BY <1>1, DependsAssumption
<1>4. ASSUME NEW i \in DOMAIN dep.alts PROVE dep.alts[i] \in Alternatives
  <2>1. dep.alts[i] \in Range(dep.alts)
    BY DEF Range
  <2>2. Range(dep.alts) \in {Range(Info[p].depends[j].alts) : j \in DOMAIN Info[p].depends}
    BY <1>2
  <2>3. QED BY <2>1, <2>2 DEF Alternatives
<1>5. QED BY <1>3, <1>4

(* What satisfies an alternative, and so what first satisfies a dependency,  *)
(* is a package that is known.                                               *)
LEMMA SatisfierIs ==
  ASSUME NEW d, d.known \in SUBSET Pkg, NEW dep, NEW alt \in Alternatives
  PROVE  /\ Satisfier(d, dep, alt) \in d.known \cup {None}
         /\ Satisfier(d, dep, alt) # None => Satisfier(d, dep, alt) \in BestIn(d, alt, Satisfying[alt])
<1> DEFINE B == BestIn(d, alt, Satisfying[alt])
           S == {q \in B : dep.type \in {"recommend", "suggest"} => d.want[q] # "deinstall"}
<1>1. Satisfying[alt] \subseteq Pkg
  BY DEF Satisfying
<1>2. B \subseteq {Best(d, alt.name, Satisfying[alt], TRUE)} \cap Pkg
  BY <1>1 DEF BestIn
<1>3. Best(d, alt.name, Satisfying[alt], TRUE) \in d.known \cup {None}
  BY BestIs
<1>4. B \subseteq d.known
  BY <1>2, <1>3, PkgAssumption
<1>5. Satisfier(d, dep, alt) = Latest(S)
  BY DEF Satisfier
<1> HIDE DEF B
<1>6. S \in SUBSET Pkg /\ S \subseteq d.known
  BY <1>4
<1>7. Latest(S) \in S \cup {None}
  <2> HIDE DEF S
  <2>1. QED BY <1>6, LatestIs
<1>8. S \subseteq BestIn(d, alt, Satisfying[alt])
  BY DEF B
<1> HIDE DEF S
<1>9. QED BY <1>5, <1>6, <1>7, <1>8

(* What is taken for a dependency is known, and satisfies one of its         *)
(* alternatives.                                                             *)
LEMMA FirstSatisfierIs ==
  ASSUME NEW d, d.known \in SUBSET Pkg, NEW dep \in Dependency
  PROVE  /\ FirstSatisfier(d, dep) \in d.known \cup {None}
         /\ FirstSatisfier(d, dep) # None =>
              \E i \in DOMAIN dep.alts :
                FirstSatisfier(d, dep) \in BestIn(d, dep.alts[i], Satisfying[dep.alts[i]])
<1> DEFINE by == [i \in DOMAIN dep.alts |-> Satisfier(d, dep, dep.alts[i])]
           found == {i \in DOMAIN by : by[i] # None}
<1>1. /\ found \in SUBSET Nat
      /\ \A i \in found : i \in DOMAIN dep.alts /\ dep.alts[i] \in Alternatives
  BY AlternativesOf
<1>2. FirstSatisfier(d, dep) = IF found = {} THEN None ELSE by[Min(found)]
  BY DEF FirstSatisfier, FirstOf
<1>3. \A i \in found : by[i] = Satisfier(d, dep, dep.alts[i])
  OBVIOUS
<1> HIDE DEF by, found
<1>4. CASE found = {}
  BY <1>2, <1>4
<1>5. CASE found # {}
  <2>1. \E i \in found : \A j \in found : i <= j
    BY <1>1, <1>5, LeastNat
  <2>2. PICK i \in found : i = Min(found)
    BY <2>1 DEF Min
  <2>3. FirstSatisfier(d, dep) = Satisfier(d, dep, dep.alts[i])
    BY <1>2, <1>3, <1>5, <2>2
  <2>4. QED BY <1>1, <2>2, <2>3, SatisfierIs
<1>6. QED BY <1>4, <1>5

-----------------------------------------------------------------------------
(* The walk over what a package depends on.                                  *)
Dependencies == [p : Pkg, dep : Dependency]

(* The dependencies that a package adds to the walk are its own.             *)
LEMMA DependsOfIs ==
  ASSUME NEW p \in Pkg
  PROVE  /\ DependsOf(p) \in Seq(Dependencies)
         /\ Len(DependsOf(p)) = Len(Info[p].depends) /\ Len(Info[p].depends) \in Nat
         /\ Range(DependsOf(p)) = {[p |-> p, dep |-> dep] : dep \in Range(Info[p].depends)}
<1> DEFINE n == Len(Info[p].depends)
           f == [i \in 1 .. n |-> [p |-> p, dep |-> Info[p].depends[i]]]
<1>1. n \in Nat /\ DOMAIN Info[p].depends = 1 .. n
  BY DependsAssumption
<1>2. \A i \in 1 .. n : Info[p].depends[i] \in Dependency
  BY <1>1 DEF Dependency, Range
<1>3. DependsOf(p) = f
  BY <1>1 DEF DependsOf
<1>4. \A i \in 1 .. n : f[i] \in Dependencies
  BY <1>2 DEF Dependencies
<1>5. f \in Seq(Dependencies) /\ Len(f) = n
  <2>1. f = [i \in 1 .. n |-> f[i]]
    OBVIOUS
  <2> HIDE DEF f, n
  <2>2. QED BY <1>1, <1>4, <2>1
<1>6. Range(f) = {[p |-> p, dep |-> dep] : dep \in Range(Info[p].depends)}
  BY <1>1 DEF Range
<1>7. QED BY <1>1, <1>3, <1>5, <1>6

(* The steps of the walk: a dependency that is met, or for which there is    *)
(* nothing to do or nothing to be had; or a package that is added, whose own *)
(* dependencies come next unless its name has been checked.                  *)
First(d, w) == FirstSatisfier(d, w.todo[1].dep)
IsMet(d, dep) == \E i \in DOMAIN dep.alts : Met(d, dep.alts[i])
Brings(d, w) ==
  /\ ~IsMet(d, w.todo[1].dep)
  /\ First(d, w) # None /\ w.todo[1].dep.type # "suggest" /\ First(d, w) # w.todo[1].p
  /\ First(d, w) \notin Range(w.vec)
Loses(d, w) ==
  /\ ~IsMet(d, w.todo[1].dep) /\ First(d, w) = None
  /\ w.todo[1].dep.type \notin {"recommend", "suggest"}

(* What entering a package does to the walk.                                 *)
LEMMA EnterIs ==
  ASSUME NEW w \in Walk, NEW q \in Pkg
  PROVE  LET v == Enter(w, q)
         IN  /\ v \in Walk /\ v.vec = w.vec /\ v.lost = w.lost
             /\ w.checked[NameOf(q)] # 0 => v.checked = w.checked /\ v.todo = w.todo
             /\ w.checked[NameOf(q)] = 0 =>
                  /\ v.checked = [w.checked EXCEPT ![NameOf(q)] = 1]
                  /\ v.todo = DependsOf(q) \o w.todo
<1> DEFINE v == Enter(w, q)
<1>1. /\ w.vec \in Seq(Pkg) /\ w.lost \in BOOLEAN /\ w.checked \in [Name -> 0..2]
      /\ w.todo \in Seq(Dependencies)
      /\ w = [vec |-> w.vec, lost |-> w.lost, checked |-> w.checked, todo |-> w.todo]
  BY DEF Walk, Dependencies
<1>2. NameOf(q) \in Name
  BY InfoAssumption DEF NameOf
<1>3. CASE w.checked[NameOf(q)] # 0
  BY <1>3 DEF Enter
<1>4. CASE w.checked[NameOf(q)] = 0
  <2> DEFINE checked == [w.checked EXCEPT ![NameOf(q)] = 1]
             todo == DependsOf(q) \o w.todo
  <2>1. v = [w EXCEPT !.checked[NameOf(q)] = 1, !.todo = DependsOf(q) \o @]
    BY <1>4 DEF Enter
  <2>2. v = [vec |-> w.vec, lost |-> w.lost, checked |-> checked, todo |-> todo]
    BY <1>1, <2>1 DEF Walk
  <2>3. checked \in [Name -> 0..2]
    <3>1. \A c \in [Name -> 0..2] : \A n : [c EXCEPT ![n] = 1] \in [Name -> 0..2]
      <4>1. 1 \in 0..2
        OBVIOUS
      <4>2. \A S : 1 \in S => \A c \in [Name -> S] : \A n : [c EXCEPT ![n] = 1] \in [Name -> S]
        OBVIOUS
      <4>3. QED BY <4>1, <4>2
    <3>2. QED BY <1>1, <3>1
  <2>4. todo \in Seq(Dependencies)
    BY <1>1, DependsOfIs, ConcatIs
  <2> HIDE DEF v, checked, todo
  <2>5. v \in Walk
    BY <1>1, <2>2, <2>3, <2>4 DEF Walk, Dependencies
  <2>6. QED BY <1>4, <2>2, <2>5 DEF v, checked, todo
<1>5. QED BY <1>3, <1>4

(* What looking at one dependency does, in each of its cases.                *)
LEMMA LookIs ==
  ASSUME NEW d, d.known \in SUBSET Pkg, NEW w \in Walk, w.todo # <<>>
  PROVE  LET v == Look(d, w)
             q == First(d, w)
         IN  /\ v \in Walk
             /\ w.todo[1] \in Dependencies /\ q \in d.known \cup {None}
             /\ v.lost = (w.lost \/ Loses(d, w))
             /\ ~Brings(d, w) => v.vec = w.vec /\ v.checked = w.checked /\ v.todo = Tail(w.todo)
             /\ Brings(d, w) =>
                  /\ q \in d.known /\ v.vec = Append(w.vec, q)
                  /\ w.checked[NameOf(q)] # 0 => v.checked = w.checked /\ v.todo = Tail(w.todo)
                  /\ w.checked[NameOf(q)] = 0 =>
                       /\ v.checked = [w.checked EXCEPT ![NameOf(q)] = 1]
                       /\ v.todo = DependsOf(q) \o Tail(w.todo)
<1> DEFINE v == Look(d, w)
           q == First(d, w)
           h == w.todo[1]
           next == [w EXCEPT !.todo = Tail(@)]
<1>1. /\ w.vec \in Seq(Pkg) /\ w.lost \in BOOLEAN /\ w.checked \in [Name -> 0..2]
      /\ w.todo \in Seq(Dependencies)
      /\ DOMAIN w = {"vec", "lost", "checked", "todo"}
  BY DEF Walk, Dependencies
<1>2. Head(w.todo) = h /\ h \in Dependencies /\ Tail(w.todo) \in Seq(Dependencies)
  BY <1>1, TailIs
<1>3. q \in d.known \cup {None}
  <2>1. h.dep \in Dependency
    BY <1>2 DEF Dependencies
  <2>2. QED BY <2>1, FirstSatisfierIs DEF First
<1>4. next = [vec |-> w.vec, lost |-> w.lost, checked |-> w.checked, todo |-> Tail(w.todo)]
  <2> DEFINE rest == Tail(w.todo)
  <2>1. next = [w EXCEPT !.todo = rest]
    OBVIOUS
  <2> HIDE DEF next, rest
  <2>2. next = [vec |-> w.vec, lost |-> w.lost, checked |-> w.checked, todo |-> rest]
    BY <1>1, <2>1 DEF Walk
  <2>3. QED BY <2>2 DEF rest
<1> HIDE DEF next
<1>5. next \in Walk
  BY <1>1, <1>2, <1>4 DEF Walk, Dependencies
<1>6. v = IF IsMet(d, h.dep) THEN next ELSE Include(next, h.p, h.dep, q)
  BY <1>2 DEF Look, First, IsMet, next
<1>7. \A x \in Pkg : Contains(w.vec, x) <=> x \in Range(w.vec)
  BY <1>1 DEF Contains, Range
<1> HIDE DEF v, q, h
<1>8. CASE IsMet(d, h.dep)
  BY <1>1, <1>2, <1>3, <1>4, <1>5, <1>6, <1>8 DEF Brings, Loses, h, q, v
<1>9. CASE ~IsMet(d, h.dep) /\ q = None
  <2> DEFINE lost == w.lost \/ h.dep.type \notin {"recommend", "suggest"}
  <2>1. v = Lose(next, h.dep)
    BY <1>6, <1>9 DEF Include
  <2>2. v = [vec |-> w.vec, lost |-> lost, checked |-> w.checked, todo |-> Tail(w.todo)]
    BY <1>4, <2>1 DEF Lose
  <2>3. lost \in BOOLEAN /\ lost = (w.lost \/ Loses(d, w)) /\ ~Brings(d, w)
    BY <1>1, <1>9 DEF Loses, Brings, h, q
  <2> HIDE DEF lost
  <2>4. v \in Walk
    BY <1>1, <1>2, <2>2, <2>3 DEF Walk, Dependencies
  <2>5. v.vec = w.vec /\ v.lost = lost /\ v.checked = w.checked /\ v.todo = Tail(w.todo)
    BY <2>2
  <2>6. QED BY <1>2, <1>3, <2>3, <2>4, <2>5 DEF v, q, h
<1>10. CASE /\ ~IsMet(d, h.dep) /\ q # None
            /\ h.dep.type = "suggest" \/ q = h.p \/ Contains(w.vec, q)
  <2>1. v = next
    BY <1>4, <1>6, <1>10 DEF Include
  <2>2. q \in Pkg
    BY <1>3, <1>10
  <2>3. ~Brings(d, w) /\ ~Loses(d, w)
    BY <1>7, <1>10, <2>2 DEF Brings, Loses, h, q
  <2>4. v.vec = w.vec /\ v.lost = w.lost /\ v.checked = w.checked /\ v.todo = Tail(w.todo)
    BY <1>4, <2>1
  <2>5. w.lost = (w.lost \/ Loses(d, w))
    BY <1>1, <2>3
  <2>6. QED BY <1>2, <1>3, <1>5, <2>1, <2>3, <2>4, <2>5 DEF v, q, h
<1>11. CASE /\ ~IsMet(d, h.dep) /\ q # None
            /\ ~(h.dep.type = "suggest" \/ q = h.p \/ Contains(w.vec, q))
  <2> DEFINE more == [next EXCEPT !.vec = Append(@, q)]
  <2>1. v = Enter(more, q)
    BY <1>4, <1>6, <1>11 DEF Include
  <2>2. q \in Pkg /\ q \in d.known
    BY <1>3, <1>11
  <2>3. Brings(d, w) /\ ~Loses(d, w)
    BY <1>7, <1>11, <2>2 DEF Brings, Loses, h, q
  <2>4. more = [vec |-> Append(w.vec, q), lost |-> w.lost, checked |-> w.checked, todo |-> Tail(w.todo)]
    <3> DEFINE vec == Append(w.vec, q)
    <3>1. next.vec = w.vec
      BY <1>4
    <3>2. more = [next EXCEPT !.vec = vec]
      BY <3>1
    <3> HIDE DEF vec, more
    <3>3. more = [vec |-> vec, lost |-> next.lost, checked |-> next.checked, todo |-> next.todo]
      BY <1>5, <3>2 DEF Walk
    <3>4. QED BY <1>4, <3>3 DEF vec
  <2>5. Append(w.vec, q) \in Seq(Pkg)
    BY <1>1, <2>2, AppendIs
  <2> HIDE DEF more
  <2>6. more \in Walk
    BY <1>1, <1>2, <2>4, <2>5 DEF Walk, Dependencies
  <2>7. /\ more.vec = Append(w.vec, q) /\ more.lost = w.lost /\ more.checked = w.checked
        /\ more.todo = Tail(w.todo)
    BY <2>4
  <2>8. w.lost = (w.lost \/ Loses(d, w))
    BY <1>1, <2>3
  <2>9. /\ v \in Walk /\ v.vec = more.vec /\ v.lost = more.lost
        /\ more.checked[NameOf(q)] # 0 => v.checked = more.checked /\ v.todo = more.todo
        /\ more.checked[NameOf(q)] = 0 =>
             /\ v.checked = [more.checked EXCEPT ![NameOf(q)] = 1]
             /\ v.todo = DependsOf(q) \o more.todo
    BY <2>1, <2>2, <2>6, EnterIs
  <2>10. QED BY <1>2, <1>3, <2>2, <2>3, <2>7, <2>8, <2>9 DEF v, q, h
<1>12. QED BY <1>8, <1>9, <1>10, <1>11

(* Whatever circle the dependencies go round, the walk ends: each step       *)
(* checks a name for the first time or leaves less to do.                    *)
Deep == CHOOSE k \in Nat : \A p \in Pkg : Len(Info[p].depends) <= k
Unchecked(w) == {n \in Name : w.checked[n] = 0}
Walking(w) == Cardinality(Unchecked(w)) * (Deep + 1) + Len(w.todo)

(* A look leaves less to do.                                                 *)
LEMMA LookEnds ==
  ASSUME NEW d, d.known \in SUBSET Pkg, NEW w \in Walk
  PROVE  Walking(w) \in Nat /\ (w.todo # <<>> => Walking(Look(d, w)) < Walking(w))
<1> DEFINE k == Deep + 1
           c == Cardinality(Unchecked(w))
           v == Look(d, w)
<1>1. Deep \in Nat /\ \A p \in Pkg : Len(Info[p].depends) <= Deep
  <2> DEFINE f == [p \in Pkg |-> Len(Info[p].depends)]
  <2>1. f \in [Pkg -> Nat]
    BY DependsOfIs
  <2>2. \E n \in Nat : \A p \in Pkg : f[p] <= n
    <3> HIDE DEF f
    <3>1. QED BY <2>1, PkgBound
  <2>3. QED BY <2>2 DEF Deep
<1>2. /\ w.todo \in Seq(Dependencies) /\ Len(w.todo) \in Nat /\ w.checked \in [Name -> 0..2]
      /\ IsFiniteSet(Unchecked(w)) /\ c \in Nat /\ k \in Nat
  <2>1. Unchecked(w) \in SUBSET Name
    BY DEF Unchecked
  <2>2. QED BY <1>1, <2>1, NamesFinite DEF Walk, Dependencies
<1>3. \A i, j \in Nat : i * j \in Nat
  OBVIOUS
<1>4. Walking(w) \in Nat
  BY <1>2, <1>3 DEF Walking
<1>5. ASSUME w.todo # <<>> PROVE Walking(v) < Walking(w)
  <2> DEFINE q == First(d, w)
             rest == Tail(w.todo)
  <2>1. Len(rest) = Len(w.todo) - 1 /\ rest \in Seq(Dependencies) /\ Len(rest) \in Nat
    <3>1. rest \in Seq(Dependencies) /\ Len(rest) = Len(w.todo) - 1
      BY <1>2, <1>5, TailIs
    <3> HIDE DEF rest
    <3>2. QED BY <3>1
  <2>2. CASE v.checked = w.checked /\ v.todo = rest
    <3>1. Walking(v) = c * k + Len(rest)
      BY <2>2 DEF Walking, Unchecked
    <3>2. c * k \in Nat /\ Walking(w) = c * k + Len(w.todo)
      BY <1>2, <1>3 DEF Walking
    <3>3. \A x, i, j \in Nat : i = j - 1 => x + i < x + j
      OBVIOUS
    <3> HIDE DEF c, k, rest
    <3>4. QED BY <1>2, <2>1, <3>1, <3>2, <3>3
  <2>3. CASE /\ q \in Pkg /\ w.checked[NameOf(q)] = 0
             /\ v.checked = [w.checked EXCEPT ![NameOf(q)] = 1]
             /\ v.todo = DependsOf(q) \o rest
    <3>1. NameOf(q) \in Unchecked(w)
      BY <2>3, InfoAssumption DEF Unchecked, NameOf
    <3>2. Unchecked(v) = Unchecked(w) \ {NameOf(q)}
      BY <1>2, <2>3 DEF Unchecked
    <3>3. Cardinality(Unchecked(v)) = c - 1
      <4> DEFINE S == Unchecked(w)
      <4>1. Cardinality(S \ {NameOf(q)}) = IF NameOf(q) \in S THEN Cardinality(S) - 1 ELSE Cardinality(S)
        <5>1. IsFiniteSet(S)
          BY <1>2
        <5> HIDE DEF S, q
        <5>2. QED BY <5>1, FS_RemoveElement
      <4> HIDE DEF q
      <4>2. QED BY <3>1, <3>2, <4>1
    <3>4. /\ Len(v.todo) = Len(Info[q].depends) + Len(rest) /\ Len(Info[q].depends) \in Nat
          /\ Len(Info[q].depends) < k
      <4>1. /\ DependsOf(q) \in Seq(Dependencies) /\ Len(DependsOf(q)) = Len(Info[q].depends)
            /\ Len(Info[q].depends) \in Nat /\ Len(Info[q].depends) <= Deep
        BY <1>1, <2>3, DependsOfIs
      <4>2. Len(DependsOf(q) \o rest) = Len(DependsOf(q)) + Len(rest)
        <5> HIDE DEF rest, q
        <5>1. QED BY <2>1, <4>1, ConcatIs
      <4> HIDE DEF q, rest
      <4>3. QED BY <1>1, <2>3, <4>1, <4>2
    <3>5. Walking(v) = (c - 1) * k + (Len(Info[q].depends) + Len(rest))
      BY <3>3, <3>4 DEF Walking
    <3>6. c # 0
      <4>1. Unchecked(w) # {} /\ Unchecked(w) \in SUBSET Name
        BY <3>1 DEF Unchecked
      <4>2. QED BY <4>1, NamesFinite
    <3>7. (c - 1) * k = c * k - k /\ c * k \in Nat
      <4>1. \A i, j \in Nat : (i - 1) * j = i * j - j
        OBVIOUS
      <4>2. QED BY <1>2, <1>3, <4>1
    <3>8. Walking(w) = c * k + Len(w.todo)
      BY DEF Walking
    <3>9. \A x, h, l, i, j \in Nat : l < h /\ i = j - 1 => (x - h) + (l + i) < x + j
      OBVIOUS
    <3> HIDE DEF c, k, q, rest
    <3>10. QED BY <1>2, <2>1, <3>4, <3>5, <3>7, <3>8, <3>9
  <2>4. (v.checked = w.checked /\ v.todo = rest) \/
        (/\ q \in Pkg /\ w.checked[NameOf(q)] = 0
         /\ v.checked = [w.checked EXCEPT ![NameOf(q)] = 1]
         /\ v.todo = DependsOf(q) \o rest)
    <3>1. /\ ~Brings(d, w) => v.checked = w.checked /\ v.todo = Tail(w.todo)
          /\ Brings(d, w) =>
               /\ q \in d.known
               /\ w.checked[NameOf(q)] # 0 => v.checked = w.checked /\ v.todo = Tail(w.todo)
               /\ w.checked[NameOf(q)] = 0 =>
                    /\ v.checked = [w.checked EXCEPT ![NameOf(q)] = 1]
                    /\ v.todo = DependsOf(q) \o Tail(w.todo)
      BY <1>5, LookIs
    <3> HIDE DEF v, q
    <3>2. QED BY <3>1
  <2>5. QED BY <2>2, <2>3, <2>4
<1>6. QED BY <1>4, <1>5

(* The function that walks what is to be satisfied.                          *)
Walked(d) ==
  CHOOSE f : f = [w \in Walk |-> IF w.todo = <<>> THEN w ELSE f[Look(d, w)]]

(* The walk is a function: every look leaves less to do.                     *)
LEMMA WalkedIs ==
  ASSUME NEW d, d.known \in SUBSET Pkg
  PROVE  /\ Walked(d) \in [Walk -> Walk]
         /\ \A w \in Walk : Walked(d)[w] = IF w.todo = <<>> THEN w ELSE Walked(d)[Look(d, w)]
<1> DEFINE F    == {w \in Walk : w.todo = <<>>}
           res  == [w \in Walk |-> w]
           next == [w \in Walk |-> IF w.todo = <<>> THEN w ELSE Look(d, w)]
           rank == [w \in Walk |-> Walking(w)]
           def(f) == f = [w \in Walk |-> IF w.todo = <<>> THEN w ELSE f[Look(d, w)]]
<1>1. /\ res \in [Walk -> Walk] /\ next \in [Walk -> Walk] /\ rank \in [Walk -> Nat]
      /\ \A w \in Walk \ F : rank[next[w]] < rank[w]
  <2>1. \A w \in Walk : next[w] \in Walk
    BY LookIs
  <2>2. \A w \in Walk : rank[w] \in Nat
    BY LookEnds
  <2>3. \A w \in Walk \ F : Walking(Look(d, w)) < Walking(w) /\ Look(d, w) \in Walk
    BY LookEnds, LookIs
  <2>4. QED BY <2>1, <2>2, <2>3
<1>2. \A f : TailLoop(f, Walk, F, res, next) <=> def(f)
  <2>1. ASSUME NEW f
        PROVE  [w \in Walk |-> IF w \in F THEN res[w] ELSE f[next[w]]]
             = [w \in Walk |-> IF w.todo = <<>> THEN w ELSE f[Look(d, w)]]
    OBVIOUS
  <2>2. QED BY <2>1 DEF TailLoop
<1>3. /\ \E f : TailLoop(f, Walk, F, res, next)
      /\ \A f : TailLoop(f, Walk, F, res, next) => f \in [Walk -> Walk]
  <2> HIDE DEF F, res, next, rank
  <2>1. res \in [Walk -> Walk] /\ next \in [Walk -> Walk] /\ rank \in [Walk -> Nat]
    BY <1>1
  <2>2. \A w \in Walk \ F : rank[next[w]] < rank[w]
    BY <1>1
  <2>3. \E f : TailLoop(f, Walk, F, res, next)
    BY <2>1, <2>2, TailLoopExists
  <2>4. \A f : TailLoop(f, Walk, F, res, next) => f \in [Walk -> Walk]
    BY <2>1, <2>2, TailLoopExists
  <2>5. QED BY <2>3, <2>4
<1>4. def(Walked(d)) /\ Walked(d) \in [Walk -> Walk]
  <2>1. \E f : def(f)
    <3> HIDE DEF F, res, next, rank, def
    <3>1. QED BY <1>2, <1>3
  <2>2. def(Walked(d))
    BY <2>1 DEF Walked
  <2>3. QED
    <3> HIDE DEF F, res, next, rank, def
    <3>1. QED BY <1>2, <1>3, <2>2
<1>5. QED BY <1>4

(* What every step keeps holds when a walk ends.                             *)
LEMMA WalkKeeps ==
  ASSUME NEW d, d.known \in SUBSET Pkg, NEW Held \in SUBSET Walk,
         \A w \in Held : w.todo # <<>> => Look(d, w) \in Held
  PROVE  \A w \in Held : Walked(d)[w] \in Held /\ Walked(d)[w].todo = <<>>
<1> DEFINE good == {w \in Walk : w \in Held => Walked(d)[w] \in Held /\ Walked(d)[w].todo = <<>>}
           rank == [w \in Walk |-> Walking(w)]
<1>1. rank \in [Walk -> Nat]
  BY LookEnds
<1>2. ASSUME NEW w \in Walk, \A u \in Walk : rank[u] < rank[w] => u \in good
      PROVE  w \in good
  <2>1. CASE w.todo = <<>>
    BY <2>1, WalkedIs
  <2>2. CASE w.todo # <<>>
    <3>1. Look(d, w) \in Walk /\ Walking(Look(d, w)) < Walking(w)
      BY <2>2, LookIs, LookEnds
    <3>2. Look(d, w) \in good
      <4>1. rank[Look(d, w)] < rank[w]
        BY <3>1
      <4> HIDE DEF good, rank
      <4>2. QED BY <1>2, <3>1, <4>1
    <3>3. Walked(d)[w] = Walked(d)[Look(d, w)]
      BY <2>2, WalkedIs
    <3>4. QED BY <2>2, <3>1, <3>2, <3>3
  <2>3. QED BY <2>1, <2>2
<1>3. \A w \in Walk : w \in good
  <2> HIDE DEF good, rank
  <2>1. QED BY <1>1, <1>2, RankInduction
<1>4. QED BY <1>3

(* The packages whose dependencies a walk for p looks at: of each name that  *)
(* was not checked before, p or the first that is added.                     *)
NamesIn(S) == {NameOf(q) : q \in S}
Opened(d, p, vec) ==
  {q \in {p} : d.checked[NameOf(q)] = 0} \cup
  {vec[i] : i \in {j \in DOMAIN vec :
                     /\ d.checked[NameOf(vec[j])] = 0 /\ NameOf(vec[j]) # NameOf(p)
                     /\ \A k \in 1 .. j - 1 : NameOf(vec[k]) # NameOf(vec[j])}}

(* What is done about a dependency of q: it is met; or the first package     *)
(* that satisfies it is q or is added; or it is a suggestion; or there is no *)
(* such package, which nobody minds if it is a recommendation.               *)
Settled(d, vec, lost, q, dep) ==
  \/ IsMet(d, dep)
  \/ FirstSatisfier(d, dep) \in {q} \cup Range(vec)
  \/ dep.type = "suggest"
  \/ FirstSatisfier(d, dep) = None /\ (dep.type = "recommend" \/ lost)

(* What the walk for p keeps.                                                *)
WalkInv(d, p, w) ==
  /\ w \in Walk
  /\ Range(w.vec) \subseteq d.known /\ IsInjective(w.vec)
  /\ \A n \in Name : w.checked[n] # 0 <=> d.checked[n] # 0 \/ n \in NamesIn({p} \cup Range(w.vec))
  /\ \A q \in Opened(d, p, w.vec) : \A dep \in Range(Info[q].depends) :
       \/ Settled(d, w.vec, w.lost, q, dep)
       \/ [p |-> q, dep |-> dep] \in Range(w.todo)

(* A package more in the list opens at most that package.                    *)
LEMMA OpenedGrows ==
  ASSUME NEW d, NEW p \in Pkg, NEW vec \in Seq(Pkg), NEW q \in Pkg
  PROVE  \A x \in Opened(d, p, Append(vec, q)) :
           \/ x \in Opened(d, p, vec)
           \/ x = q /\ d.checked[NameOf(q)] = 0 /\ NameOf(q) \notin NamesIn({p} \cup Range(vec))
<1> DEFINE w == Append(vec, q)
           n == Len(vec)
<1>1. n \in Nat /\ DOMAIN vec = 1 .. n
  OBVIOUS
<1>2. DOMAIN w = 1 .. n + 1 /\ (\A i \in 1 .. n : w[i] = vec[i]) /\ w[n + 1] = q
  <2>1. w \in Seq(Pkg) /\ Len(w) = n + 1 /\ (\A i \in 1 .. n : w[i] = vec[i]) /\ w[n + 1] = q
    BY AppendIs
  <2>2. QED BY <2>1
<1> HIDE DEF w, n
<1>3. SUFFICES ASSUME NEW x \in Opened(d, p, w), x \notin {y \in {p} : d.checked[NameOf(y)] = 0}
               PROVE  \/ x \in Opened(d, p, vec)
                      \/ /\ x = q /\ d.checked[NameOf(q)] = 0
                         /\ NameOf(q) \notin NamesIn({p} \cup Range(vec))
  BY DEF w, Opened
<1>4. PICK i \in 1 .. n + 1 :
        /\ x = w[i] /\ d.checked[NameOf(w[i])] = 0 /\ NameOf(w[i]) # NameOf(p)
        /\ \A k \in 1 .. i - 1 : NameOf(w[k]) # NameOf(w[i])
  BY <1>2, <1>3 DEF Opened
<1>5. CASE i \in 1 .. n
  <2>1. \A k \in 1 .. i - 1 : k \in 1 .. n /\ w[k] = vec[k]
    BY <1>1, <1>2, <1>5
  <2>2. /\ x = vec[i] /\ d.checked[NameOf(vec[i])] = 0 /\ NameOf(vec[i]) # NameOf(p)
        /\ \A k \in 1 .. i - 1 : NameOf(vec[k]) # NameOf(vec[i])
    BY <1>2, <1>4, <1>5, <2>1
  <2>3. x \in Opened(d, p, vec)
    BY <1>1, <1>5, <2>2 DEF Opened
  <2>4. QED BY <2>3
<1>6. CASE i = n + 1
  <2>1. \A k \in 1 .. n : k \in 1 .. i - 1 /\ NameOf(vec[k]) # NameOf(q)
    BY <1>1, <1>2, <1>4, <1>6
  <2>2. NameOf(q) \notin NamesIn({p} \cup Range(vec))
    BY <1>1, <1>2, <1>4, <1>6, <2>1 DEF NamesIn, Range
  <2>3. QED BY <1>2, <1>4, <1>6, <2>2
<1>7. QED BY <1>1, <1>4, <1>5, <1>6

(* A look keeps the invariant of the walk.                                   *)
LEMMA LookKeeps ==
  ASSUME NEW d, d.known \in SUBSET Pkg, NEW p \in Pkg, NEW w, WalkInv(d, p, w), w.todo # <<>>
  PROVE  WalkInv(d, p, Look(d, w))
<1> DEFINE v == Look(d, w)
           q == First(d, w)
           h == w.todo[1]
           rest == Tail(w.todo)
<1>1. /\ w \in Walk /\ w.vec \in Seq(Pkg) /\ w.checked \in [Name -> 0..2] /\ w.lost \in BOOLEAN
      /\ w.todo \in Seq(Dependencies)
      /\ Range(w.vec) \subseteq d.known /\ IsInjective(w.vec)
      /\ \A n \in Name : w.checked[n] # 0 <=> d.checked[n] # 0 \/ n \in NamesIn({p} \cup Range(w.vec))
      /\ \A x \in Opened(d, p, w.vec) : \A dep \in Range(Info[x].depends) :
           \/ Settled(d, w.vec, w.lost, x, dep)
           \/ [p |-> x, dep |-> dep] \in Range(w.todo)
  BY DEF WalkInv, Walk, Dependencies
<1>2. /\ v \in Walk /\ h \in Dependencies /\ q \in d.known \cup {None}
      /\ v.lost = (w.lost \/ Loses(d, w))
      /\ ~Brings(d, w) => v.vec = w.vec /\ v.checked = w.checked /\ v.todo = rest
      /\ Brings(d, w) =>
           /\ q \in d.known /\ v.vec = Append(w.vec, q)
           /\ w.checked[NameOf(q)] # 0 => v.checked = w.checked /\ v.todo = rest
           /\ w.checked[NameOf(q)] = 0 => /\ v.checked = [w.checked EXCEPT ![NameOf(q)] = 1]
                                          /\ v.todo = DependsOf(q) \o rest
  BY <1>1, LookIs
<1>3. rest \in Seq(Dependencies) /\ \A x \in Range(w.todo) : x = h \/ x \in Range(rest)
  BY <1>1, TailIs, TailIn
<1>4. /\ q = FirstSatisfier(d, h.dep)
      /\ Brings(d, w) <=> /\ ~IsMet(d, h.dep) /\ q # None /\ h.dep.type # "suggest"
                          /\ q # h.p /\ q \notin Range(w.vec)
      /\ Loses(d, w) <=> ~IsMet(d, h.dep) /\ q = None /\ h.dep.type \notin {"recommend", "suggest"}
  BY DEF First, Brings, Loses
<1> HIDE DEF v, q, h, rest
<1>5. \A x, dep : Settled(d, w.vec, w.lost, x, dep) /\ Range(w.vec) \subseteq Range(v.vec)
                    => Settled(d, v.vec, v.lost, x, dep)
  BY <1>2 DEF Settled
<1>6. CASE ~Brings(d, w)
  <2>1. v.vec = w.vec /\ v.checked = w.checked /\ v.todo = rest
    BY <1>2, <1>6
  <2>2. Settled(d, v.vec, v.lost, h.p, h.dep)
    BY <1>2, <1>4, <1>6, <2>1 DEF Settled
  <2>3. ASSUME NEW x \in Opened(d, p, v.vec), NEW dep \in Range(Info[x].depends)
        PROVE  Settled(d, v.vec, v.lost, x, dep) \/ [p |-> x, dep |-> dep] \in Range(v.todo)
    <3>1. Settled(d, w.vec, w.lost, x, dep) \/ [p |-> x, dep |-> dep] \in Range(w.todo)
      BY <1>1, <2>1
    <3>2. CASE Settled(d, w.vec, w.lost, x, dep)
      BY <1>5, <2>1, <3>2
    <3>3. CASE [p |-> x, dep |-> dep] \in Range(rest)
      BY <2>1, <3>3
    <3>4. CASE [p |-> x, dep |-> dep] = h
      <4>1. h.p = x /\ h.dep = dep
        BY <3>4
      <4>2. QED BY <2>2, <4>1
    <3>5. QED BY <1>3, <3>1, <3>2, <3>3, <3>4
  <2>4. WalkInv(d, p, v)
    BY <1>1, <1>2, <2>1, <2>3 DEF WalkInv
  <2>5. QED BY <2>4 DEF v
<1>7. CASE Brings(d, w)
  <2>1. q \in d.known /\ q \in Pkg /\ v.vec = Append(w.vec, q) /\ q \notin Range(w.vec)
    BY <1>2, <1>4, <1>7
  <2>2. Range(v.vec) = Range(w.vec) \cup {q} /\ IsInjective(v.vec)
    BY <1>1, <2>1, AppendedIs
  <2>3. NameOf(q) \in Name
    BY <2>1, InfoAssumption DEF NameOf
  <2>4. Range(v.vec) \subseteq d.known
    BY <1>1, <2>1, <2>2
  <2>5. Settled(d, v.vec, v.lost, h.p, h.dep)
    BY <1>4, <2>2 DEF Settled
  <2>6. NamesIn({p} \cup Range(v.vec)) = NamesIn({p} \cup Range(w.vec)) \cup {NameOf(q)}
    BY <2>2 DEF NamesIn
  <2>7. \A n \in Name : v.checked[n] # 0 <=> d.checked[n] # 0 \/ n \in NamesIn({p} \cup Range(v.vec))
    <3>1. CASE w.checked[NameOf(q)] # 0
      BY <1>1, <1>2, <1>7, <2>3, <2>6, <3>1
    <3>2. CASE w.checked[NameOf(q)] = 0
      <4>1. v.checked = [w.checked EXCEPT ![NameOf(q)] = 1]
        BY <1>2, <1>7, <3>2
      <4>2. \A n \in Name : v.checked[n] # 0 <=> w.checked[n] # 0 \/ n = NameOf(q)
        BY <1>1, <2>3, <4>1
      <4>3. QED BY <1>1, <2>6, <4>2
    <3>3. QED BY <3>1, <3>2
  <2>8. Range(rest) \subseteq Range(v.todo)
    <3>1. CASE w.checked[NameOf(q)] # 0
      BY <1>2, <1>7, <3>1
    <3>2. CASE w.checked[NameOf(q)] = 0
      <4>1. v.todo = DependsOf(q) \o rest /\ DependsOf(q) \in Seq(Dependencies)
        BY <1>2, <1>7, <2>1, <3>2, DependsOfIs
      <4>2. QED BY <1>3, <4>1, ConcatIs
    <3>3. QED BY <3>1, <3>2
  <2>9. ASSUME NEW x \in Opened(d, p, w.vec), NEW dep \in Range(Info[x].depends)
        PROVE  Settled(d, v.vec, v.lost, x, dep) \/ [p |-> x, dep |-> dep] \in Range(v.todo)
    <3>1. Settled(d, w.vec, w.lost, x, dep) \/ [p |-> x, dep |-> dep] \in Range(w.todo)
      BY <1>1
    <3>2. CASE Settled(d, w.vec, w.lost, x, dep)
      BY <1>5, <2>2, <3>2
    <3>3. CASE [p |-> x, dep |-> dep] \in Range(rest)
      BY <2>8, <3>3
    <3>4. CASE [p |-> x, dep |-> dep] = h
      <4>1. h.p = x /\ h.dep = dep
        BY <3>4
      <4>2. QED BY <2>5, <4>1
    <3>5. QED BY <1>3, <3>1, <3>2, <3>3, <3>4
  <2>10. ASSUME d.checked[NameOf(q)] = 0, NameOf(q) \notin NamesIn({p} \cup Range(w.vec)),
                NEW dep \in Range(Info[q].depends)
         PROVE  [p |-> q, dep |-> dep] \in Range(v.todo)
    <3>1. w.checked[NameOf(q)] = 0
      BY <1>1, <2>3, <2>10
    <3>2. v.todo = DependsOf(q) \o rest /\ DependsOf(q) \in Seq(Dependencies)
          /\ [p |-> q, dep |-> dep] \in Range(DependsOf(q))
      BY <1>2, <1>7, <2>1, <3>1, DependsOfIs
    <3>3. QED BY <1>3, <3>2, ConcatIs
  <2>11. \A x \in Opened(d, p, v.vec) : \A dep \in Range(Info[x].depends) :
           Settled(d, v.vec, v.lost, x, dep) \/ [p |-> x, dep |-> dep] \in Range(v.todo)
    <3>1. \A x \in Opened(d, p, v.vec) :
            \/ x \in Opened(d, p, w.vec)
            \/ x = q /\ d.checked[NameOf(q)] = 0 /\ NameOf(q) \notin NamesIn({p} \cup Range(w.vec))
      BY <1>1, <2>1, OpenedGrows
    <3>2. QED BY <2>9, <2>10, <3>1
  <2>12. WalkInv(d, p, v)
    BY <1>2, <2>2, <2>4, <2>7, <2>11 DEF WalkInv
  <2>13. QED BY <2>12 DEF v
<1>8. QED BY <1>6, <1>7

(* A dependency of q is served when one of its alternatives is met, or the   *)
(* candidate for it, which satisfies it, is q or will be installed.          *)
Served(d, vec, q, dep) ==
  \E i \in DOMAIN dep.alts :
    \/ Met(d, dep.alts[i])
    \/ \E r \in {q} \cup Range(vec) : r \in BestIn(d, dep.alts[i], Satisfying[dep.alts[i]])

(* Whatever circles the dependencies make, looking for what a package needs  *)
(* ends, lists no package twice, and only packages that are known; and if it *)
(* reports nothing lost, every dependency of each package it looked at is    *)
(* served (pkg_hash_fetch_unsatisfied_dependencies).                         *)
THEOREM UnsatisfiedServes ==
  ASSUME NEW d, d.known \in SUBSET Pkg, d.checked \in [Name -> 0..2], NEW p \in Pkg
  PROVE  LET u == Unsatisfied(d, p)
         IN  /\ u \in Walk
             /\ Range(u.vec) \subseteq d.known /\ IsInjective(u.vec)
             /\ ~u.lost =>
                  \A q \in Opened(d, p, u.vec) : \A dep \in Range(Info[q].depends) :
                    dep.type \notin {"recommend", "suggest"} => Served(d, u.vec, q, dep)
<1> DEFINE none == [vec |-> <<>>, lost |-> FALSE, checked |-> d.checked, todo |-> <<>>]
           first == Enter(none, p)
           u == Walked(d)[first]
           Held == {w \in Walk : WalkInv(d, p, w)}
<1>1. Unsatisfied(d, p) = u
  BY DEF Unsatisfied, Walked
<1>2. none \in Walk
  <2>1. <<>> \in Seq(Pkg) /\ <<>> \in Seq(Dependencies)
    OBVIOUS
  <2>2. QED BY <2>1 DEF Walk, Dependencies
<1>3. NameOf(p) \in Name
  BY InfoAssumption DEF NameOf
<1> HIDE DEF u
<1>4. WalkInv(d, p, first)
  <2>1. /\ none.vec = <<>> /\ none.lost = FALSE /\ none.checked = d.checked /\ none.todo = <<>>
    OBVIOUS
  <2> HIDE DEF none
  <2>2. /\ first \in Walk /\ first.vec = <<>> /\ first.lost = FALSE
        /\ d.checked[NameOf(p)] # 0 => first.checked = d.checked
        /\ d.checked[NameOf(p)] = 0 => /\ first.checked = [d.checked EXCEPT ![NameOf(p)] = 1]
                                       /\ first.todo = DependsOf(p) \o <<>>
    BY <1>2, <2>1, EnterIs
  <2> HIDE DEF first
  <2>3. Range(first.vec) = {} /\ DOMAIN first.vec = {}
    BY <2>2, EmptyList
  <2>4. IsInjective(first.vec)
    BY <2>3 DEF IsInjective
  <2>5. NamesIn({p} \cup Range(first.vec)) = {NameOf(p)}
    BY <2>3 DEF NamesIn
  <2>6. \A n \in Name : first.checked[n] # 0 <=>
                          d.checked[n] # 0 \/ n \in NamesIn({p} \cup Range(first.vec))
    <3>1. \A n \in Name : first.checked[n] # 0 <=> d.checked[n] # 0 \/ n = NameOf(p)
      <4>1. CASE d.checked[NameOf(p)] # 0
        BY <2>2, <4>1
      <4>2. CASE d.checked[NameOf(p)] = 0
        BY <1>3, <2>2, <4>2
      <4>3. QED BY <4>1, <4>2
    <3>2. QED BY <2>5, <3>1
  <2>7. Opened(d, p, first.vec) = {q \in {p} : d.checked[NameOf(q)] = 0}
    BY <2>3 DEF Opened
  <2>8. ASSUME d.checked[NameOf(p)] = 0, NEW dep \in Range(Info[p].depends)
        PROVE  [p |-> p, dep |-> dep] \in Range(first.todo)
    <3>1. DependsOf(p) \in Seq(Dependencies) /\ [p |-> p, dep |-> dep] \in Range(DependsOf(p))
      BY DependsOfIs
    <3>2. <<>> \in Seq(Dependencies)
      OBVIOUS
    <3>3. Range(DependsOf(p) \o <<>>) = Range(DependsOf(p)) \cup Range(<<>>)
      BY <3>1, <3>2, ConcatIs
    <3>4. QED BY <2>2, <2>8, <3>1, <3>3
  <2>9. QED BY <2>2, <2>3, <2>4, <2>6, <2>7, <2>8 DEF WalkInv
<1>5. u \in Held /\ u.todo = <<>>
  <2>1. first \in Held /\ Held \in SUBSET Walk
    BY <1>4 DEF WalkInv
  <2>2. \A w \in Held : w.todo # <<>> => Look(d, w) \in Held
    BY LookKeeps DEF WalkInv
  <2> HIDE DEF Held, first
  <2>3. QED BY <2>1, <2>2, WalkKeeps DEF u
<1>6. ASSUME ~u.lost, NEW q \in Opened(d, p, u.vec), NEW dep \in Range(Info[q].depends),
             dep.type \notin {"recommend", "suggest"}
      PROVE  Served(d, u.vec, q, dep)
  <2>1. Settled(d, u.vec, u.lost, q, dep)
    BY <1>5, <1>6, EmptyList DEF WalkInv
  <2>2. u.vec \in Seq(Pkg)
    BY <1>5 DEF Walk
  <2>3. q \in Pkg /\ Range(u.vec) \subseteq Pkg
    BY <2>2 DEF Opened, Range
  <2>4. dep \in Dependency
    BY <2>3 DEF Dependency
  <2>5. CASE IsMet(d, dep)
    BY <2>5 DEF IsMet, Served
  <2>6. CASE FirstSatisfier(d, dep) \in {q} \cup Range(u.vec)
    <3>1. FirstSatisfier(d, dep) # None
      BY <2>3, <2>6, PkgAssumption
    <3>2. QED BY <2>4, <2>6, <3>1, FirstSatisfierIs DEF Served
  <2>7. QED BY <1>6, <2>1, <2>5, <2>6 DEF Settled
<1>7. QED BY <1>1, <1>5, <1>6 DEF WalkInv

-----------------------------------------------------------------------------
(* The types of all the variables.                                           *)

(* What a call keeps in its frame: the list it works through is of packages  *)
(* where it takes packages from it, and otherwise of names.                  *)
Ops == {"cmd", "configure", "save", "install", "satisfy", "remove", "data"}
Pcs == {"start", "all", "auto", "backup", "claim", "clashes", "commit", "configure", "dependents", "deps",
        "download", "extract", "fails", "finish", "lists", "loop", "mark", "orphans",
        "owners", "postrm", "preinst", "replace", "replacees", "resolve", "save", "scripts", "space", "unbackup",
        "unpack", "unwind", "write"}
Argument == UNION {Range(c.args) : c \in UNION {Commands[n] : n \in 1 .. MaxCommands}}
Thing == Pkg \cup AltName \cup Argument
Frames == [op : Ops, p : Pkg \cup {None}, pc : Pcs, old : Pkg \cup {None},
           todo : Seq(Thing), left : SUBSET (Pkg \cup File), rep : Seq(Pkg),
           was : {<<>>} \cup ([File -> Content] \X [File -> Content]), err : {-1, 0}]

Listing(fr) ==
  \/ fr.op = "remove" /\ fr.pc = "dependents"
  \/ fr.op = "satisfy" /\ fr.pc \in {"loop", "auto"}
  \/ fr.op = "install" /\ fr.pc \in {"replacees", "unwind"}
  \/ fr.op = "cmd" /\ fr.pc = "all"
  \/ fr.op = "configure"

Typed(fr) ==
  /\ fr.op \in {"data", "remove", "satisfy", "install"} => fr.p \in Pkg
  /\ Listing(fr) => fr.todo \in Seq(Pkg)
  /\ fr.op = "satisfy" /\ fr.pc = "auto" => fr.todo # <<>>
  /\ fr.op \in {"data", "install"} => fr.left \subseteq File
  /\ fr.op = "save" => fr.left \subseteq Pkg
TypedFrames == {fr \in Frames : Typed(fr)}

OpkgTyped ==
  /\ content \in [File -> Content] /\ backup \in [File -> Content]
  /\ list \in [Name -> {None} \cup SUBSET File]
  /\ stat \in [Pkg -> Entry \cup {None}]
  /\ db \in Db
  /\ stack \in Seq(TypedFrames) /\ ret \in {-1, 0}
  /\ faults \in 0..MaxFaults /\ ncommands \in 0..MaxCommands

(* The stack.                                                                *)
LEMMA StackIs ==
  ASSUME stack \in Seq(TypedFrames), stack # <<>>
  PROVE  /\ Top \in TypedFrames /\ Top \in Frames /\ Typed(Top) /\ Tail(stack) \in Seq(TypedFrames)
         /\ \A fr \in TypedFrames : Goto(fr) => stack' \in Seq(TypedFrames)
         /\ \A fr, caller \in TypedFrames : Call(fr, caller) => stack' \in Seq(TypedFrames)
         /\ \A v : Return(v) => stack' \in Seq(TypedFrames) /\ ret' = v
<1>1. Top \in TypedFrames /\ Tail(stack) \in Seq(TypedFrames)
  BY TailIs DEF Top
<1>2. Top \in Frames /\ Typed(Top)
  BY <1>1 DEF TypedFrames
<1>3. ASSUME NEW fr \in TypedFrames, Goto(fr) PROVE stack' \in Seq(TypedFrames)
  <2>1. <<fr>> \in Seq(TypedFrames)
    OBVIOUS
  <2>2. <<fr>> \o Tail(stack) \in Seq(TypedFrames)
    BY <1>1, <2>1, ConcatIs
  <2>3. QED BY <1>3, <2>2 DEF Goto
<1>4. ASSUME NEW fr \in TypedFrames, NEW caller \in TypedFrames, Call(fr, caller)
      PROVE  stack' \in Seq(TypedFrames)
  <2>1. <<fr, caller>> \in Seq(TypedFrames)
    OBVIOUS
  <2>2. <<fr, caller>> \o Tail(stack) \in Seq(TypedFrames)
    BY <1>1, <2>1, ConcatIs
  <2>3. QED BY <1>4, <2>2 DEF Call
<1>5. ASSUME NEW v, Return(v) PROVE stack' \in Seq(TypedFrames) /\ ret' = v
  BY <1>1, <1>5 DEF Return
<1>6. QED BY <1>1, <1>2, <1>3, <1>4, <1>5

(* A new frame, and one of which fields have changed.                        *)
LEMMA FrameIs ==
  ASSUME NEW op \in Ops, NEW p \in Pkg \cup {None}
  PROVE  /\ Frame(op, p) \in Frames /\ Frame(op, p).op = op /\ Frame(op, p).p = p
         /\ Frame(op, p).pc = "start" /\ Frame(op, p).left = {} /\ Frame(op, p).todo = <<>>
<1>1. <<>> \in Seq(Thing) /\ <<>> \in Seq(Pkg)
  OBVIOUS
<1>2. None \in Pkg \cup {None} /\ {} \in SUBSET (Pkg \cup File) /\ 0 \in {-1, 0}
      /\ <<>> \in {<<>>} \cup ([File -> Content] \X [File -> Content]) /\ "start" \in Pcs
  <2>1. "start" \in Pcs
    BY DEF Pcs
  <2>2. None \in Pkg \cup {None} /\ {} \in SUBSET (Pkg \cup File) /\ 0 \in {-1, 0}
    OBVIOUS
  <2>3. <<>> \in {<<>>} \cup ([File -> Content] \X [File -> Content])
    OBVIOUS
  <2>4. QED BY <2>1, <2>2, <2>3
<1>3. Frame(op, p) \in Frames
  <2> DEFINE Was == {<<>>} \cup ([File -> Content] \X [File -> Content])
             Todo == Seq(Thing)
             Rep == Seq(Pkg)
             Errs == {-1, 0}
  <2>1. Frames = [op : Ops, p : Pkg \cup {None}, pc : Pcs, old : Pkg \cup {None}, todo : Todo,
                  left : SUBSET (Pkg \cup File), rep : Rep, was : Was, err : Errs]
    BY DEF Frames
  <2>2. <<>> \in Todo /\ <<>> \in Rep /\ <<>> \in Was /\ 0 \in Errs
    BY <1>1, <1>2
  <2> HIDE DEF Was, Todo, Rep, Errs
  <2>3. QED BY <1>2, <2>1, <2>2 DEF Frame
<1>4. QED BY <1>3 DEF Frame

(* A frame of which a field has changed.                                     *)
LEMMA FrameWith ==
  ASSUME NEW fr \in Frames
  PROVE  /\ \A pc \in Pcs : [fr EXCEPT !.pc = pc] \in Frames
         /\ \A op \in Ops : [fr EXCEPT !.op = op] \in Frames
         /\ \A todo \in Seq(Thing) : [fr EXCEPT !.todo = todo] \in Frames
         /\ \A left \in SUBSET (Pkg \cup File) : [fr EXCEPT !.left = left] \in Frames
         /\ \A rep \in Seq(Pkg) : [fr EXCEPT !.rep = rep] \in Frames
         /\ \A err \in {-1, 0} : [fr EXCEPT !.err = err] \in Frames
         /\ \A old \in Pkg \cup {None} : [fr EXCEPT !.old = old] \in Frames
         /\ \A was \in [File -> Content] \X [File -> Content] : [fr EXCEPT !.was = was] \in Frames
BY DEF Frames

(* A database of which a field has changed.                                  *)
LEMMA DbWith ==
  ASSUME NEW d \in Db
  PROVE  /\ \A x \in [Pkg -> Status] : [d EXCEPT !.status = x] \in Db
         /\ \A x \in [Pkg -> {"unknown", "install", "deinstall"}] : [d EXCEPT !.want = x] \in Db
         /\ \A x \in [Pkg -> SUBSET {"hold", "user", "replace", "changed"}] : [d EXCEPT !.flags = x] \in Db
         /\ \A x \in SUBSET Pkg : [d EXCEPT !.auto = x] \in Db /\ [d EXCEPT !.fetched = x] \in Db
         /\ \A x \in [Name -> Status] : [d EXCEPT !.abs = x] \in Db
         /\ \A x \in [Name -> 0..2] : [d EXCEPT !.checked = x] \in Db
         /\ \A x \in [File -> Pkg \cup {None}] : [d EXCEPT !.owner = x] \in Db
         /\ \A x \in SUBSET File : [d EXCEPT !.obs = x] \in Db
         /\ \A x \in [Pkg -> {"none", "missing", "bad", "whole"}] : [d EXCEPT !.archive = x] \in Db
BY DEF Db

(* What the lookups return, and what the changes of the database make.       *)
LEMMA InstalledIs ==
  ASSUME NEW d, d.known \in SUBSET Pkg
  PROVE  /\ \A S \in SUBSET Pkg : InstalledIn(d, S) \in S \cup {None}
         /\ \A n : InstalledByName(d, n) \in d.known \cup {None}
         /\ \A n : BestByName(d, n) \in d.known \cup {None}
<1>1. ASSUME NEW S \in SUBSET Pkg PROVE InstalledIn(d, S) \in S \cup {None}
  <2> DEFINE R == {p \in S : d.status[p] \in Present}
  <2>1. R \in SUBSET Pkg /\ R \subseteq S
    OBVIOUS
  <2>2. Earliest(R) \in R \cup {None}
    <3> HIDE DEF R
    <3>1. QED BY <2>1, EarliestIs
  <2>3. QED BY <2>1, <2>2 DEF InstalledIn
<1>2. ASSUME NEW n PROVE InstalledByName(d, n) \in d.known \cup {None}
  <2>1. \A m : Records(d, m) \in SUBSET Pkg /\ Records(d, m) \subseteq d.known
    BY DEF Records
  <2>2. \A m : InstalledIn(d, Records(d, m)) \in Records(d, m) \cup {None}
    BY <1>1, <2>1
  <2>3. QED BY <2>1, <2>2 DEF InstalledByName
<1>3. ASSUME NEW n PROVE BestByName(d, n) \in d.known \cup {None}
  BY BestIs DEF BestByName
<1>4. QED BY <1>1, <1>2, <1>3

(* A new status.                                                             *)
LEMMA SetStatusIs ==
  ASSUME NEW d \in Db, NEW p \in Pkg, NEW s \in Status
  PROVE  SetStatus(d, p, s) \in Db
<1>1. [d.status EXCEPT ![p] = s] \in [Pkg -> Status]
  BY DEF Db
<1>2. [d.abs EXCEPT ![NameOf(p)] = s] \in [Name -> Status]
  BY DEF Db
<1> DEFINE e == [d EXCEPT !.status = [d.status EXCEPT ![p] = s]]
<1>3. e \in Db
  BY <1>1, DbWith
<1>4. e.abs = d.abs
  BY DEF Db
<1>5. SetStatus(d, p, s) = [e EXCEPT !.abs = [d.abs EXCEPT ![NameOf(p)] = s]]
  BY <1>4 DEF SetStatus
<1> HIDE DEF e
<1>6. QED BY <1>2, <1>3, <1>5, DbWith

(* New flags, and a new wanted state.                                        *)
LEMMA FlagsIs ==
  ASSUME NEW d \in Db, NEW p
  PROVE  /\ \A F \in SUBSET {"hold", "user", "replace", "changed"} : [d EXCEPT !.flags[p] = F] \in Db
         /\ \A w \in {"unknown", "install", "deinstall"} : [d EXCEPT !.want[p] = w] \in Db
         /\ p \in Pkg => d.flags[p] \in SUBSET {"hold", "user", "replace", "changed"}
<1> DEFINE Flags == SUBSET {"hold", "user", "replace", "changed"}
           Want == {"unknown", "install", "deinstall"}
<1>1. d.flags \in [Pkg -> Flags] /\ d.want \in [Pkg -> Want]
  BY DEF Db
<1> HIDE DEF Flags, Want
<1>2. \A F \in Flags : [d.flags EXCEPT ![p] = F] \in [Pkg -> Flags]
  BY <1>1
<1>3. \A w \in Want : [d.want EXCEPT ![p] = w] \in [Pkg -> Want]
  BY <1>1
<1>4. \A F \in Flags : [d EXCEPT !.flags = [d.flags EXCEPT ![p] = F]] \in Db
  BY <1>2, DbWith DEF Flags
<1>5. \A w \in Want : [d EXCEPT !.want = [d.want EXCEPT ![p] = w]] \in Db
  BY <1>3, DbWith DEF Want
<1>6. QED BY <1>1, <1>4, <1>5 DEF Flags, Want

(* New owners of files.                                                      *)
LEMMA SetOwnersIs ==
  ASSUME NEW d \in Db, NEW S, NEW p \in Pkg
  PROVE  SetOwners(d, S, p) \in Db
<1> DEFINE Flags == SUBSET {"hold", "user", "replace", "changed"}
           owned == {f \in S : d.owner[f] # None}
           marked == IF owned = {} THEN {} ELSE {p} \cup {d.owner[f] : f \in owned}
           owner == [f \in File |-> IF f \in S THEN p ELSE d.owner[f]]
           e == [d EXCEPT !.owner = owner]
<1>1. d.flags \in [Pkg -> Flags] /\ d.owner \in [File -> Pkg \cup {None}]
  BY DEF Db
<1>2. owner \in [File -> Pkg \cup {None}]
  BY <1>1
<1> HIDE DEF owner, marked
<1>3. e \in Db /\ e.flags = d.flags
  BY <1>2, DbWith DEF Db
<1>4. Mark(d.flags, marked) \in [Pkg -> Flags]
  BY <1>1 DEF Mark
<1>5. SetOwners(d, S, p) = [e EXCEPT !.flags = Mark(d.flags, marked)]
  BY <1>3 DEF SetOwners, owner, marked
<1> HIDE DEF e
<1>6. QED BY <1>3, <1>4, <1>5, DbWith

(* What a file list has.                                                     *)
LEMMA ListedIs ==
  ASSUME NEW l \in [Name -> {None} \cup SUBSET File], NEW p \in Pkg
  PROVE  Listed(l, p) \in SUBSET File
<1>1. NameOf(p) \in Name
  BY InfoAssumption DEF NameOf
<1>2. QED BY <1>1 DEF Listed

(* The files an upgrade takes.                                               *)
LEMMA UpdateOwnershipIs ==
  ASSUME NEW d \in Db, NEW files, NEW p \in Pkg, NEW old \in Pkg \cup {None},
         list \in [Name -> {None} \cup SUBSET File]
  PROVE  UpdateOwnership(d, files, p, old) \in Db
<1> DEFINE taken == {f \in files : d.owner[f] \in {None, old} \/ f \in d.obs}
           e == SetOwners(d, taken, p)
           obs == e.obs \cup {f \in Listed(list, old) : e.owner[f] \in {None, old}}
<1>1. e \in Db
  BY SetOwnersIs
<1> HIDE DEF taken, e
<1>2. old # None => obs \in SUBSET File
  BY <1>1, ListedIs DEF Db
<1>3. UpdateOwnership(d, files, p, old) = IF old = None THEN e ELSE [e EXCEPT !.obs = obs]
  BY DEF UpdateOwnership, taken, e
<1> HIDE DEF obs
<1>4. QED BY <1>1, <1>2, <1>3, DbWith

(* What is printed of a package is an entry of the status file.              *)
LEMMA PrintedIs ==
  ASSUME NEW d \in Db, NEW p \in Pkg
  PROVE  Printed(d, p) \in Entry \cup {None}
<1>1. /\ d.status[p] \in Status /\ d.want[p] \in {"unknown", "install", "deinstall"}
      /\ (p \in d.auto) \in BOOLEAN
      /\ FlagToStr(d.flags[p]) \in SUBSET {"hold", "user"}
  BY DEF Db, FlagToStr
<1>2. QED BY <1>1 DEF Printed, Entry

(* A process that starts reads a database from the feeds and the status      *)
(* file.                                                                     *)
LEMMA LoadIs ==
  ASSUME NEW feed \in SUBSET Pkg, NEW st \in [Pkg -> Entry \cup {None}]
  PROVE  Load(feed, st) \in Db
<1> DEFINE recorded == InStatus(st)
           Of(p, fld, default) == InsertMerge(st, p, fld, default)
           status == [p \in Pkg |-> Of(p, "status", "not_installed")]
           want == [p \in Pkg |-> Of(p, "want", "unknown")]
           flags == [p \in Pkg |-> Of(p, "flags", {})]
           copies == [p \in Pkg |-> Cardinality({i \in 1..2 : p \in <<feed, recorded>>[i]})]
           abs == [n \in Name |-> LET S == {status[p] : p \in {q \in recorded : NameOf(q) = n}}
                                  IN  IF "installed" \in S THEN "installed"
                                      ELSE IF "unpacked" \in S THEN "unpacked" ELSE "not_installed"]
<1>1. recorded \in SUBSET Pkg /\ \A p \in recorded : st[p] \in Entry
  BY DEF InStatus
<1>2. status \in [Pkg -> Status]
  <2>1. \A p \in Pkg : Of(p, "status", "not_installed") \in Status
    BY <1>1 DEF InsertMerge, Entry, Status
  <2>2. QED BY <2>1
<1>3. want \in [Pkg -> {"unknown", "install", "deinstall"}]
  <2>1. \A p \in Pkg : Of(p, "want", "unknown") \in {"unknown", "install", "deinstall"}
    BY <1>1 DEF InsertMerge, Entry
  <2>2. QED BY <2>1
<1>4. flags \in [Pkg -> SUBSET {"hold", "user", "replace", "changed"}]
  <2>1. \A p \in Pkg : Of(p, "flags", {}) \in SUBSET {"hold", "user"}
    BY <1>1 DEF InsertMerge, Entry
  <2>2. \A S \in SUBSET {"hold", "user"} : S \in SUBSET {"hold", "user", "replace", "changed"}
    OBVIOUS
  <2>3. QED BY <2>1, <2>2
<1>5. copies \in [Pkg -> 0..2]
  <2>1. \A S \in SUBSET (1..2) : Cardinality(S) \in 0..2
    <3>1. SUFFICES ASSUME NEW S \in SUBSET (1..2) PROVE Cardinality(S) \in 0..2
      OBVIOUS
    <3>2. IsFiniteSet(1..2) /\ Cardinality(1..2) = 2
      <4>1. 1 \in Int /\ 2 \in Int
        OBVIOUS
      <4>2. IsFiniteSet(1..2) /\ Cardinality(1..2) = IF 1 > 2 THEN 0 ELSE 2 - 1 + 1
        BY <4>1, FS_Interval
      <4>3. QED BY <4>2
    <3>3. IsFiniteSet(S) /\ Cardinality(S) <= 2
      BY <3>2, FS_Subset
    <3>4. Cardinality(S) \in Nat
      BY <3>3, FS_CardinalityType
    <3>5. QED BY <3>3, <3>4
  <2>2. \A p \in Pkg : {i \in 1..2 : p \in <<feed, recorded>>[i]} \in SUBSET (1..2)
    OBVIOUS
  <2>3. QED BY <2>1, <2>2
<1>6. abs \in [Name -> Status]
  <2> HIDE DEF status
  <2>1. QED BY DEF Status
<1>7. feed \cup recorded \in SUBSET Pkg /\ {p \in recorded : st[p].auto} \in SUBSET Pkg
  BY <1>1
<1>8. /\ [n \in Name |-> 0] \in [Name -> 0..2]
      /\ [f \in File |-> None] \in [File -> Pkg \cup {None}]
      /\ [p \in Pkg |-> "none"] \in [Pkg -> {"none", "missing", "bad", "whole"}]
  OBVIOUS
<1>9. Load(feed, st) =
        [known |-> feed \cup recorded, copies |-> copies, status |-> status, want |-> want,
         flags |-> flags, auto |-> {p \in recorded : st[p].auto}, abs |-> abs,
         checked |-> [n \in Name |-> 0], owner |-> [f \in File |-> None], obs |-> {},
         archive |-> [p \in Pkg |-> "none"], fetched |-> {}]
  BY DEF Load
<1> HIDE DEF recorded, Of, status, want, flags, copies, abs
<1>10. QED BY <1>2, <1>3, <1>4, <1>5, <1>6, <1>7, <1>8, <1>9 DEF Db

(* The owners of the files of installed packages.                            *)
LEMMA PreinstallIs ==
  ASSUME NEW d \in Db, NEW lists
  PROVE  Preinstall(d, lists) \in Db
<1> DEFINE Claims(f) == {p \in AllInstalled(d) : f \in Listed(lists, p)}
           shared == {f \in File : Cardinality(Claims(f)) > 1}
           owner == [f \in File |-> IF Claims(f) = {} THEN None ELSE CHOOSE p \in Claims(f) : TRUE]
           marked == UNION {Claims(f) : f \in shared}
           e == [d EXCEPT !.owner = owner]
           Flags == SUBSET {"hold", "user", "replace", "changed"}
<1>1. \A f : Claims(f) \subseteq Pkg
  BY DEF AllInstalled, Db
<1>2. owner \in [File -> Pkg \cup {None}]
  <2> HIDE DEF Claims
  <2>1. QED BY <1>1
<1>3. d.flags \in [Pkg -> Flags]
  BY DEF Db
<1>4. Mark(d.flags, marked) \in [Pkg -> Flags]
  <2> HIDE DEF marked
  <2>1. QED BY <1>3 DEF Mark
<1> HIDE DEF owner
<1>5. e \in Db /\ e.flags = d.flags
  BY <1>2, DbWith DEF Db
<1>6. Preinstall(d, lists) = [e EXCEPT !.flags = Mark(d.flags, marked)]
  BY <1>5 DEF Preinstall, owner
<1> HIDE DEF e, marked
<1>7. QED BY <1>4, <1>5, <1>6, DbWith

-----------------------------------------------------------------------------
(* Removing keeps the types.                                                 *)
LEMMA TypedParts ==
  ASSUME OpkgTyped
  PROVE  /\ content \in [File -> Content] /\ backup \in [File -> Content]
         /\ list \in [Name -> {None} \cup SUBSET File] /\ stat \in [Pkg -> Entry \cup {None}]
         /\ db \in Db /\ db.known \in SUBSET Pkg
         /\ stack \in Seq(TypedFrames) /\ ret \in {-1, 0}
         /\ faults \in 0..MaxFaults /\ ncommands \in 0..MaxCommands
BY DEF OpkgTyped, Db

(* A step that has faults within the bound.                                  *)
LEMMA FaultIs ==
  ASSUME OpkgTyped, NEW fails, Fault(fails)
  PROVE  faults' \in 0..MaxFaults
BY FaultsAssumption DEF OpkgTyped, Fault

(* A step that lists an archive has faults within the bound.                 *)
LEMMA FilesInIs ==
  ASSUME OpkgTyped, NEW p, NEW seen, FilesIn(p, seen)
  PROVE  faults' \in 0..MaxFaults
BY FaultIs DEF FilesIn

(* A step that runs a script has faults within the bound.                    *)
LEMMA ScriptIs ==
  ASSUME OpkgTyped, NEW p, NEW fails, Script(p, fails)
  PROVE  faults' \in 0..MaxFaults
BY FaultIs DEF OpkgTyped, Script

(* Removing the files of a package.                                          *)
LEMMA DataTyped ==
  ASSUME OpkgTyped, DataStart \/ DataFile \/ DataEnd, UNCHANGED ncommands
  PROVE  OpkgTyped'
<1>1. stack # <<>> /\ Top.op = "data"
  BY DEF DataStart, DataFile, DataEnd, At
<1>2. Top \in Frames /\ Top.p \in Pkg /\ Top.left \subseteq File /\ Typed(Top)
  BY <1>1, StackIs, TypedParts DEF Typed
<1>3. CASE DataStart
  <2> DEFINE left == {f \in Listed(list, Top.p) : db.owner[f] = Top.p}
             fr == [Top EXCEPT !.pc = "loop", !.left = left]
  <2>1. left \in SUBSET File
    BY <1>2, ListedIs, TypedParts
  <2> HIDE DEF left
  <2>2. fr \in Frames /\ fr.op = "data" /\ fr.p = Top.p /\ fr.left = left
    BY <1>1, <1>2, <2>1 DEF Frames, Pcs
  <2>3. fr \in TypedFrames
    <3> HIDE DEF fr
    <3>1. QED BY <1>2, <2>1, <2>2 DEF TypedFrames, Typed, Listing
  <2>4. stack' \in Seq(TypedFrames)
    BY <1>1, <1>3, <2>3, StackIs, TypedParts DEF DataStart, left
  <2>5. QED BY <1>3, <2>4 DEF OpkgTyped, DataStart, disk
<1>4. CASE DataFile
  <2>1. PICK f \in Top.left :
          /\ Goto([Top EXCEPT !.left = @ \ {f}])
          /\ IF Keeps(Top.p, f) THEN UNCHANGED <<content, db>>
             ELSE /\ content' = [content EXCEPT ![f] = None]
                  /\ db' = [db EXCEPT !.owner[f] = None]
    BY <1>4 DEF DataFile
  <2> DEFINE fr == [Top EXCEPT !.left = @ \ {f}]
  <2>2. fr \in Frames /\ fr.op = "data" /\ fr.p = Top.p /\ fr.left \subseteq File
    BY <1>1, <1>2 DEF Frames
  <2>3. fr \in TypedFrames
    <3> HIDE DEF fr
    <3>1. QED BY <1>2, <2>2 DEF TypedFrames, Typed, Listing
  <2>4. stack' \in Seq(TypedFrames)
    BY <1>1, <2>1, <2>3, StackIs, TypedParts
  <2>5. content' \in [File -> Content]
    BY <2>1, TypedParts DEF Content
  <2>6. db' \in Db
    <3>1. [db.owner EXCEPT ![f] = None] \in [File -> Pkg \cup {None}]
      BY TypedParts DEF Db
    <3>2. [db EXCEPT !.owner = [db.owner EXCEPT ![f] = None]] \in Db
      BY <3>1, DbWith, TypedParts
    <3>3. QED BY <2>1, <3>2, TypedParts
  <2>7. QED BY <1>4, <2>4, <2>5, <2>6 DEF OpkgTyped, DataFile
<1>5. CASE DataEnd
  <2>1. stack' \in Seq(TypedFrames) /\ ret' = 0
    BY <1>1, <1>5, StackIs, TypedParts DEF DataEnd
  <2>2. list' \in [Name -> {None} \cup SUBSET File]
    BY <1>5, TypedParts DEF DataEnd
  <2>3. QED BY <1>5, <2>1, <2>2 DEF OpkgTyped, DataEnd
<1>6. QED BY <1>3, <1>4, <1>5

(* The packages of a list are among the things of a list.                    *)
LEMMA ThingsIs ==
  /\ Seq(Pkg) \subseteq Seq(Thing) /\ Seq(AltName) \subseteq Seq(Thing)
  /\ <<>> \in Seq(Pkg) /\ <<>> \in Seq(Thing)
  /\ \A S \in SUBSET Pkg : Seq(S) \subseteq Seq(Pkg)
  /\ \A s \in Seq(Pkg) : s # <<>> => Head(s) \in Pkg /\ Tail(s) \in Seq(Pkg)
  /\ \A s \in Seq(Thing) : s # <<>> => Tail(s) \in Seq(Thing)
<1>1. Pkg \subseteq Thing /\ AltName \subseteq Thing
  BY DEF Thing
<1> HIDE DEF Thing
<1>2. \A S, T : S \subseteq T => Seq(S) \subseteq Seq(T)
  OBVIOUS
<1>3. Seq(Pkg) \subseteq Seq(Thing) /\ Seq(AltName) \subseteq Seq(Thing)
  BY <1>1, <1>2
<1>4. QED BY <1>2, <1>3, TailIs

(* When a frame of each call is well typed.                                  *)
LEMMA FrameTyped ==
  ASSUME NEW fr \in Frames
  PROVE  /\ fr.op = "remove" /\ fr.p \in Pkg /\ (fr.pc = "dependents" => fr.todo \in Seq(Pkg))
              => fr \in TypedFrames
         /\ fr.op = "satisfy" /\ fr.p \in Pkg
            /\ (fr.pc \in {"loop", "auto"} => fr.todo \in Seq(Pkg))
            /\ (fr.pc = "auto" => fr.todo # <<>>) => fr \in TypedFrames
         /\ fr.op = "install" /\ fr.p \in Pkg /\ fr.left \subseteq File
            /\ (fr.pc \in {"replacees", "unwind"} => fr.todo \in Seq(Pkg)) => fr \in TypedFrames
         /\ fr.op = "cmd" /\ (fr.pc = "all" => fr.todo \in Seq(Pkg)) => fr \in TypedFrames
         /\ fr.op = "configure" /\ fr.todo \in Seq(Pkg) => fr \in TypedFrames
         /\ fr.op = "save" /\ fr.left \subseteq Pkg => fr \in TypedFrames
BY DEF TypedFrames, Typed, Listing

(* A new call is well typed.                                                 *)
LEMMA NewFrame ==
  /\ \A p \in Pkg : \A op \in {"data", "remove", "satisfy", "install"} : Frame(op, p) \in TypedFrames
  /\ Frame("save", None) \in TypedFrames /\ Frame("cmd", None) \in TypedFrames
<1>1. ASSUME NEW p \in Pkg, NEW op \in {"data", "remove", "satisfy", "install"}
      PROVE  Frame(op, p) \in TypedFrames
  <2>1. op \in Ops
    BY DEF Ops
  <2> DEFINE fr == Frame(op, p)
  <2>2. /\ fr \in Frames /\ fr.op = op /\ fr.p = p /\ fr.pc = "start" /\ fr.left = {} /\ fr.todo = <<>>
    BY <2>1, FrameIs
  <2> HIDE DEF fr
  <2>3. fr \in TypedFrames
    BY <2>2, ThingsIs DEF TypedFrames, Typed, Listing
  <2>4. QED BY <2>3 DEF fr
<1>2. ASSUME NEW op \in {"save", "cmd"} PROVE Frame(op, None) \in TypedFrames
  <2>1. op \in Ops
    BY DEF Ops
  <2> DEFINE fr == Frame(op, None)
  <2>2. /\ fr \in Frames /\ fr.op = op /\ fr.p = None /\ fr.pc = "start" /\ fr.left = {} /\ fr.todo = <<>>
    BY <2>1, FrameIs
  <2> HIDE DEF fr
  <2>3. fr \in TypedFrames
    BY <2>2, FrameTyped
  <2>4. QED BY <2>3 DEF fr
<1>3. QED BY <1>1, <1>2

(* The step of a call to a place where its list may be of anything.          *)
Elsewhere(op) ==
  IF op = "remove" THEN Pcs \ {"dependents"}
  ELSE IF op = "satisfy" THEN Pcs \ {"loop", "auto"}
  ELSE IF op = "install" THEN Pcs \ {"replacees", "unwind"}
  ELSE IF op = "cmd" THEN Pcs \ {"all"} ELSE Pcs

(* Such a step keeps the frame well typed.                                   *)
LEMMA GoIs ==
  ASSUME NEW fr \in TypedFrames, NEW pc \in Elsewhere(fr.op)
  PROVE  [fr EXCEPT !.pc = pc] \in TypedFrames
<1> DEFINE new == [fr EXCEPT !.pc = pc]
<1>1. fr \in Frames /\ Typed(fr) /\ pc \in Pcs
  BY DEF TypedFrames, Elsewhere
<1>2. new \in Frames
  BY <1>1, FrameWith
<1>3. /\ new.op = fr.op /\ new.p = fr.p /\ new.pc = pc /\ new.left = fr.left /\ new.todo = fr.todo
  BY <1>1 DEF Frames
<1> HIDE DEF new
<1>4. new \in TypedFrames
  BY <1>1, <1>2, <1>3 DEF TypedFrames, Typed, Listing, Elsewhere
<1>5. QED BY <1>4 DEF new

(* What a step of a call needs to know of the frame on top.                  *)
LEMMA TopIs ==
  ASSUME OpkgTyped, stack # <<>>
  PROVE  /\ Top \in Frames /\ Top \in TypedFrames /\ Typed(Top)
         /\ Top.todo \in Seq(Thing) /\ Top.rep \in Seq(Pkg) /\ Top.err \in {-1, 0}
         /\ Top.p \in Pkg \cup {None} /\ Top.old \in Pkg \cup {None}
         /\ Top.op \in {"remove", "satisfy", "install", "data"} => Top.p \in Pkg
         /\ Top.op = "install" => Top.left \subseteq File
<1>1. Top \in Frames /\ Top \in TypedFrames /\ Typed(Top)
  BY StackIs, TypedParts
<1>2. QED BY <1>1 DEF Frames, Typed

-----------------------------------------------------------------------------
(* A removal that starts, alone or with what depends on the package.         *)
LEMMA RemoveStartTyped ==
  ASSUME OpkgTyped, RemoveStart, UNCHANGED ncommands
  PROVE  OpkgTyped'
<1>1. stack # <<>> /\ Top.op = "remove"
  BY DEF RemoveStart, At
<1>2. Top \in Frames /\ Top.p \in Pkg /\ Top \in TypedFrames
  BY <1>1, TopIs
<1>3. CASE HasDependents(Top.p) /\ db.checked[NameOf(Top.p)] # 2
  <2> DEFINE d == [db EXCEPT !.checked[NameOf(Top.p)] = 2]
             todo == {q \in d.known : /\ NameOf(q) \in Dependents(db, Top.p)
                                      /\ d.checked[NameOf(q)] # 2
                                      /\ d.status[q] = "installed"}
             fr == [Top EXCEPT !.pc = "dependents", !.todo = Sorted(todo)]
  <2>1. d \in Db /\ d.known \in SUBSET Pkg
    <3>1. [db.checked EXCEPT ![NameOf(Top.p)] = 2] \in [Name -> 0..2]
      <4>1. db.checked \in [Name -> 0..2]
        BY TypedParts DEF Db
      <4>2. 2 \in 0..2
        OBVIOUS
      <4>3. QED BY <4>1, <4>2
    <3>2. d \in Db
      BY <3>1, DbWith, TypedParts
    <3>3. QED BY <3>2 DEF Db
  <2> HIDE DEF d
  <2>2. todo \in SUBSET Pkg
    BY <2>1
  <2>3. Sorted(todo) \in Seq(Pkg)
    <3> HIDE DEF todo
    <3>1. QED BY <2>2, SortedIs
  <2>4. db' = d /\ Goto(fr) /\ ret' = 0 /\ UNCHANGED <<disk, run, faults, hist>>
    BY <1>3 DEF RemoveStart, d
  <2> HIDE DEF todo
  <2>5. fr \in Frames /\ fr.op = "remove" /\ fr.p = Top.p /\ fr.todo = Sorted(todo)
    BY <1>1, <1>2, <2>3, ThingsIs DEF Frames, Pcs
  <2> HIDE DEF fr
  <2>6. fr \in TypedFrames
    BY <1>2, <2>3, <2>5, FrameTyped
  <2>7. stack' \in Seq(TypedFrames)
    BY <1>1, <2>4, <2>6, StackIs, TypedParts
  <2>8. QED BY <2>1, <2>4, <2>7 DEF OpkgTyped, disk
<1>4. CASE ~(HasDependents(Top.p) /\ db.checked[NameOf(Top.p)] # 2)
  <2>1. Go("mark") /\ ret' = 0 /\ UNCHANGED <<disk, db, run, faults, hist>>
    BY <1>4 DEF RemoveStart
  <2>2. [Top EXCEPT !.pc = "mark"] \in TypedFrames
    BY <1>1, <1>2, GoIs DEF Elsewhere, Pcs
  <2>3. stack' \in Seq(TypedFrames)
    BY <1>1, <2>1, <2>2, StackIs, TypedParts DEF Go
  <2>4. QED BY <2>1, <2>3 DEF OpkgTyped, disk
<1>5. QED BY <1>3, <1>4

(* A removal refused, and one that removes the dependents.                   *)
LEMMA RemoveDependentsTyped ==
  ASSUME OpkgTyped, RemoveRefused \/ RemoveDependents, UNCHANGED ncommands
  PROVE  OpkgTyped'
<1>1. stack # <<>> /\ Top.op = "remove" /\ UNCHANGED <<disk, db, run, faults, hist>>
  BY DEF RemoveRefused, RemoveDependents, At
<1>2. Top \in Frames /\ Top.p \in Pkg /\ Top \in TypedFrames /\ Typed(Top)
  BY <1>1, TopIs
<1>3. CASE RemoveRefused
  <2>1. stack' \in Seq(TypedFrames) /\ ret' \in {-1, 0}
    BY <1>1, <1>3, StackIs, TypedParts DEF RemoveRefused
  <2>2. QED BY <1>1, <2>1 DEF OpkgTyped, disk
<1>4. CASE RemoveDependents
  <2>1. Top.pc = "dependents" /\ Top.todo \in Seq(Pkg)
    BY <1>1, <1>2, <1>4 DEF RemoveDependents, At, Typed, Listing
  <2> DEFINE fr == [Top EXCEPT !.todo = Tail(@)]
  <2>2. Top.todo # <<>> => fr \in TypedFrames /\ Frame("remove", Head(Top.todo)) \in TypedFrames
    <3>1. SUFFICES ASSUME Top.todo # <<>> PROVE fr \in TypedFrames /\ Head(Top.todo) \in Pkg
      BY NewFrame
    <3>2. Head(Top.todo) \in Pkg /\ Tail(Top.todo) \in Seq(Pkg) /\ Tail(Top.todo) \in Seq(Thing)
      BY <2>1, <3>1, ThingsIs
    <3>3. fr \in Frames /\ fr.op = "remove" /\ fr.p = Top.p /\ fr.todo = Tail(Top.todo)
      BY <1>1, <1>2, <3>2 DEF Frames
    <3> HIDE DEF fr
    <3>4. QED BY <1>2, <3>2, <3>3, FrameTyped
  <2>3. [Top EXCEPT !.pc = "mark"] \in TypedFrames
    BY <1>1, <1>2, GoIs DEF Elsewhere, Pcs
  <2>4. \/ Return(ret)
        \/ Go("mark") /\ UNCHANGED ret
        \/ Top.todo # <<>> /\ Call(Frame("remove", Head(Top.todo)), fr) /\ UNCHANGED ret
    BY <1>4 DEF RemoveDependents
  <2> HIDE DEF fr
  <2>5. stack' \in Seq(TypedFrames) /\ ret' \in {-1, 0}
    BY <1>1, <2>2, <2>3, <2>4, StackIs, TypedParts DEF Go
  <2>6. QED BY <1>1, <2>5 DEF OpkgTyped, disk
<1>5. QED BY <1>3, <1>4

(* A removal that goes on to the files.                                      *)
LEMMA RemoveMarkTyped ==
  ASSUME OpkgTyped, RemoveMark, UNCHANGED ncommands
  PROVE  OpkgTyped'
<1>1. stack # <<>> /\ Top.op = "remove" /\ Top \in TypedFrames /\ Top.p \in Pkg
  BY TopIs DEF RemoveMark, At
<1> DEFINE F == db.flags[Top.p] \cup {"changed"}
           e == [db EXCEPT !.flags[Top.p] = F]
<1>2. F \in SUBSET {"hold", "user", "replace", "changed"}
  BY <1>1, FlagsIs, TypedParts
<1> HIDE DEF F
<1>3. e \in Db
  BY <1>2, FlagsIs, TypedParts
<1>4. db' = [e EXCEPT !.want[Top.p] = "deinstall"]
  BY TypedParts DEF RemoveMark, F, Db
<1> HIDE DEF e
<1>5. db' \in Db
  BY <1>3, <1>4, FlagsIs
<1>6. PICK fails \in BOOLEAN :
        /\ Script(Top.p, fails)
        /\ \/ Return(-1)
           \/ Call(Frame("data", Top.p), [Top EXCEPT !.pc = "postrm"]) /\ UNCHANGED ret
  BY DEF RemoveMark
<1>7. faults' \in 0..MaxFaults
  BY <1>6, ScriptIs
<1>8. Frame("data", Top.p) \in TypedFrames /\ [Top EXCEPT !.pc = "postrm"] \in TypedFrames
  BY <1>1, GoIs, NewFrame DEF Elsewhere, Pcs
<1>9. stack' \in Seq(TypedFrames) /\ ret' \in {-1, 0}
  BY <1>1, <1>6, <1>8, StackIs, TypedParts
<1>10. QED BY <1>5, <1>7, <1>9 DEF OpkgTyped, RemoveMark, disk

(* A removal whose files are gone.                                           *)
LEMMA RemovePostrmTyped ==
  ASSUME OpkgTyped, RemovePostrm, UNCHANGED ncommands
  PROVE  OpkgTyped'
<1>1. stack # <<>> /\ Top.op = "remove" /\ Top \in Frames /\ Top.p \in Pkg
  BY TopIs DEF RemovePostrm, At
<1>2. db' \in Db
  <2>1. "not_installed" \in Status
    BY DEF Status
  <2>2. QED BY <1>1, <2>1, SetStatusIs, TypedParts DEF RemovePostrm
<1>3. PICK fails \in BOOLEAN :
        /\ Script(Top.p, fails)
        /\ Goto([Top EXCEPT !.pc = "auto", !.err = IF fails THEN -1 ELSE 0,
                   !.todo = IF Option("autoremove") THEN Needs[Top.p] ELSE <<>>])
  BY DEF RemovePostrm
<1>4. faults' \in 0..MaxFaults
  BY <1>3, ScriptIs
<1> DEFINE todo == IF Option("autoremove") THEN Needs[Top.p] ELSE <<>>
           err == IF fails THEN -1 ELSE 0
           fr == [Top EXCEPT !.pc = "auto", !.err = err, !.todo = todo]
<1>5. todo \in Seq(Thing) /\ err \in {-1, 0}
  BY <1>1, NamesOf, ThingsIs
<1>6. Goto(fr)
  BY <1>3
<1> HIDE DEF todo, err
<1>7. fr \in Frames /\ fr.op = "remove" /\ fr.p = Top.p /\ fr.pc = "auto"
  BY <1>1, <1>5 DEF Frames, Pcs
<1> HIDE DEF fr
<1>8. fr \in TypedFrames
  BY <1>1, <1>7, FrameTyped
<1>9. stack' \in Seq(TypedFrames)
  BY <1>1, <1>6, <1>8, StackIs, TypedParts
<1>10. QED BY <1>2, <1>4, <1>9 DEF OpkgTyped, RemovePostrm, disk

(* A removal that goes on to what nobody needs any more.                     *)
LEMMA RemoveAutoTyped ==
  ASSUME OpkgTyped, RemoveAuto, UNCHANGED ncommands
  PROVE  OpkgTyped'
<1>1. /\ stack # <<>> /\ Top.op = "remove" /\ Top \in Frames /\ Top.p \in Pkg
      /\ Top.todo \in Seq(Thing) /\ Top.err \in {-1, 0} /\ Top.pc = "auto"
  BY TopIs DEF RemoveAuto, At
<1> DEFINE err == IF ret # 0 THEN -1 ELSE Top.err
           next == [Top EXCEPT !.todo = Tail(@), !.err = err]
<1>2. err \in {-1, 0}
  BY <1>1
<1> HIDE DEF err
<1>3. Top.todo # <<>> => next \in TypedFrames
  <2>1. SUFFICES ASSUME Top.todo # <<>> PROVE next \in TypedFrames
    OBVIOUS
  <2>2. Tail(Top.todo) \in Seq(Thing)
    BY <1>1, <2>1, ThingsIs
  <2>3. next \in Frames /\ next.op = "remove" /\ next.p = Top.p /\ next.pc = "auto"
    BY <1>1, <1>2, <2>2 DEF Frames
  <2> HIDE DEF next
  <2>4. QED BY <1>1, <2>3, FrameTyped
<1>4. \/ Return(err)
      \/ Return(-1)
      \/ /\ Top.todo # <<>> /\ ret' = 0
         /\ \/ Goto(next)
            \/ \E q \in Pkg : Call(Frame("remove", q), next)
  <2>1. \A n : InstalledByName(db, n) \in Pkg \cup {None}
    BY InstalledIs, TypedParts
  <2>2. QED BY <2>1 DEF RemoveAuto, err
<1> HIDE DEF next
<1>5. stack' \in Seq(TypedFrames) /\ ret' \in {-1, 0}
  BY <1>1, <1>2, <1>3, <1>4, NewFrame, StackIs, TypedParts
<1>6. QED BY <1>5 DEF OpkgTyped, RemoveAuto, disk

(* The wanted states of two sets of packages change.                         *)
LEMMA WantedIs ==
  ASSUME NEW d \in Db, NEW S, NEW T
  PROVE  /\ [d EXCEPT !.want = [p \in Pkg |-> IF p \in S THEN "install" ELSE d.want[p]]] \in Db
         /\ [d EXCEPT !.want = [p \in Pkg |-> IF p \in S THEN "install"
                                ELSE IF p \in T THEN "deinstall" ELSE d.want[p]]] \in Db
<1>1. d.want \in [Pkg -> {"unknown", "install", "deinstall"}]
  BY DEF Db
<1>2. /\ [p \in Pkg |-> IF p \in S THEN "install" ELSE d.want[p]]
           \in [Pkg -> {"unknown", "install", "deinstall"}]
      /\ [p \in Pkg |-> IF p \in S THEN "install" ELSE IF p \in T THEN "deinstall" ELSE d.want[p]]
           \in [Pkg -> {"unknown", "install", "deinstall"}]
  BY <1>1
<1>3. QED BY <1>2, DbWith

-----------------------------------------------------------------------------
(* Satisfying the dependencies keeps the types.                              *)
LEMMA SatisfyStartTyped ==
  ASSUME OpkgTyped, SatisfyStart, UNCHANGED ncommands
  PROVE  OpkgTyped'
<1>1. stack # <<>> /\ Top.op = "satisfy" /\ Top \in Frames /\ Top.p \in Pkg
  BY TopIs DEF SatisfyStart, At
<1> DEFINE r == Unsatisfied(db, Top.p)
           d == [db EXCEPT !.checked = r.checked]
           fr == [Top EXCEPT !.pc = "loop", !.todo = r.vec]
           V == {p \in Pkg : Contains(r.vec, p)}
<1>2. r \in Walk
  <2>1. db.known \in SUBSET Pkg /\ db.checked \in [Name -> 0..2]
    BY TypedParts DEF Db
  <2>2. QED BY <1>1, <2>1, UnsatisfiedServes
<1>3. Resolved(r) /\ UNCHANGED <<disk, run, faults, hist>>
  BY DEF SatisfyStart
<1> HIDE DEF r
<1>4. r.vec \in Seq(Pkg) /\ r.vec \in Seq(Thing) /\ r.checked \in [Name -> 0..2]
  BY <1>2, ThingsIs DEF Walk
<1>5. d \in Db /\ d.want = db.want
  BY <1>4, DbWith, TypedParts DEF Db
<1>6. fr \in Frames /\ fr.op = "satisfy" /\ fr.p = Top.p /\ fr.pc = "loop" /\ fr.todo = r.vec
  BY <1>1, <1>4 DEF Frames, Pcs
<1>7. \/ db' = d /\ Return(-1)
      \/ /\ db' = [d EXCEPT !.want = [p \in Pkg |-> IF p \in V THEN "install" ELSE d.want[p]]]
         /\ Goto(fr) /\ ret' = 0
  <2>1. [p \in Pkg |-> IF p \in V THEN "install" ELSE d.want[p]]
          = [p \in Pkg |-> IF Contains(r.vec, p) THEN "install" ELSE d.want[p]]
    OBVIOUS
  <2>2. ASSUME NEW x, x = [p \in Pkg |-> IF Contains(r.vec, p) THEN "install" ELSE d.want[p]],
               ~(r.lost /\ ~Option("force_depends"))
        PROVE  db' = [d EXCEPT !.want = x] /\ Goto(fr) /\ ret' = 0
    BY <1>3, <2>2 DEF Resolved
  <2>3. r.lost /\ ~Option("force_depends") => db' = d /\ Return(-1)
    BY <1>3 DEF Resolved
  <2> HIDE DEF d, fr, V
  <2>4. QED BY <2>1, <2>2, <2>3
<1> HIDE DEF d, fr, V
<1>8. fr \in TypedFrames
  BY <1>1, <1>4, <1>6, FrameTyped
<1>9. db' \in Db
  BY <1>5, <1>7, WantedIs
<1>10. stack' \in Seq(TypedFrames) /\ ret' \in {-1, 0}
  BY <1>1, <1>7, <1>8, StackIs, TypedParts
<1>11. QED BY <1>3, <1>9, <1>10 DEF OpkgTyped, disk

(* Installing what a package depends on.                                     *)
LEMMA SatisfyNextTyped ==
  ASSUME OpkgTyped, SatisfyNext \/ SatisfyAuto, UNCHANGED ncommands
  PROVE  OpkgTyped'
<1>1. stack # <<>> /\ Top.op = "satisfy" /\ Top \in Frames /\ Top.p \in Pkg /\ Typed(Top)
  BY TopIs DEF SatisfyNext, SatisfyAuto, At
<1>2. Top.pc \in {"loop", "auto"} /\ Top.todo \in Seq(Pkg) /\ (Top.pc = "auto" => Top.todo # <<>>)
  BY <1>1 DEF SatisfyNext, SatisfyAuto, At, Typed, Listing
<1> DEFINE rest == Tail(Top.todo)
           next == [Top EXCEPT !.pc = "loop", !.todo = rest]
<1>3. Top.todo # <<>> => Head(Top.todo) \in Pkg /\ rest \in Seq(Pkg) /\ rest \in Seq(Thing)
  BY <1>2, ThingsIs
<1> HIDE DEF rest
<1>4. Top.todo # <<>> => next \in TypedFrames
  <2>1. SUFFICES ASSUME Top.todo # <<>> PROVE next \in TypedFrames
    OBVIOUS
  <2>2. next \in Frames /\ next.op = "satisfy" /\ next.p = Top.p /\ next.pc = "loop" /\ next.todo = rest
    BY <1>1, <1>3, <2>1 DEF Frames, Pcs
  <2> HIDE DEF next
  <2>3. QED BY <1>1, <1>3, <2>1, <2>2, FrameTyped
<1>5. Top.todo # <<>> => [Top EXCEPT !.pc = "auto"] \in TypedFrames
  <2>1. SUFFICES ASSUME Top.todo # <<>> PROVE [Top EXCEPT !.pc = "auto"] \in TypedFrames
    OBVIOUS
  <2> DEFINE fr == [Top EXCEPT !.pc = "auto"]
  <2>2. fr \in Frames /\ fr.op = "satisfy" /\ fr.p = Top.p /\ fr.pc = "auto" /\ fr.todo = Top.todo
    BY <1>1 DEF Frames, Pcs
  <2> HIDE DEF fr
  <2>3. fr \in TypedFrames
    BY <1>1, <1>2, <2>1, <2>2, FrameTyped
  <2>4. QED BY <2>3 DEF fr
<1>6. CASE SatisfyNext
  <2>1. Top.pc = "loop"
    BY <1>6 DEF SatisfyNext, At
  <2>2. [Top EXCEPT !.todo = Tail(@)] = next
    BY <1>1, <2>1 DEF Frames, rest
  <2> HIDE DEF next
  <2>3. \/ Return(0)
        \/ Top.todo # <<>> /\ Goto(next) /\ UNCHANGED ret
        \/ Top.todo # <<>> /\ Call(Frame("install", Head(Top.todo)), [Top EXCEPT !.pc = "auto"])
           /\ UNCHANGED ret
    BY <1>6, <2>2 DEF SatisfyNext
  <2>4. stack' \in Seq(TypedFrames) /\ ret' \in {-1, 0}
    BY <1>1, <1>3, <1>4, <1>5, <2>3, NewFrame, StackIs, TypedParts
  <2>5. QED BY <1>6, <2>4 DEF OpkgTyped, SatisfyNext, disk
<1>7. CASE SatisfyAuto
  <2>1. Top.pc = "auto"
    BY <1>7 DEF SatisfyAuto, At
  <2>2. [Top EXCEPT !.pc = "loop", !.todo = Tail(@)] = next
    BY DEF rest
  <2> HIDE DEF next
  <2>3. stack' \in Seq(TypedFrames) /\ ret' \in {-1, 0}
    <3>1. \/ Return(ret)
          \/ Goto(next) /\ UNCHANGED ret
      BY <1>7, <2>2 DEF SatisfyAuto
    <3>2. QED BY <1>1, <1>2, <1>4, <2>1, <3>1, StackIs, TypedParts
  <2>4. db.auto \cup {Head(Top.todo)} \in SUBSET Pkg
    BY <1>2, <1>3, <2>1, TypedParts DEF Db
  <2>5. db' \in Db
    <3>1. db' = [db EXCEPT !.auto = db.auto \cup {Head(Top.todo)}]
      BY <1>7 DEF SatisfyAuto
    <3>2. QED BY <2>4, <3>1, DbWith, TypedParts
  <2>6. QED BY <1>7, <2>3, <2>5 DEF OpkgTyped, SatisfyAuto, disk
<1>8. QED BY <1>6, <1>7

-----------------------------------------------------------------------------
(* What a step of an installation does to the stack.                         *)
LEMMA InstallIs ==
  ASSUME OpkgTyped, stack # <<>>, Top.op = "install"
  PROVE  /\ Top \in Frames /\ Top \in TypedFrames /\ Top.p \in Pkg /\ Top.old \in Pkg \cup {None}
         /\ Top.left \subseteq File
         /\ \A fr \in TypedFrames : Goto(fr) => stack' \in Seq(TypedFrames)
         /\ \A pc \in Pcs \ {"replacees", "unwind"} : Go(pc) => stack' \in Seq(TypedFrames)
         /\ Unwind => stack' \in Seq(TypedFrames) /\ ret' = 0
         /\ \A v : Return(v) => stack' \in Seq(TypedFrames) /\ ret' = v
         /\ \A op \in {"data", "remove", "satisfy", "install"} : \A p \in Pkg :
              \A pc \in Pcs \ {"replacees", "unwind"} :
                Call(Frame(op, p), [Top EXCEPT !.pc = pc]) => stack' \in Seq(TypedFrames)
<1>1. Top \in Frames /\ Top \in TypedFrames /\ Top.p \in Pkg /\ Top.left \subseteq File
      /\ Top.old \in Pkg \cup {None} /\ Top.rep \in Seq(Pkg) /\ Top.rep \in Seq(Thing)
  BY TopIs, ThingsIs
<1>2. \A pc \in Pcs \ {"replacees", "unwind"} : [Top EXCEPT !.pc = pc] \in TypedFrames
  BY <1>1, GoIs DEF Elsewhere
<1> DEFINE fr == [Top EXCEPT !.pc = "unwind", !.todo = Top.rep]
<1>3. fr \in Frames /\ fr.op = "install" /\ fr.p = Top.p /\ fr.left = Top.left /\ fr.todo = Top.rep
  BY <1>1 DEF Frames, Pcs
<1>4. Unwind => Goto(fr) /\ ret' = 0
  BY DEF Unwind
<1> HIDE DEF fr
<1>5. fr \in TypedFrames
  BY <1>1, <1>3, FrameTyped
<1>6. stack \in Seq(TypedFrames)
  BY TypedParts
<1>7. \A new \in TypedFrames : Goto(new) => stack' \in Seq(TypedFrames)
  BY <1>6, StackIs
<1>8. \A new, caller \in TypedFrames : Call(new, caller) => stack' \in Seq(TypedFrames)
  BY <1>6, StackIs
<1>9. \A v : Return(v) => stack' \in Seq(TypedFrames) /\ ret' = v
  BY <1>6, StackIs
<1>10. \A op \in {"data", "remove", "satisfy", "install"} : \A p \in Pkg :
         \A pc \in Pcs \ {"replacees", "unwind"} :
           Call(Frame(op, p), [Top EXCEPT !.pc = pc]) => stack' \in Seq(TypedFrames)
  BY <1>2, <1>8, NewFrame
<1>11. \A pc \in Pcs \ {"replacees", "unwind"} : Go(pc) => stack' \in Seq(TypedFrames)
  BY <1>2, <1>7 DEF Go
<1>12. QED BY <1>1, <1>4, <1>5, <1>7, <1>9, <1>10, <1>11

(* The rest of the list an installation works through.                       *)
LEMMA InstallRest ==
  ASSUME OpkgTyped, stack # <<>>, Top.op = "install", Top.todo # <<>>
  PROVE  /\ [Top EXCEPT !.todo = Tail(@)] \in TypedFrames
         /\ Top.pc \in {"replacees", "unwind"} => Head(Top.todo) \in Pkg
         /\ Goto([Top EXCEPT !.todo = Tail(@)]) => stack' \in Seq(TypedFrames)
         /\ \A op \in {"data", "remove", "satisfy", "install"} : \A p \in Pkg :
              Call(Frame(op, p), [Top EXCEPT !.todo = Tail(@)]) => stack' \in Seq(TypedFrames)
<1>1. Top \in Frames /\ Typed(Top) /\ Top.p \in Pkg /\ Top.left \subseteq File /\ Top.todo \in Seq(Thing)
  BY TopIs
<1>2. Top.pc \in {"replacees", "unwind"} => Top.todo \in Seq(Pkg)
  BY <1>1 DEF Typed, Listing
<1> DEFINE fr == [Top EXCEPT !.todo = Tail(@)]
<1>3. Tail(Top.todo) \in Seq(Thing)
  BY <1>1, ThingsIs
<1>4. /\ fr \in Frames /\ fr.op = "install" /\ fr.p = Top.p /\ fr.pc = Top.pc /\ fr.left = Top.left
      /\ fr.todo = Tail(Top.todo)
  BY <1>1, <1>3 DEF Frames
<1> HIDE DEF fr
<1>5. /\ Top.pc \in {"replacees", "unwind"} => Head(Top.todo) \in Pkg
      /\ fr.pc \in {"replacees", "unwind"} => fr.todo \in Seq(Pkg)
  BY <1>2, <1>4, ThingsIs
<1>6. fr \in TypedFrames
  BY <1>1, <1>4, <1>5, FrameTyped
<1>7. stack \in Seq(TypedFrames)
  BY TypedParts
<1>8. Goto(fr) => stack' \in Seq(TypedFrames)
  BY <1>6, <1>7, StackIs
<1>9. \A op \in {"data", "remove", "satisfy", "install"} : \A p \in Pkg :
        Call(Frame(op, p), fr) => stack' \in Seq(TypedFrames)
  BY <1>6, <1>7, StackIs, NewFrame
<1>10. QED BY <1>5, <1>6, <1>8, <1>9 DEF fr

(* An installation keeps the types, until its point of no return.            *)
LEMMA InstallStartTyped ==
  ASSUME OpkgTyped, InstallStart, UNCHANGED ncommands
  PROVE  OpkgTyped'
<1>1. stack # <<>> /\ Top.op = "install"
  BY DEF InstallStart, At
<1>2. Top \in Frames /\ Top.p \in Pkg /\ Top.left \subseteq File
  BY <1>1, InstallIs
<1> DEFINE p == Top.p
           old == InstalledByName(db, NameOf(p))
           wanted == [db EXCEPT !.want = [q \in Pkg |-> IF q = p THEN "install"
                                                 ELSE IF q = old THEN "deinstall" ELSE @[q]]]
           fr == [Top EXCEPT !.pc = "space", !.old = old]
<1>3. old \in Pkg \cup {None}
  BY InstalledIs, TypedParts
<1>4. wanted \in Db
  <2> DEFINE want == [q \in Pkg |-> IF q = p THEN "install"
                                    ELSE IF q = old THEN "deinstall" ELSE db.want[q]]
  <2>1. wanted = [db EXCEPT !.want = want]
    <3> HIDE DEF p, old
    <3>1. QED OBVIOUS
  <2> HIDE DEF wanted
  <2>2. want \in [Pkg -> {"unknown", "install", "deinstall"}]
    <3>1. db.want \in [Pkg -> {"unknown", "install", "deinstall"}]
      BY TypedParts DEF Db
    <3>2. QED BY <3>1
  <2> HIDE DEF want
  <2>3. QED BY <2>1, <2>2, DbWith, TypedParts
<1>5. /\ db' \in {db, wanted}
      /\ \/ Return(-1)
         \/ Goto(fr) /\ UNCHANGED ret
  BY DEF InstallStart
<1> HIDE DEF old, wanted
<1>6. fr \in Frames /\ fr.op = "install" /\ fr.p = Top.p /\ fr.pc = "space" /\ fr.left = Top.left
  BY <1>1, <1>2, <1>3 DEF Frames, Pcs
<1> HIDE DEF fr
<1>7. fr \in TypedFrames
  BY <1>2, <1>6, FrameTyped
<1>8. stack' \in Seq(TypedFrames) /\ ret' \in {-1, 0}
  BY <1>1, <1>5, <1>7, InstallIs, TypedParts
<1>9. db' \in Db
  BY <1>4, <1>5, TypedParts
<1>10. QED BY <1>8, <1>9 DEF OpkgTyped, InstallStart, disk

(* From the space check to the dependencies.                                 *)
LEMMA InstallUnpackTyped ==
  ASSUME OpkgTyped, InstallSpace \/ InstallDownload \/ InstallUnpack \/ InstallOwners \/ InstallDeps,
         UNCHANGED ncommands
  PROVE  OpkgTyped'
<1>1. stack # <<>> /\ Top.op = "install" /\ UNCHANGED <<disk, run>>
  BY DEF InstallSpace, InstallDownload, InstallUnpack, InstallOwners, InstallDeps, At
<1>2. Top \in Frames /\ Top.p \in Pkg /\ Top.old \in Pkg \cup {None}
  BY <1>1, InstallIs
<1>3. {"download", "unpack", "owners", "replace", "deps"} \subseteq Pcs \ {"replacees", "unwind"}
  BY DEF Pcs
<1>4. CASE InstallSpace
  <2>1. PICK fails \in BOOLEAN : Fault(fails) /\ (Return(-1) \/ (Go("download") /\ UNCHANGED ret))
    BY <1>4 DEF InstallSpace
  <2>2. stack' \in Seq(TypedFrames) /\ ret' \in {-1, 0} /\ faults' \in 0..MaxFaults
    BY <1>1, <1>3, <2>1, FaultIs, InstallIs, TypedParts
  <2>3. QED BY <1>1, <1>4, <2>2 DEF OpkgTyped, InstallSpace, disk
<1>5. CASE InstallDownload
  <2>1. PICK got \in {"missing", "bad", "whole"} :
          /\ Fault(got # "whole")
          /\ Return(-1) \/ (Go("unpack") /\ UNCHANGED ret)
          /\ db' = db \/ db' = [db EXCEPT !.archive[Top.p] = got]
    BY <1>5 DEF InstallDownload
  <2>2. stack' \in Seq(TypedFrames) /\ ret' \in {-1, 0}
    BY <1>1, <1>3, <2>1, InstallIs, TypedParts
  <2>3. faults' \in 0..MaxFaults
    BY <2>1, FaultIs
  <2>4. [db EXCEPT !.archive = [db.archive EXCEPT ![Top.p] = got]] \in Db
    <3>1. db.archive \in [Pkg -> {"none", "missing", "bad", "whole"}]
      BY TypedParts DEF Db
    <3>2. [db.archive EXCEPT ![Top.p] = got] \in [Pkg -> {"none", "missing", "bad", "whole"}]
      BY <3>1
    <3>3. QED BY <3>2, DbWith, TypedParts
  <2>5. db' \in Db
    BY <2>1, <2>4, TypedParts
  <2>6. QED BY <1>1, <2>2, <2>3, <2>5 DEF OpkgTyped, disk
<1>6. CASE InstallUnpack
  <2> DEFINE unpacked == [db EXCEPT !.fetched = @ \cup {Top.p}]
  <2>1. /\ \/ Return(-1)
           \/ UNCHANGED ret /\ Go("owners")
        /\ db' \in {db, unpacked}
    BY <1>6 DEF InstallUnpack
  <2>2. stack' \in Seq(TypedFrames) /\ ret' \in {-1, 0}
    BY <1>1, <1>3, <2>1, InstallIs, TypedParts
  <2>3. faults' \in 0..MaxFaults
    <3>1. (\E fails : Fault(fails)) \/ UNCHANGED faults
      BY <1>6 DEF InstallUnpack
    <3>2. QED BY <3>1, FaultIs, TypedParts
  <2>4. unpacked \in Db
    <3>1. db.fetched \cup {Top.p} \in SUBSET Pkg
      BY <1>2, TypedParts DEF Db
    <3>2. QED BY <3>1, DbWith, TypedParts
  <2> HIDE DEF unpacked
  <2>5. db' \in Db
    BY <2>1, <2>4, TypedParts
  <2>6. QED BY <1>1, <2>2, <2>3, <2>5 DEF OpkgTyped, disk
<1>7. CASE InstallDeps
  <2>1. Return(-1) \/ Return(0) \/ (Go("replace") /\ UNCHANGED ret)
    BY <1>7 DEF InstallDeps
  <2>2. stack' \in Seq(TypedFrames) /\ ret' \in {-1, 0}
    BY <1>1, <1>3, <2>1, InstallIs, TypedParts
  <2>3. QED BY <1>1, <1>7, <2>2 DEF OpkgTyped, InstallDeps, disk
<1>8. CASE InstallOwners
  <2>1. PICK seen \in Seen(Top.p) :
          /\ FilesIn(Top.p, seen)
          /\ \/ Return(-1)
             \/ /\ UNCHANGED ret
                /\ \/ Go("replace")
                   \/ Call(Frame("satisfy", Top.p), [Top EXCEPT !.pc = "deps"])
          /\ db' \in {db, UpdateOwnership(db, seen, Top.p, Top.old)}
    BY <1>8 DEF InstallOwners
  <2>2. stack' \in Seq(TypedFrames) /\ ret' \in {-1, 0}
    BY <1>1, <1>2, <1>3, <2>1, InstallIs, TypedParts
  <2>3. faults' \in 0..MaxFaults
    BY <2>1, FilesInIs
  <2>4. db' \in Db
    BY <1>2, <2>1, UpdateOwnershipIs, TypedParts
  <2>5. QED BY <1>1, <2>2, <2>3, <2>4 DEF OpkgTyped, disk
<1>9. QED BY <1>4, <1>5, <1>6, <1>7, <1>8

(* The installation lists what it replaces.                                  *)
LEMMA InstallReplaceTyped ==
  ASSUME OpkgTyped, InstallReplace, UNCHANGED ncommands
  PROVE  OpkgTyped'
<1>1. stack # <<>> /\ Top.op = "install"
  BY DEF InstallReplace, At
<1>2. Top \in Frames /\ Top.p \in Pkg /\ Top.old \in Pkg \cup {None} /\ Top.left \subseteq File
  BY <1>1, InstallIs
<1> DEFINE rep == Sorted(Replacees(db, Top.p))
           todo == IF Top.old = None THEN <<>> ELSE Depends[Top.old]
           fr == [Top EXCEPT !.pc = "orphans", !.rep = rep, !.todo = todo]
           F == db.flags[Top.p] \cup {"changed"}
<1>3. rep \in Seq(Pkg)
  <2>1. Replacees(db, Top.p) \in SUBSET Pkg
    BY TypedParts DEF Replacees
  <2>2. QED BY <2>1, SortedIs
<1>4. todo \in Seq(Thing)
  BY <1>2, NamesOf, ThingsIs
<1>5. Goto(fr) /\ db' = [db EXCEPT !.flags[Top.p] = F] /\ UNCHANGED <<disk, ret, faults, hist>>
  BY DEF InstallReplace
<1>6. F \in SUBSET {"hold", "user", "replace", "changed"}
  BY <1>2, FlagsIs, TypedParts
<1> HIDE DEF rep, todo, F
<1>7. fr \in Frames /\ fr.op = "install" /\ fr.p = Top.p /\ fr.pc = "orphans" /\ fr.left = Top.left
  BY <1>1, <1>2, <1>3, <1>4 DEF Frames, Pcs
<1> HIDE DEF fr
<1>8. fr \in TypedFrames
  BY <1>2, <1>7, FrameTyped
<1>9. stack' \in Seq(TypedFrames) /\ db' \in Db
  BY <1>1, <1>5, <1>6, <1>8, InstallIs, FlagsIs, TypedParts
<1>10. QED BY <1>5, <1>9 DEF OpkgTyped, disk

(* What is marked as making way for another package.                         *)
LEMMA MakingWay ==
  ASSUME OpkgTyped, NEW q \in Pkg
  PROVE  [db EXCEPT !.flags[q] = db.flags[q] \cup {"replace"}] \in Db
<1>1. db.flags[q] \cup {"replace"} \in SUBSET {"hold", "user", "replace", "changed"}
  BY FlagsIs, TypedParts
<1>2. QED BY <1>1, FlagsIs, TypedParts

(* Removing what is replaced, and installing it again to unwind.             *)
LEMMA InstallOrphansTyped ==
  ASSUME OpkgTyped, InstallOrphans \/ InstallReplacees \/ InstallUnwind, UNCHANGED ncommands
  PROVE  OpkgTyped'
<1>1. stack # <<>> /\ Top.op = "install" /\ UNCHANGED <<disk, faults>>
  BY DEF InstallOrphans, InstallReplacees, InstallUnwind, At
<1> DEFINE next == [Top EXCEPT !.todo = Tail(@)]
<1>2. "preinst" \in Pcs \ {"replacees", "unwind"}
  BY DEF Pcs
<1>3. CASE InstallOrphans
  <2>1. Top.todo # <<>> /\ UNCHANGED ret
    BY <1>3 DEF InstallOrphans
  <2>2. \A n : InstalledByName(db, n) \in Pkg \cup {None}
    BY InstalledIs, TypedParts
  <2>3. \/ Goto(next) /\ UNCHANGED db
        \/ \E q \in Pkg : /\ db' = [db EXCEPT !.flags[q] = db.flags[q] \cup {"replace"}]
                          /\ Call(Frame("remove", q), next)
    BY <1>3, <2>2 DEF InstallOrphans
  <2> HIDE DEF next
  <2>4. stack' \in Seq(TypedFrames)
    BY <1>1, <2>1, <2>3, InstallRest DEF next
  <2>5. db' \in Db
    BY <2>3, MakingWay, TypedParts
  <2>6. QED BY <1>1, <2>1, <2>4, <2>5 DEF OpkgTyped, disk
<1>4. CASE InstallReplacees
  <2> DEFINE q == Head(Top.todo)
  <2>1. Top.pc = "replacees"
    BY <1>4 DEF InstallReplacees, At
  <2>2. \/ Unwind /\ UNCHANGED db
        \/ Go("preinst") /\ UNCHANGED <<db, ret>>
        \/ /\ Top.todo # <<>> /\ UNCHANGED ret
           /\ db' = [db EXCEPT !.flags[q] = db.flags[q] \cup {"replace"}]
           /\ Call(Frame("remove", q), next)
    BY <1>4 DEF InstallReplacees
  <2> HIDE DEF next
  <2>3. stack' \in Seq(TypedFrames) /\ ret' \in {-1, 0}
    BY <1>1, <1>2, <2>1, <2>2, InstallIs, InstallRest, TypedParts DEF next
  <2>4. Top.todo # <<>> => q \in Pkg
    BY <1>1, <2>1, InstallRest
  <2> HIDE DEF q
  <2>5. db' \in Db
    BY <2>2, <2>4, MakingWay, TypedParts
  <2>6. QED BY <1>1, <2>3, <2>5 DEF OpkgTyped, disk
<1>5. CASE InstallUnwind
  <2>1. Top.pc = "unwind" /\ UNCHANGED db
    BY <1>5 DEF InstallUnwind, At
  <2>2. \/ Return(-1)
        \/ /\ Top.todo # <<>> /\ UNCHANGED ret
           /\ Goto(next) \/ Call(Frame("install", Head(Top.todo)), next)
    BY <1>5 DEF InstallUnwind
  <2> HIDE DEF next
  <2>3. stack' \in Seq(TypedFrames) /\ ret' \in {-1, 0}
    BY <1>1, <2>1, <2>2, InstallIs, InstallRest, TypedParts DEF next
  <2>4. QED BY <1>1, <2>1, <2>3 DEF OpkgTyped, disk
<1>6. QED BY <1>3, <1>4, <1>5

(* The installation notes the files as they are.                             *)
LEMMA InstallOrphansEndTyped ==
  ASSUME OpkgTyped, InstallOrphansEnd, UNCHANGED ncommands
  PROVE  OpkgTyped'
<1>1. stack # <<>> /\ Top.op = "install"
  BY DEF InstallOrphansEnd, At
<1>2. Top \in Frames /\ Top.p \in Pkg /\ Top.left \subseteq File /\ Top.rep \in Seq(Pkg)
  BY <1>1, InstallIs, TopIs
<1> DEFINE Files == [File -> Content]
           was == <<content, backup>>
           fr == [Top EXCEPT !.pc = "replacees", !.todo = Top.rep, !.was = was]
<1>3. was \in Files \X Files
  BY TypedParts
<1>4. Goto(fr) /\ ret' = 0 /\ UNCHANGED <<disk, db, run, faults, hist>>
  BY DEF InstallOrphansEnd
<1> HIDE DEF was
<1>5. fr \in Frames
  <2> DEFINE A == [Top EXCEPT !.was = was]
             B == [A EXCEPT !.pc = "replacees"]
  <2>1. A \in Frames
    BY <1>2, <1>3, FrameWith
  <2>2. "replacees" \in Pcs
    BY DEF Pcs
  <2>3. B \in Frames
    <3> HIDE DEF A
    <3>1. QED BY <2>1, <2>2, FrameWith
  <2>4. fr = [B EXCEPT !.todo = Top.rep]
    BY <1>2 DEF Frames
  <2> HIDE DEF A, B, fr
  <2>5. QED BY <1>2, <2>3, <2>4, FrameWith, ThingsIs
<1>6. fr.op = "install" /\ fr.p = Top.p /\ fr.todo = Top.rep /\ fr.left = Top.left
  BY <1>1, <1>2 DEF Frames
<1> HIDE DEF fr
<1>7. fr \in TypedFrames
  BY <1>2, <1>5, <1>6, FrameTyped
<1>8. stack' \in Seq(TypedFrames)
  BY <1>1, <1>4, <1>7, InstallIs
<1>9. QED BY <1>4, <1>8 DEF OpkgTyped, disk

(* The preinst script, the backups and the clashes.                          *)
LEMMA InstallBackupTyped ==
  ASSUME OpkgTyped, InstallPreinst \/ InstallBackup \/ InstallUnbackup \/ InstallClashes,
         UNCHANGED ncommands
  PROVE  OpkgTyped'
<1>1. stack # <<>> /\ Top.op = "install" /\ UNCHANGED <<content, list, stat>>
  BY DEF InstallPreinst, InstallBackup, InstallUnbackup, InstallClashes, At, disk
<1>2. {"backup", "unbackup", "clashes", "commit"} \subseteq Pcs \ {"replacees", "unwind"}
  BY DEF Pcs
<1>3. CASE InstallPreinst
  <2>1. PICK fails \in BOOLEAN : Script(Top.p, fails) /\ (Unwind \/ (Go("backup") /\ UNCHANGED ret))
    BY <1>3 DEF InstallPreinst
  <2>2. stack' \in Seq(TypedFrames) /\ ret' \in {-1, 0} /\ faults' \in 0..MaxFaults
    BY <1>1, <1>2, <2>1, ScriptIs, InstallIs, TypedParts
  <2>3. QED BY <1>3, <2>2 DEF OpkgTyped, InstallPreinst, disk
<1>4. CASE InstallBackup
  <2> DEFINE B == ToBackUp(Top.p, Top.old)
  <2>1. PICK fails \in BOOLEAN :
          /\ Fault(fails)
          /\ Go("unbackup") \/ Go("clashes")
          /\ backup' = backup \/ backup' = [f \in File |-> IF f \in B THEN content[f] ELSE backup[f]]
    BY <1>4 DEF InstallBackup
  <2>2. stack' \in Seq(TypedFrames) /\ faults' \in 0..MaxFaults
    BY <1>1, <1>2, <2>1, FaultIs, InstallIs
  <2> HIDE DEF B
  <2>3. backup' \in [File -> Content]
    BY <2>1, TypedParts
  <2>4. QED BY <1>4, <2>2, <2>3 DEF OpkgTyped, InstallBackup
<1>5. CASE InstallUnbackup
  <2>1. stack' \in Seq(TypedFrames) /\ ret' = 0
    BY <1>1, <1>5, InstallIs DEF InstallUnbackup
  <2>2. backup' \in [File -> Content]
    BY <1>5, TypedParts DEF InstallUnbackup, Content
  <2>3. QED BY <1>5, <2>1, <2>2 DEF OpkgTyped, InstallUnbackup
<1>6. CASE InstallClashes
  <2>1. Go("commit") \/ Go("unbackup")
    BY <1>6 DEF InstallClashes
  <2>2. stack' \in Seq(TypedFrames)
    BY <1>1, <1>2, <2>1, InstallIs
  <2>3. db' \in Db
    <3>1. Top.p \in Pkg
      BY <1>1, InstallIs
    <3>2. db' = db \/ \E S : db' = SetOwners(db, S, Top.p)
      BY <1>6 DEF InstallClashes
    <3>3. QED BY <3>1, <3>2, SetOwnersIs, TypedParts
  <2>4. faults' \in 0..MaxFaults
    BY <1>6, FilesInIs DEF InstallClashes
  <2>5. QED BY <1>6, <2>2, <2>3, <2>4 DEF OpkgTyped, InstallClashes, disk
<1>7. QED BY <1>3, <1>4, <1>5, <1>6

(* The files of a package are files.                                         *)
LEMMA FilesOfPkg ==
  ASSUME NEW p \in Pkg
  PROVE  Info[p].files \in SUBSET File /\ Info[p].conffiles \in SUBSET File
BY InfoAssumption

(* An installation keeps the types, after its point of no return.            *)
LEMMA InstallLeft ==
  ASSUME OpkgTyped, stack # <<>>, Top.op = "install", NEW left \in SUBSET File,
         NEW pc \in Pcs \ {"replacees", "unwind"}
  PROVE  Goto([Top EXCEPT !.pc = pc, !.left = left]) => stack' \in Seq(TypedFrames)
<1>1. Top \in Frames /\ Top.p \in Pkg
  BY InstallIs
<1> DEFINE fr == [Top EXCEPT !.pc = pc, !.left = left]
<1>2. fr \in Frames /\ fr.op = "install" /\ fr.p = Top.p /\ fr.pc = pc /\ fr.left = left
  BY <1>1 DEF Frames
<1> HIDE DEF fr
<1>3. fr \in TypedFrames
  BY <1>1, <1>2, FrameTyped
<1>4. Goto(fr) => stack' \in Seq(TypedFrames)
  BY <1>3, InstallIs
<1>5. QED BY <1>4 DEF fr

(* Past the point of no return: the files of the old version go.             *)
LEMMA InstallCommitTyped ==
  ASSUME OpkgTyped, InstallCommit \/ InstallScripts, UNCHANGED ncommands
  PROVE  OpkgTyped'
<1>1. stack # <<>> /\ Top.op = "install" /\ UNCHANGED <<backup, list, stat>>
  BY DEF InstallCommit, InstallScripts, At, disk
<1>2. Top.p \in Pkg /\ Top.old \in Pkg \cup {None}
  BY <1>1, InstallIs
<1>3. {"scripts", "extract"} \subseteq Pcs \ {"replacees", "unwind"}
  BY DEF Pcs
<1>4. CASE InstallCommit
  <2>1. \/ Go("scripts") /\ UNCHANGED <<content, db, faults>>
        \/ /\ Top.old \in Pkg
           /\ db' = [db EXCEPT !.want[Top.old] = "deinstall"]
           /\ \E seen, O :
                /\ FilesIn(Top.p, seen)
                /\ content' = [f \in File |-> IF f \in O THEN None ELSE content[f]]
           /\ Call(Frame("data", Top.old), [Top EXCEPT !.pc = "scripts"])
    BY <1>2, <1>4 DEF InstallCommit
  <2>2. stack' \in Seq(TypedFrames)
    BY <1>1, <1>3, <2>1, InstallIs
  <2>3. db' \in Db
    <3>1. [db EXCEPT !.want[Top.old] = "deinstall"] \in Db
      BY FlagsIs, TypedParts
    <3>2. QED BY <2>1, <3>1, TypedParts
  <2>4. content' \in [File -> Content]
    BY <2>1, TypedParts DEF Content
  <2>5. faults' \in 0..MaxFaults
    BY <2>1, FilesInIs, TypedParts
  <2>6. QED BY <1>1, <1>4, <2>2, <2>3, <2>4, <2>5 DEF OpkgTyped, InstallCommit
<1>5. CASE InstallScripts
  <2>1. PICK fails \in BOOLEAN :
          /\ Fault(fails)
          /\ \/ Return(-1)
             \/ Goto([Top EXCEPT !.pc = "extract", !.left = Info[Top.p].files]) /\ UNCHANGED ret
    BY <1>5 DEF InstallScripts, Hosed
  <2>2. Info[Top.p].files \in SUBSET File
    BY <1>2, FilesOfPkg
  <2>3. stack' \in Seq(TypedFrames) /\ ret' \in {-1, 0} /\ faults' \in 0..MaxFaults
    BY <1>1, <1>3, <2>1, <2>2, FaultIs, InstallIs, InstallLeft, TypedParts
  <2>4. QED BY <1>5, <2>3 DEF OpkgTyped, InstallScripts, disk
<1>6. QED BY <1>4, <1>5

(* One file is extracted.                                                    *)
LEMMA InstallFileTyped ==
  ASSUME OpkgTyped, InstallFile, UNCHANGED ncommands
  PROVE  OpkgTyped'
<1>1. stack # <<>> /\ Top.op = "install" /\ Top.pc = "extract" /\ UNCHANGED <<backup, list, stat, db>>
  BY DEF InstallFile, At
<1>2. Top.p \in Pkg /\ Top.left \subseteq File /\ Top \in Frames
  BY <1>1, InstallIs
<1>3. PICK f \in Top.left, fails \in BOOLEAN :
        /\ Fault(fails)
        /\ \/ Return(-1) /\ UNCHANGED content
           \/ /\ content' = [content EXCEPT ![f] = Top.p]
              /\ Goto([Top EXCEPT !.left = @ \ {f}]) /\ UNCHANGED ret
  BY DEF InstallFile, Hosed
<1> DEFINE left == Top.left \ {f}
<1>4. left \in SUBSET File
  BY <1>2
<1>5. [Top EXCEPT !.left = @ \ {f}] = [Top EXCEPT !.pc = "extract", !.left = left]
  BY <1>1, <1>2 DEF Frames
<1> HIDE DEF left
<1>6. "extract" \in Pcs \ {"replacees", "unwind"}
  BY DEF Pcs
<1>7. Goto([Top EXCEPT !.pc = "extract", !.left = left]) => stack' \in Seq(TypedFrames)
  BY <1>1, <1>4, <1>6, InstallLeft
<1>8. stack' \in Seq(TypedFrames) /\ ret' \in {-1, 0} /\ faults' \in 0..MaxFaults
  BY <1>1, <1>3, <1>5, <1>7, FaultIs, InstallIs, TypedParts
<1>9. content' \in [File -> Content]
  BY <1>2, <1>3, TypedParts DEF Content
<1>10. QED BY <1>1, <1>8, <1>9 DEF OpkgTyped

(* A file list, whole or cut, is of files.                                   *)
LEMMA WriteFilelistIs ==
  ASSUME OpkgTyped, NEW p \in Pkg, WriteFilelist(p)
  PROVE  db' \in Db /\ list' \in [Name -> {None} \cup SUBSET File] /\ faults' \in 0..MaxFaults
<1>1. PICK kept \in SUBSET Owned(db, p) :
        /\ Fault(kept # Owned(db, p))
        /\ list' = [list EXCEPT ![NameOf(p)] = kept]
  BY DEF WriteFilelist
<1>2. kept \in {None} \cup SUBSET File
  BY DEF Owned
<1>3. list' \in [Name -> {None} \cup SUBSET File]
  BY <1>1, <1>2, TypedParts
<1> DEFINE F == db.flags[p] \ {"changed"}
<1>4. F \in SUBSET {"hold", "user", "replace", "changed"}
  BY FlagsIs, TypedParts
<1>5. db' = [db EXCEPT !.flags[p] = F]
  BY DEF WriteFilelist
<1> HIDE DEF F
<1>6. db' \in Db
  BY <1>4, <1>5, FlagsIs, TypedParts
<1>7. QED BY <1>1, <1>3, <1>6, FaultIs

(* The file list is written, and what the package claims is its own.         *)
LEMMA InstallListTyped ==
  ASSUME OpkgTyped, InstallList \/ InstallClaim, UNCHANGED ncommands
  PROVE  OpkgTyped'
<1>1. stack # <<>> /\ Top.op = "install" /\ UNCHANGED <<content, backup, stat>>
  BY DEF InstallList, InstallClaim, At, disk
<1>2. Top.p \in Pkg
  BY <1>1, InstallIs
<1>3. {"claim", "resolve"} \subseteq Pcs \ {"replacees", "unwind"}
  BY DEF Pcs
<1>4. CASE InstallList
  <2>1. \/ WriteFilelist(Top.p) /\ Go("claim") /\ UNCHANGED ret
        \/ Fault(TRUE) /\ Return(-1) /\ UNCHANGED <<list, db>>
    BY <1>4 DEF InstallList, Hosed
  <2>2. stack' \in Seq(TypedFrames) /\ ret' \in {-1, 0}
    BY <1>1, <1>3, <2>1, InstallIs, TypedParts
  <2>3. db' \in Db /\ list' \in [Name -> {None} \cup SUBSET File] /\ faults' \in 0..MaxFaults
    BY <1>2, <2>1, WriteFilelistIs, FaultIs, TypedParts
  <2>4. QED BY <1>1, <2>2, <2>3 DEF OpkgTyped
<1>5. CASE InstallClaim
  <2>1. PICK seen \in Seen(Top.p) :
          /\ FilesIn(Top.p, seen)
          /\ db' = SetOwners(db, Claimed(seen, Top.p), Top.p)
          /\ Go("resolve") /\ UNCHANGED <<list, ret>>
    BY <1>5 DEF InstallClaim, disk
  <2>2. stack' \in Seq(TypedFrames)
    BY <1>1, <1>3, <2>1, InstallIs
  <2>3. db' \in Db
    BY <1>2, <2>1, SetOwnersIs, TypedParts
  <2>4. faults' \in 0..MaxFaults
    BY <2>1, FilesInIs
  <2>5. QED BY <1>1, <2>1, <2>2, <2>3, <2>4 DEF OpkgTyped
<1>6. QED BY <1>4, <1>5

(* The conffiles are resolved, and the package is unpacked.                  *)
LEMMA InstallFinishTyped ==
  ASSUME OpkgTyped, InstallResolve \/ InstallFinish, UNCHANGED ncommands
  PROVE  OpkgTyped'
<1>1. stack # <<>> /\ Top.op = "install" /\ UNCHANGED <<list, stat, faults>>
  BY DEF InstallResolve, InstallFinish, At
<1>2. Top.p \in Pkg /\ Top.old \in Pkg \cup {None}
  BY <1>1, InstallIs
<1>3. CASE InstallResolve
  <2> DEFINE R == Restored(Top.p)
  <2>1. R \in SUBSET File
    BY <1>2, FilesOfPkg DEF Restored
  <2>2. "finish" \in Pcs \ {"replacees", "unwind"}
    BY DEF Pcs
  <2>3. /\ content' = [f \in File |-> IF f \in R THEN None ELSE content[f]]
        /\ backup' = [f \in File |-> IF f \in Info[Top.p].conffiles \ R /\ content[f] # None
                                     THEN None ELSE backup[f]]
        /\ Goto([Top EXCEPT !.pc = "finish", !.left = R]) /\ UNCHANGED <<db, ret>>
    BY <1>3 DEF InstallResolve
  <2> HIDE DEF R
  <2>4. stack' \in Seq(TypedFrames)
    BY <1>1, <2>1, <2>2, <2>3, InstallLeft
  <2>5. content' \in [File -> Content] /\ backup' \in [File -> Content]
    BY <2>3, TypedParts DEF Content
  <2>6. QED BY <1>1, <2>3, <2>4, <2>5 DEF OpkgTyped
<1>4. CASE InstallFinish
  <2>1. content' \in [File -> Content] /\ backup' \in [File -> Content]
    BY <1>4, TypedParts DEF InstallFinish, Content
  <2>2. stack' \in Seq(TypedFrames) /\ ret' = 0
    BY <1>1, <1>4, InstallIs DEF InstallFinish
  <2> DEFINE e == SetStatus(db, Top.p, "unpacked")
             x == [e.status EXCEPT ![Top.old] = "not_installed"]
  <2>3. e \in Db
    BY <1>2, SetStatusIs, TypedParts DEF Status
  <2>4. x \in [Pkg -> Status]
    <3> HIDE DEF e
    <3>1. e.status \in [Pkg -> Status]
      BY <2>3 DEF Db
    <3>2. QED BY <3>1 DEF Status
  <2>5. db' = e \/ db' = [e EXCEPT !.status = x]
    BY <1>4 DEF InstallFinish, Finished
  <2> HIDE DEF e, x
  <2>6. db' \in Db
    BY <2>3, <2>4, <2>5, DbWith
  <2>7. QED BY <1>1, <2>1, <2>2, <2>6 DEF OpkgTyped
<1>5. QED BY <1>3, <1>4

(* Every step of a removal or an installation keeps the types.               *)
LEMMA CallsTyped ==
  ASSUME OpkgTyped, RemoveNext \/ InstallNext, UNCHANGED ncommands
  PROVE  OpkgTyped'
BY DataTyped, RemoveStartTyped, RemoveDependentsTyped, RemoveMarkTyped, RemovePostrmTyped,
   RemoveAutoTyped, SatisfyStartTyped, SatisfyNextTyped, InstallStartTyped, InstallUnpackTyped,
   InstallReplaceTyped, InstallOrphansTyped, InstallOrphansEndTyped, InstallBackupTyped,
   InstallCommitTyped, InstallFileTyped, InstallListTyped, InstallFinishTyped
DEF RemoveNext, InstallNext

(* What a step of a command does to the stack.                               *)
LEMMA CmdIs ==
  ASSUME OpkgTyped, stack # <<>>, Top.op \in {"cmd", "configure", "save"}
  PROVE  /\ Top \in Frames /\ Top \in TypedFrames /\ Err \in {-1, 0}
         /\ \A fr \in TypedFrames : Goto(fr) => stack' \in Seq(TypedFrames)
         /\ Goto(Frame("save", None)) => stack' \in Seq(TypedFrames)
         /\ \A pc \in Pcs \ {"all"} : Go(pc) => stack' \in Seq(TypedFrames)
         /\ \A op \in {"remove", "install"} : \A p \in Pkg : \A pc \in Pcs \ {"all"} :
              Call(Frame(op, p), [Top EXCEPT !.pc = pc]) => stack' \in Seq(TypedFrames)
<1>1. Top \in Frames /\ Top \in TypedFrames /\ Top.err \in {-1, 0} /\ ret \in {-1, 0}
  BY TopIs, TypedParts
<1>2. \A pc \in Pcs \ {"all"} : [Top EXCEPT !.pc = pc] \in TypedFrames
  BY <1>1, GoIs DEF Elsewhere
<1>3. stack \in Seq(TypedFrames)
  BY TypedParts
<1>4. \A fr \in TypedFrames : Goto(fr) => stack' \in Seq(TypedFrames)
  BY <1>3, StackIs
<1>5. \A fr, caller \in TypedFrames : Call(fr, caller) => stack' \in Seq(TypedFrames)
  BY <1>3, StackIs
<1>6. \A pc \in Pcs \ {"all"} : Go(pc) => stack' \in Seq(TypedFrames)
  BY <1>2, <1>4 DEF Go
<1>7. \A op \in {"remove", "install"} : \A p \in Pkg : \A pc \in Pcs \ {"all"} :
        Call(Frame(op, p), [Top EXCEPT !.pc = pc]) => stack' \in Seq(TypedFrames)
  BY <1>2, <1>5, NewFrame
<1>8. Err \in {-1, 0}
  BY <1>1 DEF Err
<1>9. QED BY <1>1, <1>4, <1>6, <1>7, <1>8, NewFrame

(* The rest of the arguments of a command.                                   *)
LEMMA RestIs ==
  ASSUME OpkgTyped, stack # <<>>, Top.op = "cmd", Top.todo # <<>>
  PROVE  /\ Top.pc = "all" => Head(Top.todo) \in Pkg
         /\ Goto(Rest) => stack' \in Seq(TypedFrames)
         /\ \A op \in {"remove", "install"} : \A p \in Pkg :
              Call(Frame(op, p), Rest) => stack' \in Seq(TypedFrames)
<1>1. Top \in Frames /\ Typed(Top) /\ Top.todo \in Seq(Thing) /\ Err \in {-1, 0}
  BY TopIs, CmdIs
<1>2. Top.pc = "all" => Top.todo \in Seq(Pkg)
  BY <1>1 DEF Typed, Listing
<1>3. /\ Tail(Top.todo) \in Seq(Thing)
      /\ Top.pc = "all" => Head(Top.todo) \in Pkg /\ Tail(Top.todo) \in Seq(Pkg)
  BY <1>1, <1>2, ThingsIs
<1>4. Rest \in Frames /\ Rest.op = "cmd" /\ Rest.pc = Top.pc /\ Rest.todo = Tail(Top.todo)
  <2> DEFINE err == Err
             fr == [Top EXCEPT !.todo = Tail(@), !.err = err]
  <2>1. Rest = fr /\ err \in {-1, 0}
    BY <1>1 DEF Rest
  <2> HIDE DEF err
  <2>2. fr \in Frames /\ fr.op = "cmd" /\ fr.pc = Top.pc /\ fr.todo = Tail(Top.todo)
    BY <1>1, <1>3, <2>1 DEF Frames
  <2>3. QED BY <2>1, <2>2
<1>5. Rest \in TypedFrames
  BY <1>3, <1>4, FrameTyped
<1>6. QED BY <1>3, <1>5, StackIs, NewFrame, TypedParts

(* A package that the user asked for.                                        *)
LEMMA UserIs ==
  ASSUME NEW d \in Db, NEW new \in Pkg
  PROVE  [d EXCEPT !.flags[new] = @ \cup {"user"}] \in Db
<1> DEFINE F == d.flags[new] \cup {"user"}
<1>1. F \in SUBSET {"hold", "user", "replace", "changed"}
  BY FlagsIs
<1>2. [d EXCEPT !.flags[new] = @ \cup {"user"}] = [d EXCEPT !.flags[new] = F]
  OBVIOUS
<1> HIDE DEF F
<1>3. QED BY <1>1, <1>2, FlagsIs

(* A command that installs one of its arguments.                             *)
LEMMA InstallOf ==
  ASSUME OpkgTyped, stack # <<>>, Top.op = "cmd", Top.todo # <<>>,
         NEW new \in Pkg, NEW old, Install(new, old)
  PROVE  stack' \in Seq(TypedFrames) /\ db' \in Db
<1> DEFINE d == [db EXCEPT !.flags[new] = @ \cup {"user"}]
           want == [p \in Pkg |-> IF p = old THEN "deinstall" ELSE d.want[p]]
<1>1. d \in Db /\ d.want = db.want
  BY UserIs, TypedParts DEF Db
<1>2. db' = [d EXCEPT !.want = want]
  BY TypedParts DEF Install, Db
<1> HIDE DEF d
<1>3. want \in [Pkg -> {"unknown", "install", "deinstall"}]
  <2>1. d.want \in [Pkg -> {"unknown", "install", "deinstall"}]
    BY <1>1 DEF Db
  <2>2. QED BY <2>1
<1> HIDE DEF want
<1>4. db' \in Db
  BY <1>1, <1>2, <1>3, DbWith
<1>5. QED BY <1>4, RestIs DEF Install

(* The version to upgrade to is a package.                                   *)
LEMMA UpgradeToIs ==
  ASSUME OpkgTyped, NEW old
  PROVE  UpgradeTo(old) \in Pkg \cup {None}
<1> DEFINE S == {new \in {BestByName(db, NameOf(old))} \ {None} :
                   "hold" \notin db.flags[old] /\ Newer[old][new] < 0}
<1>1. BestByName(db, NameOf(old)) \in Pkg \cup {None}
  BY InstalledIs, TypedParts
<1>2. S \in SUBSET Pkg
  BY <1>1
<1> HIDE DEF S
<1>3. Latest(S) \in Pkg \cup {None}
  BY <1>2, LatestIs
<1>4. QED BY <1>3 DEF UpgradeTo, S

-----------------------------------------------------------------------------
(* The commands keep the types.                                              *)
LEMMA CmdInstallTyped ==
  ASSUME OpkgTyped, CmdInstall
  PROVE  OpkgTyped'
<1>1. stack # <<>> /\ Top.op = "cmd" /\ Top.todo # <<>>
      /\ UNCHANGED <<disk, run, faults, hist, ncommands, answer>>
  BY DEF CmdInstall, At
<1>2. \A n, old : BestByName(db, n) \in Pkg \cup {None} /\ UpgradeTo(old) \in Pkg \cup {None}
  BY InstalledIs, UpgradeToIs, TypedParts
<1>3. \/ Goto(Rest) /\ ret' \in {-1, 0} /\ UNCHANGED db
      \/ \E new \in Pkg : Goto(Rest) /\ ret' = 0 /\ db' = [db EXCEPT !.flags[new] = @ \cup {"user"}]
      \/ \E new \in Pkg, old \in {InstalledByName(db, Head(Top.todo))} : Install(new, old) /\ ret' = 0
  <2>1. PICK old \in {InstalledByName(db, Head(Top.todo))} :
          \E new \in {IF run.kind = "upgrade" /\ old # None THEN UpgradeTo(old)
                      ELSE BestByName(db, Head(Top.todo))} :
            IF new = None
            THEN /\ Goto(Rest) /\ UNCHANGED db
                 /\ ret' = IF run.kind = "upgrade" /\ old # None THEN 0 ELSE -1
            ELSE IF old # None /\ Newer[old][new] >= 0
            THEN Goto(Rest) /\ ret' = 0 /\ db' = [db EXCEPT !.flags[new] = @ \cup {"user"}]
            ELSE Install(new, old) /\ ret' = 0
    BY DEF CmdInstall
  <2>2. PICK new \in Pkg \cup {None} :
            IF new = None
            THEN /\ Goto(Rest) /\ UNCHANGED db
                 /\ ret' = IF run.kind = "upgrade" /\ old # None THEN 0 ELSE -1
            ELSE IF old # None /\ Newer[old][new] >= 0
            THEN Goto(Rest) /\ ret' = 0 /\ db' = [db EXCEPT !.flags[new] = @ \cup {"user"}]
            ELSE Install(new, old) /\ ret' = 0
    BY <1>2, <2>1
  <2>3. CASE new = None
    BY <2>2, <2>3
  <2>4. CASE new \in Pkg
    BY <2>2, <2>4, PkgAssumption
  <2>5. QED BY <2>3, <2>4
<1>4. stack' \in Seq(TypedFrames) /\ db' \in Db /\ ret' \in {-1, 0}
  BY <1>1, <1>3, InstallOf, RestIs, UserIs, TypedParts
<1>5. QED BY <1>1, <1>4 DEF OpkgTyped, disk

(* The commands that remove, and those that set a flag.                      *)
LEMMA CmdRemoveTyped ==
  ASSUME OpkgTyped, CmdRemove \/ CmdFlag
  PROVE  OpkgTyped'
<1>1. stack # <<>> /\ Top.op = "cmd" /\ Top.todo # <<>>
      /\ UNCHANGED <<disk, faults, hist, ncommands, answer>>
  BY DEF CmdRemove, CmdFlag, At
<1>2. CASE CmdRemove
  <2> DEFINE p == InstalledIn(db, Records(db, Head(Top.todo)))
  <2>1. p \in Pkg \cup {None}
    <3>1. Records(db, Head(Top.todo)) \in SUBSET Pkg
      BY TypedParts DEF Records
    <3>2. QED BY <3>1, InstalledIs, TypedParts
  <2>2. \/ Goto(Rest)
        \/ p \in Pkg /\ Call(Frame("remove", p), Rest)
    BY <1>2, <2>1 DEF CmdRemove
  <2> HIDE DEF p
  <2>3. stack' \in Seq(TypedFrames)
    BY <1>1, <2>2, RestIs
  <2>4. QED BY <1>1, <1>2, <2>3 DEF OpkgTyped, CmdRemove, disk
<1>3. CASE CmdFlag
  <2>1. stack' \in Seq(TypedFrames) /\ UNCHANGED ret
    BY <1>1, <1>3, RestIs DEF CmdFlag
  <2>2. InstalledByName(db, Head(Top.todo)) \in Pkg \cup {None}
    BY InstalledIs, TypedParts
  <2>3. \/ db' = db
        \/ \E p \in Pkg : \/ db' = [db EXCEPT !.flags[p] = {"hold"}]
                          \/ db' = [db EXCEPT !.status = [db.status EXCEPT ![p] = "unpacked"]]
    BY <1>3, <2>2 DEF CmdFlag
  <2>4. ASSUME NEW p \in Pkg PROVE [db EXCEPT !.status = [db.status EXCEPT ![p] = "unpacked"]] \in Db
    <3>1. [db.status EXCEPT ![p] = "unpacked"] \in [Pkg -> Status]
      <4>1. db.status \in [Pkg -> Status]
        BY TypedParts DEF Db
      <4>2. QED BY <4>1 DEF Status
    <3>2. QED BY <3>1, DbWith, TypedParts
  <2>5. ASSUME NEW p \in Pkg PROVE [db EXCEPT !.flags[p] = {"hold"}] \in Db
    <3>1. {"hold"} \in SUBSET {"hold", "user", "replace", "changed"}
      OBVIOUS
    <3>2. QED BY <3>1, FlagsIs, TypedParts
  <2>6. db' \in Db
    BY <2>3, <2>4, <2>5, TypedParts
  <2>7. QED BY <1>1, <2>1, <2>6 DEF OpkgTyped, disk
<1>4. QED BY <1>2, <1>3

(* A command that goes on to configuring.                                    *)
LEMMA ConfigureStarts ==
  ASSUME OpkgTyped, stack # <<>>, Top.op = "cmd", NEW s \in Seq(Pkg),
         Goto([Top EXCEPT !.op = "configure", !.pc = "loop", !.todo = s])
  PROVE  stack' \in Seq(TypedFrames)
<1> DEFINE fr == [Top EXCEPT !.op = "configure", !.pc = "loop", !.todo = s]
<1>1. s \in Seq(Thing) /\ Top \in Frames
  BY ThingsIs, TopIs
<1>2. fr \in Frames /\ fr.op = "configure" /\ fr.todo = s
  BY <1>1 DEF Frames, Ops, Pcs
<1> HIDE DEF fr
<1>3. fr \in TypedFrames
  BY <1>2, FrameTyped
<1>4. QED BY <1>3, StackIs, TypedParts DEF fr

(* A command that is done with its arguments.                                *)
LEMMA CmdEndsTyped ==
  ASSUME OpkgTyped, CmdConfigure \/ CmdSave \/ LibConfigure \/ LibSave
  PROVE  OpkgTyped'
<1>1. stack # <<>> /\ Top.op = "cmd" /\ UNCHANGED <<disk, db, faults, ncommands>>
  BY DEF CmdConfigure, CmdSave, LibConfigure, LibSave, GiveUp, At
<1>2. "fails" \in Pcs \ {"all"} /\ Err \in {-1, 0} /\ ret \in {-1, 0}
  BY <1>1, CmdIs, TypedParts DEF Pcs
<1>3. InOrder(db) \in Seq(Pkg) /\ Sorted(db.known) \in Seq(Pkg)
  <2>1. InOrder(db) \in Seq(There(db)) /\ There(db) \in SUBSET Pkg
    BY ConfiguresEach, TypedParts DEF There
  <2>2. QED BY <2>1, ThingsIs, SortedIs, TypedParts
<1>4. CASE CmdConfigure
  <2>1. ret' \in {-1, 0} /\ Goto([Top EXCEPT !.op = "configure", !.pc = "loop", !.todo = InOrder(db)])
    BY <1>2, <1>4 DEF CmdConfigure
  <2>2. QED BY <1>1, <1>3, <2>1, ConfigureStarts DEF OpkgTyped, disk
<1>5. CASE CmdSave
  <2>1. ret' \in {-1, 0} /\ Goto(Frame("save", None))
    BY <1>2, <1>5 DEF CmdSave
  <2>2. QED BY <1>1, <2>1, CmdIs DEF OpkgTyped, disk
<1>6. CASE LibConfigure
  <2>1. /\ ret' = ret
        /\ \/ Go("fails")
           \/ Goto([Top EXCEPT !.op = "configure", !.pc = "loop", !.todo = Sorted(db.known)])
    BY <1>6 DEF LibConfigure, GiveUp, Go
  <2>2. stack' \in Seq(TypedFrames)
    BY <1>1, <1>2, <1>3, <2>1, ConfigureStarts, CmdIs
  <2>3. QED BY <1>1, <2>1, <2>2 DEF OpkgTyped, disk
<1>7. CASE LibSave
  <2>1. ret' = ret /\ Goto(Frame("save", None))
    BY <1>7 DEF LibSave
  <2>2. QED BY <1>1, <2>1, CmdIs DEF OpkgTyped, disk
<1>8. QED BY <1>4, <1>5, <1>6, <1>7

(* The calls of the library keep the types.                                  *)
LEMMA LibInstallTyped ==
  ASSUME OpkgTyped, LibInstall
  PROVE  OpkgTyped'
<1>1. stack # <<>> /\ Top.op = "cmd" /\ UNCHANGED <<disk, run, hist, ncommands, answer>>
  BY DEF LibInstall, At
<1>2. {"fails", "configure"} \subseteq Pcs \ {"all"}
  BY DEF Pcs
<1> DEFINE new == BestByName(db, Head(Top.todo))
           wanted == Range(Unsatisfied(db, new).vec) \cup {new}
           d == [db EXCEPT !.flags[new] = @ \cup {"user"}]
           archive == [p \in Pkg |-> IF p \in wanted THEN "whole" ELSE d.archive[p]]
<1>3. new \in Pkg \cup {None}
  BY InstalledIs, TypedParts
<1>4. /\ UNCHANGED ret
      /\ \/ Go("fails") /\ UNCHANGED db
         \/ /\ new \in Pkg /\ db' = [d EXCEPT !.archive = archive]
            /\ Call(Frame("install", new), [Top EXCEPT !.pc = "configure"])
      /\ UNCHANGED faults \/ \E fails \in BOOLEAN : Fault(fails)
  <2>1. CASE new = None \/ InstalledByName(db, Head(Top.todo)) # None
    BY <2>1 DEF LibInstall, GiveUp, Go
  <2>2. CASE ~(new = None \/ InstalledByName(db, Head(Top.todo)) # None)
    <3> DEFINE deps == Unsatisfied(db, new)
    <3>1. PICK fails \in BOOLEAN :
            IF deps.lost \/ ~(wanted \subseteq Feed)
            THEN ~fails /\ GiveUp /\ UNCHANGED faults
            ELSE /\ Fault(fails)
                 /\ IF fails THEN GiveUp
                    ELSE /\ db' = [db EXCEPT !.flags[new] = @ \cup {"user"},
                               !.archive = [p \in Pkg |-> IF p \in wanted THEN "whole" ELSE @[p]]]
                         /\ Call(Frame("install", new), [Top EXCEPT !.pc = "configure"])
                         /\ UNCHANGED ret
      BY <2>2 DEF LibInstall
    <3>2. new \in Pkg
      BY <1>3, <2>2
    <3>3. CASE GiveUp
      <4>1. Go("fails") /\ UNCHANGED <<db, ret>>
        BY <3>3 DEF GiveUp, Go
      <4>2. UNCHANGED faults \/ Fault(fails)
        BY <3>1
      <4>3. QED BY <4>1, <4>2
    <3>4. CASE ~GiveUp
      <4> HIDE DEF new, wanted, deps
      <4>1. /\ Fault(fails) /\ UNCHANGED ret
            /\ db' = [db EXCEPT !.flags[new] = @ \cup {"user"},
                       !.archive = [p \in Pkg |-> IF p \in wanted THEN "whole" ELSE @[p]]]
            /\ Call(Frame("install", new), [Top EXCEPT !.pc = "configure"])
        BY <3>1, <3>4
      <4>2. d.archive = db.archive
        BY TypedParts DEF Db
      <4>3. db' = [d EXCEPT !.archive = archive]
        BY <4>1, <4>2
      <4>4. QED BY <3>2, <4>1, <4>3
    <3>5. QED BY <3>3, <3>4
  <2>3. QED BY <2>1, <2>2
<1> HIDE DEF wanted, new
<1>5. new \in Pkg => [d EXCEPT !.archive = archive] \in Db
  <2>1. SUFFICES ASSUME new \in Pkg PROVE [d EXCEPT !.archive = archive] \in Db
    OBVIOUS
  <2>2. d \in Db
    BY <2>1, UserIs, TypedParts
  <2> HIDE DEF d
  <2>3. d.archive \in [Pkg -> {"none", "missing", "bad", "whole"}]
    BY <2>2 DEF Db
  <2>4. archive \in [Pkg -> {"none", "missing", "bad", "whole"}]
    BY <2>3
  <2> HIDE DEF archive
  <2>5. QED BY <2>2, <2>4, DbWith
<1> HIDE DEF d, archive
<1>6. db' \in Db
  BY <1>4, <1>5, TypedParts
<1>7. stack' \in Seq(TypedFrames)
  BY <1>1, <1>2, <1>4, CmdIs
<1>8. faults' \in 0..MaxFaults
  BY <1>4, FaultIs, TypedParts
<1>9. QED BY <1>1, <1>4, <1>6, <1>7, <1>8 DEF OpkgTyped, disk

(* A call of the library that removes or upgrades.                           *)
LEMMA LibUpgradeTyped ==
  ASSUME OpkgTyped, LibRemove \/ LibUpgrade \/ LibUpgradeAll
  PROVE  OpkgTyped'
<1>1. stack # <<>> /\ Top.op = "cmd" /\ Top \in Frames
      /\ UNCHANGED <<disk, db, ret, run, faults, hist, ncommands, answer>>
  BY TopIs DEF LibRemove, LibUpgrade, LibUpgradeAll, GiveUp, At
<1>2. {"fails", "save"} \subseteq Pcs \ {"all"}
  BY DEF Pcs
<1>3. ASSUME NEW s \in Seq(Pkg), Goto([Top EXCEPT !.pc = "all", !.todo = s])
      PROVE  stack' \in Seq(TypedFrames)
  <2> DEFINE fr == [Top EXCEPT !.pc = "all", !.todo = s]
  <2>1. s \in Seq(Thing)
    BY ThingsIs
  <2>2. fr \in Frames /\ fr.op = "cmd" /\ fr.todo = s
    BY <1>1, <2>1 DEF Frames, Pcs
  <2>3. Goto(fr)
    BY <1>3
  <2> HIDE DEF fr
  <2>4. fr \in TypedFrames
    BY <2>2, FrameTyped
  <2>5. QED BY <1>1, <2>3, <2>4, CmdIs
<1>4. \A n : InstalledByName(db, n) \in Pkg \cup {None}
  BY InstalledIs, TypedParts
<1>5. CASE LibRemove
  <2>1. \/ Go("fails")
        \/ \E p \in Pkg : Call(Frame("remove", p), [Top EXCEPT !.pc = "save"])
    BY <1>4, <1>5 DEF LibRemove, GiveUp, Go
  <2>2. stack' \in Seq(TypedFrames)
    BY <1>1, <1>2, <2>1, CmdIs
  <2>3. QED BY <1>1, <2>2 DEF OpkgTyped, disk
<1>6. CASE LibUpgrade
  <2>1. \/ Go("fails")
        \/ \E old \in Pkg : Goto([Top EXCEPT !.pc = "all", !.todo = <<old>>])
    BY <1>4, <1>6 DEF LibUpgrade, GiveUp, Go
  <2>2. \A old \in Pkg : <<old>> \in Seq(Pkg)
    OBVIOUS
  <2>3. stack' \in Seq(TypedFrames)
    BY <1>1, <1>2, <1>3, <2>1, <2>2, CmdIs
  <2>4. QED BY <1>1, <2>3 DEF OpkgTyped, disk
<1>7. CASE LibUpgradeAll
  <2>1. AllInstalled(db) \in SUBSET Pkg
    BY TypedParts DEF AllInstalled
  <2>2. Sorted(AllInstalled(db)) \in Seq(Pkg)
    BY <2>1, SortedIs
  <2>3. stack' \in Seq(TypedFrames)
    BY <1>3, <1>7, <2>2 DEF LibUpgradeAll
  <2>4. QED BY <1>1, <2>3 DEF OpkgTyped, disk
<1>8. QED BY <1>5, <1>6, <1>7

(* The next package that a call of the library upgrades.                     *)
LEMMA LibUpgradeNextTyped ==
  ASSUME OpkgTyped, LibUpgradeNext
  PROVE  OpkgTyped'
<1>1. stack # <<>> /\ Top.op = "cmd" /\ Top.pc = "all"
      /\ UNCHANGED <<disk, run, faults, hist, ncommands, answer>>
  BY DEF LibUpgradeNext, At
<1>2. "configure" \in Pcs \ {"all"} /\ Err \in {-1, 0}
  BY <1>1, CmdIs DEF Pcs
<1>3. UpgradeTo(Head(Top.todo)) \in Pkg \cup {None}
  BY UpgradeToIs
<1>4. /\ ret' \in {-1, 0}
      /\ \/ Go("configure") /\ UNCHANGED db
         \/ /\ Top.todo # <<>>
            /\ \/ Goto(Rest) /\ UNCHANGED db
               \/ \E new \in Pkg : Install(new, Head(Top.todo))
  BY <1>2, <1>3 DEF LibUpgradeNext, Go
<1>5. stack' \in Seq(TypedFrames) /\ db' \in Db
  BY <1>1, <1>2, <1>4, CmdIs, RestIs, InstallOf, TypedParts
<1>6. QED BY <1>1, <1>4, <1>5 DEF OpkgTyped, disk

-----------------------------------------------------------------------------
(* Configuring and saving keep the types.                                    *)
LEMMA ConfigureTyped ==
  ASSUME OpkgTyped, Configure \/ ConfigureEnd
  PROVE  OpkgTyped'
<1>1. stack # <<>> /\ Top.op = "configure" /\ UNCHANGED <<disk, hist, ncommands, answer>>
  BY DEF Configure, ConfigureEnd, At
<1>2. Top \in Frames /\ Typed(Top) /\ Top.todo \in Seq(Pkg)
  BY <1>1, TopIs DEF Typed, Listing
<1>3. CASE Configure
  <2>1. Head(Top.todo) \in Pkg /\ Tail(Top.todo) \in Seq(Pkg) /\ Tail(Top.todo) \in Seq(Thing)
    BY <1>2, <1>3, ThingsIs DEF Configure
  <2> DEFINE rest == Tail(Top.todo)
             fr == [Top EXCEPT !.todo = rest]
             p == Head(Top.todo)
  <2>2. Goto(fr)
    BY <1>3 DEF Configure, Later
  <2> HIDE DEF rest
  <2>3. fr \in Frames /\ fr.op = "configure" /\ fr.todo = rest
    BY <1>1, <1>2, <2>1 DEF Frames, rest
  <2> HIDE DEF fr
  <2>4. fr \in TypedFrames
    BY <2>1, <2>3, FrameTyped DEF rest
  <2>5. stack' \in Seq(TypedFrames)
    BY <1>1, <2>2, <2>4, CmdIs
  <2>6. /\ UNCHANGED faults \/ \E fails \in BOOLEAN : Script(p, fails)
        /\ ret' \in {ret, -1}
        /\ db' \in {db, SetStatus(db, p, "installed")}
    BY <1>3 DEF Configure, OpkgConfigure
  <2>7. faults' \in 0..MaxFaults
    BY <2>6, ScriptIs, TypedParts
  <2>8. db' \in Db
    BY <2>1, <2>6, SetStatusIs, TypedParts DEF Status
  <2>9. ret' \in {-1, 0}
    BY <2>6, TypedParts
  <2>10. QED BY <1>1, <2>5, <2>7, <2>8, <2>9 DEF OpkgTyped, disk
<1>4. CASE ConfigureEnd
  <2> DEFINE fr == [Top EXCEPT !.op = "cmd", !.pc = "fails"]
  <2>1. Goto(fr) \/ Goto(Frame("save", None))
    BY <1>4 DEF ConfigureEnd
  <2>2. fr \in Frames /\ fr.op = "cmd" /\ fr.pc = "fails"
    BY <1>2 DEF Frames, Ops, Pcs
  <2> HIDE DEF fr
  <2>3. fr \in TypedFrames
    BY <2>2, FrameTyped
  <2>4. stack' \in Seq(TypedFrames)
    BY <1>1, <2>1, <2>3, CmdIs
  <2>5. QED BY <1>4, <2>4 DEF OpkgTyped, ConfigureEnd, disk
<1>5. QED BY <1>3, <1>4

(* The steps of saving.                                                      *)
LEMMA SaveGoes ==
  ASSUME OpkgTyped, stack # <<>>, Top.op = "save", NEW left \in SUBSET Pkg, NEW pc \in Pcs
  PROVE  Goto([Top EXCEPT !.pc = pc, !.left = left]) => stack' \in Seq(TypedFrames)
<1> DEFINE fr == [Top EXCEPT !.pc = pc, !.left = left]
<1>1. fr \in Frames /\ fr.op = "save" /\ fr.left = left
  BY TopIs DEF Frames
<1> HIDE DEF fr
<1>2. fr \in TypedFrames
  BY <1>1, FrameTyped
<1>3. QED BY <1>2, CmdIs DEF fr

(* A part of a status file is one.                                           *)
LEMMA FirstPartsIs ==
  ASSUME OpkgTyped, NEW part \in FirstParts
  PROVE  part \in [Pkg -> Entry \cup {None}]
<1>1. PICK n : part = [p \in Pkg |-> IF p \in Range(SubSeq(Sorted(AllInstalled(db)), 1, n))
                                     THEN Printed(db, p) ELSE None]
  BY DEF FirstParts
<1> DEFINE S == Range(SubSeq(Sorted(AllInstalled(db)), 1, n))
<1>2. part = [p \in Pkg |-> IF p \in S THEN Printed(db, p) ELSE None]
  BY <1>1
<1> HIDE DEF S
<1>3. QED BY <1>2, PrintedIs, TypedParts

(* Going on to the file lists.                                               *)
LEMMA ToListsIs ==
  ASSUME OpkgTyped, stack # <<>>, Top.op = "save", ToLists
  PROVE  stack' \in Seq(TypedFrames)
<1> DEFINE left == {p \in AllInstalled(db) : "changed" \in db.flags[p]}
<1>1. left \in SUBSET Pkg /\ "lists" \in Pcs
  BY TypedParts DEF AllInstalled, Pcs
<1>2. Goto([Top EXCEPT !.pc = "lists", !.left = left])
  BY DEF ToLists
<1> HIDE DEF left
<1>3. QED BY <1>1, <1>2, SaveGoes

(* Writing the status file and the file lists.                               *)
LEMMA SaveTyped ==
  ASSUME OpkgTyped, SaveOpen \/ SaveWrite \/ SaveList
  PROVE  OpkgTyped'
<1>1. stack # <<>> /\ Top.op = "save" /\ Top \in Frames /\ Typed(Top)
      /\ UNCHANGED <<content, backup, ret, run, ncommands, answer>>
  BY TopIs DEF SaveOpen, SaveWrite, SaveList, At
<1>2. Top.left \in SUBSET Pkg
  BY <1>1 DEF Typed
<1>3. CASE SaveOpen
  <2>1. /\ UNCHANGED <<list, db>> /\ \E fails : Fault(fails)
        /\ \/ ToLists /\ UNCHANGED stat
           \/ Go("write") /\ stat' = [p \in Pkg |-> None]
    BY <1>3 DEF SaveOpen, Unnoticed
  <2>2. "write" \in Pcs \ {"all"}
    BY DEF Pcs
  <2>3. stack' \in Seq(TypedFrames)
    BY <1>1, <2>1, <2>2, CmdIs, ToListsIs
  <2>4. stat' \in [Pkg -> Entry \cup {None}]
    BY <2>1, TypedParts
  <2>5. faults' \in 0..MaxFaults
    BY <2>1, FaultIs
  <2>6. QED BY <1>1, <2>1, <2>3, <2>4, <2>5 DEF OpkgTyped
<1>4. CASE SaveWrite
  <2>1. /\ UNCHANGED <<list, db>> /\ ToLists /\ \E fails : Fault(fails)
        /\ stat' \in FirstParts \/ stat' = [p \in Pkg |-> Printed(db, p)]
    BY <1>4 DEF SaveWrite, Unnoticed
  <2>2. stack' \in Seq(TypedFrames)
    BY <1>1, <2>1, ToListsIs
  <2>3. stat' \in [Pkg -> Entry \cup {None}]
    BY <2>1, FirstPartsIs, PrintedIs, TypedParts
  <2>4. faults' \in 0..MaxFaults
    BY <2>1, FaultIs
  <2>5. QED BY <1>1, <2>1, <2>2, <2>3, <2>4 DEF OpkgTyped
<1>5. CASE SaveList
  <2>1. PICK p \in Top.left :
          /\ WriteFilelist(p) \/ (Unnoticed(TRUE) /\ UNCHANGED <<list, db>>)
          /\ Goto([Top EXCEPT !.left = @ \ {p}])
    BY <1>5 DEF SaveList
  <2> DEFINE left == Top.left \ {p}
  <2>2. p \in Pkg /\ left \in SUBSET Pkg /\ Top.pc = "lists" /\ "lists" \in Pcs
    BY <1>2, <1>5 DEF SaveList, At, Pcs
  <2>3. [Top EXCEPT !.left = @ \ {p}] = [Top EXCEPT !.pc = "lists", !.left = left]
    BY <1>1, <2>2 DEF Frames
  <2> HIDE DEF left
  <2>4. stack' \in Seq(TypedFrames)
    BY <1>1, <2>1, <2>2, <2>3, SaveGoes
  <2>5. db' \in Db /\ list' \in [Name -> {None} \cup SUBSET File] /\ faults' \in 0..MaxFaults
    BY <2>1, <2>2, WriteFilelistIs, FaultIs, TypedParts DEF Unnoticed
  <2>6. UNCHANGED stat
    BY <1>5 DEF SaveList
  <2>7. QED BY <1>1, <2>4, <2>5, <2>6 DEF OpkgTyped
<1>6. QED BY <1>3, <1>4, <1>5

(* A process that is gone leaves no database and no calls.                   *)
LEMMA GoneIs ==
  /\ Load({}, [p \in Pkg |-> None]) \in Db
  /\ Gone => db' \in Db /\ stack' \in Seq(TypedFrames) /\ ret' \in {-1, 0}
<1>1. Load({}, [p \in Pkg |-> None]) \in Db
  <2>1. [p \in Pkg |-> None] \in [Pkg -> Entry \cup {None}] /\ {} \in SUBSET Pkg
    OBVIOUS
  <2>2. QED BY <2>1, LoadIs
<1>2. <<>> \in Seq(TypedFrames)
  OBVIOUS
<1>3. QED BY <1>1, <1>2 DEF Gone

(* The process comes and goes, and the types stay.                           *)
LEMMA EndsTyped ==
  ASSUME OpkgTyped, Exit \/ Interrupt \/ Crash
  PROVE  OpkgTyped'
<1>1. UNCHANGED <<content, backup, list, ncommands>>
  BY DEF Exit, Interrupt, Crash, disk
<1>2. CASE Exit
  <2>1. db' \in Db /\ stack' \in Seq(TypedFrames) /\ ret' \in {-1, 0}
    BY <1>2, GoneIs DEF Exit
  <2>2. QED BY <1>1, <1>2, <2>1 DEF OpkgTyped, Exit, disk
<1>3. CASE Interrupt
  <2>1. faults' \in 0..MaxFaults
    BY <1>3, FaultIs DEF Interrupt
  <2>2. stack' \in Seq(TypedFrames)
    <3>1. stack' = <<Frame("save", None)>>
      BY <1>3 DEF Interrupt
    <3>2. \A fr \in TypedFrames : <<fr>> \in Seq(TypedFrames)
      OBVIOUS
    <3>3. QED BY <3>1, <3>2, NewFrame
  <2>3. QED BY <1>1, <1>3, <2>1, <2>2 DEF OpkgTyped, Interrupt, disk
<1>4. CASE Crash
  <2>1. faults' \in 0..MaxFaults
    BY <1>4, FaultIs DEF Crash
  <2>2. db' \in Db /\ stack' \in Seq(TypedFrames) /\ ret' \in {-1, 0}
    BY <1>4, GoneIs DEF Crash
  <2>3. stat' \in FirstParts \/ UNCHANGED stat
    BY <1>4 DEF Crash
  <2>4. stat' \in [Pkg -> Entry \cup {None}]
    BY <2>3, FirstPartsIs, TypedParts
  <2>5. QED BY <1>1, <2>1, <2>2, <2>4 DEF OpkgTyped
<1>5. QED BY <1>2, <1>3, <1>4

(* A process that starts.                                                    *)
LEMMA StartTyped ==
  ASSUME OpkgTyped, Start
  PROVE  OpkgTyped'
<1>1. ncommands' \in 1..MaxCommands /\ ret' = 0 /\ UNCHANGED <<disk, faults>>
  BY TypedParts, CommandsAssumption DEF Start
<1>2. PICK c \in Commands[ncommands'] :
        LET d == Load(IF c.kind \in {"install", "upgrade"} \cup Calls THEN Feed ELSE {}, stat)
        IN  /\ db' = IF c.kind \in {"configure", "flag"} THEN d ELSE Preinstall(d, list)
            /\ stack' = <<[Frame("cmd", None) EXCEPT !.todo = c.args]>>
  BY DEF Start
<1> DEFINE feed == IF c.kind \in {"install", "upgrade"} \cup Calls THEN Feed ELSE {}
           d == Load(feed, stat)
           fr == [Frame("cmd", None) EXCEPT !.todo = c.args]
<1>3. db' \in {d, Preinstall(d, list)} /\ stack' = <<fr>>
  BY <1>2
<1>4. feed \in SUBSET Pkg
  BY InfoAssumption
<1> HIDE DEF feed
<1>5. d \in Db
  BY <1>4, LoadIs, TypedParts
<1> HIDE DEF d
<1>6. db' \in Db
  BY <1>3, <1>5, PreinstallIs
<1>7. c.args \in Seq(Thing)
  <2>1. c.args \in Seq(Range(c.args))
    BY <1>1, <1>2, CommandsAssumption
  <2>2. Range(c.args) \subseteq Argument
    BY <1>1, <1>2 DEF Argument
  <2>3. Range(c.args) \subseteq Thing
    BY <2>2 DEF Thing
  <2> HIDE DEF Thing
  <2> DEFINE R == Range(c.args)
  <2> HIDE DEF R
  <2>4. R \subseteq Thing => Seq(R) \subseteq Seq(Thing)
    OBVIOUS
  <2>5. QED BY <2>1, <2>3, <2>4 DEF R
<1>8. fr \in TypedFrames
  <2> DEFINE f == Frame("cmd", None)
  <2>1. "cmd" \in Ops
    BY DEF Ops
  <2>2. f \in Frames /\ f.op = "cmd" /\ f.pc = "start"
    BY <2>1, FrameIs
  <2> HIDE DEF f
  <2> DEFINE g == [f EXCEPT !.todo = c.args]
  <2>3. g \in Frames /\ g.op = "cmd" /\ g.pc = "start"
    BY <1>7, <2>2 DEF Frames
  <2> HIDE DEF g
  <2>4. g \in TypedFrames
    BY <2>3, FrameTyped
  <2>5. QED BY <2>4 DEF g, f
<1> HIDE DEF fr
<1>9. stack' \in Seq(TypedFrames)
  BY <1>3, <1>8
<1>10. ncommands' \in 0..MaxCommands
  BY <1>1, CommandsAssumption
<1>11. QED BY <1>1, <1>6, <1>9, <1>10 DEF OpkgTyped, disk

(* What happens between two processes, and nothing happening.                *)
LEMMA OutsideTyped ==
  ASSUME OpkgTyped, Edit \/ CompareVersions \/ Done \/ UNCHANGED all
  PROVE  OpkgTyped'
<1>1. CASE Edit
  <2>1. content' \in [File -> Content]
    BY <1>1, TypedParts DEF Edit, Content
  <2>2. QED BY <1>1, <2>1 DEF OpkgTyped, Edit
<1>2. CASE CompareVersions
  <2>1. ncommands' \in 0..MaxCommands
    BY <1>2, CommandsAssumption DEF CompareVersions
  <2>2. QED BY <1>2, <2>1 DEF OpkgTyped, CompareVersions, vars
<1>3. CASE Done \/ UNCHANGED all
  BY <1>3 DEF OpkgTyped, Done, all, vars
<1>4. QED BY <1>1, <1>2, <1>3

(* The initial states have the types.                                        *)
LEMMA InitTyped == Init => OpkgTyped
<1>1. SUFFICES ASSUME Init PROVE OpkgTyped
  OBVIOUS
<1>2. PICK S \in Installed :
        /\ content = [f \in File |-> LET P == {p \in S : f \in Info[p].files}
                                     IN  IF P = {} THEN None ELSE CHOOSE p \in P : TRUE]
        /\ list = [n \in Name |-> LET P == {p \in S : NameOf(p) = n}
                                  IN  IF P = {} THEN None ELSE Info[CHOOSE p \in P : TRUE].files]
        /\ stat = [p \in Pkg |-> IF p \notin S THEN None
                                 ELSE [status |-> "installed", want |-> "install", flags |-> {},
                                       auto |-> p \in Needed(S)]]
  BY <1>1 DEF Init
<1>3. S \in SUBSET Pkg
  BY <1>2, CommandsAssumption
<1>4. content \in [File -> Content]
  <2> DEFINE P(f) == {p \in S : f \in Info[p].files}
             c(f) == IF P(f) = {} THEN None ELSE CHOOSE p \in P(f) : TRUE
  <2>1. content = [f \in File |-> c(f)]
    BY <1>2
  <2>2. \A f : P(f) \subseteq Pkg
    BY <1>3
  <2>3. \A f : c(f) \in Content
    <3> HIDE DEF P
    <3>1. QED BY <2>2 DEF Content
  <2> HIDE DEF c
  <2>4. QED BY <2>1, <2>3
<1>5. list \in [Name -> {None} \cup SUBSET File]
  <2> DEFINE P(n) == {p \in S : NameOf(p) = n}
             c(n) == IF P(n) = {} THEN None ELSE Info[CHOOSE p \in P(n) : TRUE].files
  <2>1. list = [n \in Name |-> c(n)]
    BY <1>2
  <2>2. \A n : P(n) \subseteq Pkg
    BY <1>3
  <2>3. ASSUME NEW n PROVE c(n) \in {None} \cup SUBSET File
    <3> DEFINE Q == P(n)
    <3>1. Q \subseteq Pkg
      BY <2>2
    <3>2. c(n) = IF Q = {} THEN None ELSE Info[CHOOSE p \in Q : TRUE].files
      OBVIOUS
    <3> HIDE DEF P, Q
    <3>3. Q # {} => (CHOOSE p \in Q : TRUE) \in Pkg
      BY <3>1
    <3>4. QED BY <3>2, <3>3, FilesOfPkg
  <2> HIDE DEF c
  <2>4. QED BY <2>1, <2>3
<1>6. stat \in [Pkg -> Entry \cup {None}]
  <2> DEFINE e(p) == [status |-> "installed", want |-> "install", flags |-> {}, auto |-> p \in Needed(S)]
  <2>1. stat = [p \in Pkg |-> IF p \notin S THEN None ELSE e(p)]
    BY <1>2
  <2>2. \A p : e(p) \in Entry
    <3>1. \A p : (p \in Needed(S)) \in BOOLEAN
      BY DEF Needed
    <3>2. \A b \in BOOLEAN : [status |-> "installed", want |-> "install", flags |-> {}, auto |-> b] \in Entry
      BY DEF Entry, Status
    <3>3. QED BY <3>1, <3>2
  <2> HIDE DEF e
  <2>3. QED BY <2>1, <2>2
<1>7. db \in Db
  BY <1>1, GoneIs DEF Init
<1>8. /\ backup = [f \in File |-> None] /\ stack = <<>> /\ ret = 0
      /\ faults = 0 /\ ncommands = 0
  BY <1>1 DEF Init
<1>9. backup \in [File -> Content] /\ <<>> \in Seq(TypedFrames)
  BY <1>8 DEF Content
<1>10. 0 \in 0..MaxFaults /\ 0 \in 0..MaxCommands /\ 0 \in {-1, 0}
  BY FaultsAssumption, CommandsAssumption
<1>11. QED BY <1>4, <1>5, <1>6, <1>7, <1>8, <1>9, <1>10 DEF OpkgTyped

(* The types of all the variables say those of the disk, database and        *)
(* counters.                                                                 *)
LEMMA TypedIsOK == OpkgTyped => TypeOK
BY DEF OpkgTyped, TypeOK, Db

(* The disk, the database and the counters keep their types through all      *)
(* commands, failures, interrupts and crashes, and so do the calls: each     *)
(* works through a list of packages where opkg takes packages from it.       *)
THEOREM OpkgTypes == Spec => [](TypeOK /\ OpkgTyped)
<1>1. Init => OpkgTyped
  BY InitTyped
<1>2. OpkgTyped /\ [Next]_all => OpkgTyped'
  <2>1. SUFFICES ASSUME OpkgTyped, [Next]_all PROVE OpkgTyped'
    OBVIOUS
  <2>2. CASE (RemoveNext \/ InstallNext) /\ UNCHANGED <<ncommands, answer>>
    BY <2>1, <2>2, CallsTyped
  <2>3. CASE ~((RemoveNext \/ InstallNext) /\ UNCHANGED <<ncommands, answer>>)
    BY <2>1, <2>3, CmdInstallTyped, CmdRemoveTyped, CmdEndsTyped, LibInstallTyped, LibUpgradeTyped,
       LibUpgradeNextTyped, ConfigureTyped, SaveTyped, EndsTyped, StartTyped, OutsideTyped
    DEF Next
  <2>4. QED BY <2>2, <2>3
<1>3. QED BY <1>1, <1>2, TypedIsOK, PTL DEF Spec
=============================================================================
