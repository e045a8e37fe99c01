------------------------ MODULE PreparedMemoryProofs ------------------------
(***************************************************************************)
(* Every page has one owner, for any number of objects, guests and pages.   *)
(* The property counts owners and is not inductive: that two of them never  *)
(* list the same page follows from every page carrying the number of the    *)
(* preparation that mapped it, and from no two owners having one number.    *)
(***************************************************************************)
EXTENDS PreparedMemory, FiniteSetTheorems, TLAPS

\* The number of the preparation in progress for a slot, 0 if there is none.
Preparing(s) == IF work[s] = Idle THEN 0 ELSE work[s].number

\* A preparation in progress has all its fields, and a sequence of ranges.
IsSequence(r) == r \in Seq({r[i] : i \in DOMAIN r})
IsPreparation(w) ==
    /\ w = [pc |-> w.pc, index |-> w.index, image |-> w.image, ranges |-> w.ranges,
            number |-> w.number]
    /\ w.pc # "idle" /\ IsSequence(w.ranges)

ShapeInv ==
    /\ begun \in Nat /\ host \in [Pages -> Int] /\ foreign \subseteq Pages
    /\ DOMAIN slot = Slots /\ slot = [s \in Slots |-> slot[s]]
    /\ work = [s \in Slots |-> work[s]]
    /\ \A s \in Slots : work[s] = Idle \/ IsPreparation(work[s])

\* No two owners have the same number.
NumbersInv ==
    /\ \A s \in Slots : slot[s].number \in 0 .. begun /\ Preparing(s) \in 0 .. begun
    /\ \A s \in Slots : work[s] # Idle => Preparing(s) # 0
    /\ \A s, t \in Slots : s # t /\ slot[s].number = slot[t].number => slot[s].number = 0
    /\ \A s, t \in Slots : s # t /\ Preparing(s) = Preparing(t) => Preparing(s) = 0
    /\ \A s, t \in Slots : slot[s].number = Preparing(t) => Preparing(t) = 0

\* An owner lists exactly the pages that carry its number.
PagesInv ==
    /\ \A s \in Slots, page \in Pages :
           page \in Held(s) <=> slot[s].number # 0 /\ host[page] = slot[s].number
    /\ \A s \in Slots, page \in Pages :
           page \in Mapping(s) <=> Preparing(s) # 0 /\ host[page] = Preparing(s)
    /\ \A page \in Pages :
           host[page] \in {Free, Foreign} \/ \E s \in Slots : page \in Held(s) \cup Mapping(s)
    /\ \A page \in foreign : host[page] = Foreign

Inv == ShapeInv /\ NumbersInv /\ PagesInv
-----------------------------------------------------------------------------
\* Ranges of pages.
LEMMA PagesType ==
    /\ \A range : PagesOf(range) \subseteq Pages
    /\ \A ranges : PagesOfAll(ranges) \subseteq Pages
    /\ PagesOfAll(<<>>) = {}
  BY DEF PagesOf, PagesOfAll

\* A range more is its pages more.
LEMMA PagesOfAppend ==
    ASSUME NEW r, IsSequence(r), NEW x
    PROVE  /\ PagesOfAll(Append(r, x)) = PagesOfAll(r) \cup PagesOf(x)
           /\ IsSequence(Append(r, x))
  <1> DEFINE S == {r[i] : i \in DOMAIN r} \cup {x}
  <1>1. r \in Seq(S) /\ x \in S
    BY DEF IsSequence
  <1> HIDE DEF S
  <1>2. /\ DOMAIN Append(r, x) = 1 .. Len(r) + 1 /\ DOMAIN r = 1 .. Len(r) /\ Len(r) \in Nat
        /\ Append(r, x)[Len(r) + 1] = x
        /\ \A i \in 1 .. Len(r) : Append(r, x)[i] = r[i]
    BY <1>1
  <1>3. PagesOfAll(Append(r, x)) = PagesOfAll(r) \cup PagesOf(x)
    BY <1>2 DEF PagesOfAll
  <1>4. Append(r, x) \in Seq({Append(r, x)[i] : i \in DOMAIN Append(r, x)})
    <2>1. {Append(r, x)[i] : i \in DOMAIN Append(r, x)} = S
      BY <1>2 DEF S
    <2> QED
      BY <1>1, <2>1
  <1> QED
    BY <1>3, <1>4 DEF IsSequence
-----------------------------------------------------------------------------
\* A preparation that goes on as the same one keeps what it has mapped.
LEMMA StepKeeps ==
    ASSUME Inv, NEW s \in Slots, NEW pc, NEW index, pc # "idle", work[s].pc # "idle",
           Step(s, pc, index), UNCHANGED <<host, slot, begun, foreign>>
    PROVE  Inv'
  <1>1. IsPreparation(work[s]) /\ work[s] # Idle
    BY DEF Inv, ShapeInv, Idle
  <1>2. work' = [work EXCEPT ![s] = [work[s] EXCEPT !.pc = pc, !.index = index]]
    BY DEF Step, Inv, ShapeInv
  <1>3. work'[s] = [pc |-> pc, index |-> index, image |-> work[s].image,
                    ranges |-> work[s].ranges, number |-> work[s].number]
    BY <1>1, <1>2 DEF IsPreparation, Inv, ShapeInv
  <1>4. IsPreparation(work'[s]) /\ work'[s] # Idle
    BY <1>1, <1>3 DEF IsPreparation, Idle
  <1>5. /\ work' = [t \in Slots |-> work'[t]]
        /\ \A t \in Slots : t # s => work'[t] = work[t]
    BY <1>2 DEF Inv, ShapeInv
  <1>6. \A t \in Slots : /\ Preparing(t)' = Preparing(t) /\ Mapping(t)' = Mapping(t)
                         /\ Held(t)' = Held(t)
    BY <1>1, <1>3, <1>4, <1>5 DEF Preparing, Mapping, Held
  <1>7. ShapeInv'
    BY <1>4, <1>5 DEF Inv, ShapeInv
  <1>8. NumbersInv'
    BY <1>4, <1>5, <1>6, <1>1 DEF Inv, NumbersInv
  <1>9. PagesInv'
    BY <1>6 DEF Inv, PagesInv
  <1> QED
    BY <1>7, <1>8, <1>9 DEF Inv

\* The preparation of s has one range more.
Extend(s, range, pc, index) ==
    work' = [work EXCEPT ![s].ranges = Append(@, range), ![s].pc = pc, ![s].index = index]

\* A preparation that maps a free range owns the range as well.
LEMMA TakeKeeps ==
    ASSUME Inv, NEW s \in Slots, NEW range, NEW pc, NEW index, pc # "idle",
           work[s].pc # "idle", Available(range), host' = Taken(range, work[s].number),
           Extend(s, range, pc, index), UNCHANGED <<slot, begun, foreign>>
    PROVE  Inv'
  <1> DEFINE more == Append(work[s].ranges, range)
  <1>1. IsPreparation(work[s]) /\ work[s] # Idle
    BY DEF Inv, ShapeInv, Idle
  <1>2. work' = [work EXCEPT ![s] = [work[s] EXCEPT !.ranges = more, !.pc = pc,
                                                    !.index = index]]
    BY DEF Extend, Inv, ShapeInv
  <1>3. work'[s] = [pc |-> pc, index |-> index, image |-> work[s].image,
                    ranges |-> more, number |-> work[s].number]
    BY <1>1, <1>2 DEF IsPreparation, Inv, ShapeInv
  <1>4. /\ PagesOfAll(more) = PagesOfAll(work[s].ranges) \cup PagesOf(range)
        /\ IsSequence(more)
    BY <1>1, PagesOfAppend DEF IsPreparation
  <1> HIDE DEF more
  <1>5. IsPreparation(work'[s]) /\ work'[s] # Idle
    BY <1>3, <1>4 DEF IsPreparation, Idle
  <1>6. /\ work' = [t \in Slots |-> work'[t]]
        /\ \A t \in Slots : t # s => work'[t] = work[t]
    BY <1>2 DEF Inv, ShapeInv
  <1>7. \A t \in Slots : Preparing(t)' = Preparing(t) /\ Held(t)' = Held(t)
    BY <1>1, <1>3, <1>5, <1>6 DEF Preparing, Held
  <1>8. \A t \in Slots : Mapping(t)' = IF t = s THEN Mapping(t) \cup PagesOf(range)
                                       ELSE Mapping(t)
    BY <1>1, <1>3, <1>4, <1>5, <1>6 DEF Mapping
  <1>9. Preparing(s) = work[s].number /\ Preparing(s) \in Nat \ {0}
    BY <1>1 DEF Preparing, Inv, NumbersInv, ShapeInv
  <1>10. \A page \in Pages : host'[page] = IF page \in PagesOf(range) THEN Preparing(s)
                                           ELSE host[page]
    BY <1>9 DEF Taken
  <1>11. \A page \in PagesOf(range) : page \in Pages /\ host[page] = 0
    BY PagesType DEF Available, Free
  <1>12. ShapeInv'
    <2>1. host' \in [Pages -> Int]
      BY <1>9 DEF Taken, Inv, ShapeInv
    <2> QED
      BY <1>5, <1>6, <2>1 DEF Inv, ShapeInv
  <1>13. NumbersInv'
    BY <1>1, <1>5, <1>6, <1>7 DEF Inv, NumbersInv
  <1>14. PagesInv'
    <2> USE DEF Inv, PagesInv, NumbersInv, ShapeInv, Free, Foreign
    <2>1. \A t \in Slots, page \in Pages :
              (page \in Held(t) <=> slot[t].number # 0 /\ host[page] = slot[t].number)'
      BY <1>7, <1>9, <1>10, <1>11
    <2>2. \A t \in Slots, page \in Pages :
              (page \in Mapping(t) <=> Preparing(t) # 0 /\ host[page] = Preparing(t))'
      <3> SUFFICES ASSUME NEW t \in Slots, NEW page \in Pages
                   PROVE  page \in Mapping(t)'
                              <=> Preparing(t)' # 0 /\ host'[page] = Preparing(t)'
        OBVIOUS
      <3>1. CASE page \in PagesOf(range)
        BY <1>7, <1>8, <1>9, <1>10, <1>11, <3>1
      <3>2. CASE page \notin PagesOf(range)
        BY <1>7, <1>8, <1>10, <3>2
      <3> QED
        BY <3>1, <3>2
    <2>3. \A page \in Pages : \/ host'[page] \in {Free, Foreign}
                              \/ \E t \in Slots : page \in Held(t)' \cup Mapping(t)'
      BY <1>7, <1>8, <1>9, <1>10, <1>11
    <2>4. \A page \in foreign' : host'[page] = Foreign
      BY <1>10, <1>11
    <2> QED
      BY <2>1, <2>2, <2>3, <2>4
  <1> QED
    BY <1>12, <1>13, <1>14 DEF Inv

\* fail_with_cleanup: a preparation that fails gives back its pages and no others.
LEMMA FailKeeps ==
    ASSUME Inv, NEW s \in Slots, work[s].pc # "idle", Fail(s),
           UNCHANGED <<slot, begun, foreign>>
    PROVE  Inv'
  <1>1. work[s] # Idle
    BY DEF Idle
  <1>2. /\ work' = [t \in Slots |-> work'[t]] /\ work'[s] = Idle
        /\ \A t \in Slots : t # s => work'[t] = work[t]
    BY DEF Fail, Inv, ShapeInv
  <1>3. \A t \in Slots : /\ Preparing(t)' = IF t = s THEN 0 ELSE Preparing(t)
                         /\ Mapping(t)' = IF t = s THEN {} ELSE Mapping(t)
                         /\ Held(t)' = Held(t)
    BY <1>2 DEF Preparing, Mapping, Held
  <1>4. \A page \in Pages : host'[page] = IF page \in Mapping(s) THEN 0 ELSE host[page]
    BY <1>1 DEF Fail, Unmap, Mapping, Free
  <1>5. host' \in [Pages -> Int]
    BY DEF Fail, Unmap, Free, Inv, ShapeInv
  <1>6. ShapeInv'
    BY <1>2, <1>5 DEF Inv, ShapeInv
  <1>7. NumbersInv'
    BY <1>2, <1>3 DEF Inv, NumbersInv, ShapeInv
  <1>8. PagesInv'
    <2> USE DEF Inv, PagesInv, NumbersInv, ShapeInv, Free, Foreign
    <2>1. \A t \in Slots, page \in Pages :
              (page \in Held(t) <=> slot[t].number # 0 /\ host[page] = slot[t].number)'
      BY <1>3, <1>4
    <2>2. \A t \in Slots, page \in Pages :
              (page \in Mapping(t) <=> Preparing(t) # 0 /\ host[page] = Preparing(t))'
      BY <1>3, <1>4
    <2>3. \A page \in Pages : \/ host'[page] \in {Free, Foreign}
                              \/ \E t \in Slots : page \in Held(t)' \cup Mapping(t)'
      BY <1>3, <1>4
    <2>4. \A page \in foreign' : host'[page] = Foreign
      BY <1>4
    <2> QED
      BY <2>1, <2>2, <2>3, <2>4
  <1> QED
    BY <1>6, <1>7, <1>8 DEF Inv

\* Assigning a finished preparation resets the object it replaces.
LEMMA PublishKeeps ==
    ASSUME Inv, NEW s \in Slots, work[s].pc # "idle", NEW value,
           Unmap(slot[s].ranges),
           slot' = [slot EXCEPT ![s] = [number |-> work[s].number, image |-> work[s].image,
                                        ranges |-> work[s].ranges, epoch |-> value]],
           work' = [work EXCEPT ![s] = Idle], UNCHANGED <<begun, foreign>>
    PROVE  Inv'
  <1>1. work[s] # Idle
    BY DEF Idle
  <1>2. /\ work' = [t \in Slots |-> work'[t]] /\ work'[s] = Idle
        /\ \A t \in Slots : t # s => work'[t] = work[t]
    BY DEF Inv, ShapeInv
  <1>3. /\ slot' = [t \in Slots |-> slot'[t]] /\ DOMAIN slot' = Slots
        /\ slot'[s].number = work[s].number /\ slot'[s].ranges = work[s].ranges
        /\ \A t \in Slots : t # s => slot'[t] = slot[t]
    BY DEF Inv, ShapeInv
  <1>4. \A t \in Slots :
            /\ Preparing(t)' = IF t = s THEN 0 ELSE Preparing(t)
            /\ Mapping(t)' = IF t = s THEN {} ELSE Mapping(t)
            /\ Held(t)' = IF t = s THEN Mapping(t) ELSE Held(t)
            /\ slot'[t].number = IF t = s THEN Preparing(t) ELSE slot[t].number
    BY <1>1, <1>2, <1>3 DEF Preparing, Mapping, Held
  <1>5. \A page \in Pages : host'[page] = IF page \in Held(s) THEN 0 ELSE host[page]
    BY DEF Unmap, Held, Free
  <1>6. host' \in [Pages -> Int]
    BY DEF Unmap, Free, Inv, ShapeInv
  <1>7. ShapeInv'
    BY <1>2, <1>3, <1>6 DEF Inv, ShapeInv
  <1>8. NumbersInv'
    BY <1>2, <1>4 DEF Inv, NumbersInv, ShapeInv
  <1>9. PagesInv'
    <2> USE DEF Inv, PagesInv, NumbersInv, ShapeInv, Free, Foreign
    <2>1. \A u \in Slots, page \in Pages :
              (page \in Held(u) <=> slot[u].number # 0 /\ host[page] = slot[u].number)'
      <3> SUFFICES ASSUME NEW u \in Slots, NEW page \in Pages
                   PROVE  page \in Held(u)'
                              <=> slot'[u].number # 0 /\ host'[page] = slot'[u].number
        OBVIOUS
      <3>1. CASE u = s
        BY <1>4, <1>5, <3>1
      <3>2. CASE u # s /\ page \in Held(s)
        BY <1>4, <1>5, <3>2
      <3>3. CASE u # s /\ page \notin Held(s)
        <4>1. /\ host'[page] = host[page] /\ Held(u)' = Held(u)
              /\ slot'[u].number = slot[u].number
          BY <1>4, <1>5, <3>3
        <4>2. page \in Held(u) <=> slot[u].number # 0 /\ host[page] = slot[u].number
          OBVIOUS
        <4> QED
          BY <4>1, <4>2
      <3> QED
        BY <3>1, <3>2, <3>3
    <2>2. \A u \in Slots, page \in Pages :
              (page \in Mapping(u) <=> Preparing(u) # 0 /\ host[page] = Preparing(u))'
      <3> SUFFICES ASSUME NEW u \in Slots, NEW page \in Pages
                   PROVE  page \in Mapping(u)'
                              <=> Preparing(u)' # 0 /\ host'[page] = Preparing(u)'
        OBVIOUS
      <3>1. CASE u = s
        BY <1>4, <1>5, <3>1
      <3>2. CASE u # s
        BY <1>4, <1>5, <3>2
      <3> QED
        BY <3>1, <3>2
    <2>3. \A page \in Pages : \/ host'[page] \in {Free, Foreign}
                              \/ \E u \in Slots : page \in Held(u)' \cup Mapping(u)'
      BY <1>4, <1>5
    <2>4. \A page \in foreign' : host'[page] = Foreign
      BY <1>4, <1>5
    <2> QED
      BY <2>1, <2>2, <2>3, <2>4
  <1> QED
    BY <1>7, <1>8, <1>9 DEF Inv

\* A move hands over the pages of the source and gives back those of the target.
LEMMA MoveKeeps ==
    ASSUME Inv, NEW s \in Slots, NEW t \in Slots, MoveAssign(s, t)
    PROVE  Inv'
  <1>1. /\ slot' = [u \in Slots |-> slot'[u]] /\ DOMAIN slot' = Slots /\ s # t
        /\ slot'[t] = slot[s] /\ slot'[s] = Empty
        /\ \A u \in Slots : u # s /\ u # t => slot'[u] = slot[u]
    BY DEF MoveAssign, Inv, ShapeInv
  <1>2. \A u \in Slots :
            /\ Preparing(u)' = Preparing(u) /\ Mapping(u)' = Mapping(u)
            /\ Held(u)' = IF u = s THEN {} ELSE IF u = t THEN Held(s) ELSE Held(u)
            /\ slot'[u].number = IF u = s THEN 0 ELSE IF u = t THEN slot[s].number
                                 ELSE slot[u].number
    BY <1>1, PagesType DEF MoveAssign, Preparing, Mapping, Held, Empty
  <1>3. \A page \in Pages : host'[page] = IF page \in Held(t) THEN 0 ELSE host[page]
    BY DEF MoveAssign, Unmap, Held, Free
  <1>4. host' \in [Pages -> Int]
    BY DEF MoveAssign, Unmap, Free, Inv, ShapeInv
  <1>5. UNCHANGED <<work, begun, foreign>>
    BY DEF MoveAssign
  <1>6. ShapeInv'
    BY <1>1, <1>4, <1>5 DEF Inv, ShapeInv
  <1>7. NumbersInv'
    BY <1>1, <1>2, <1>5 DEF Inv, NumbersInv, ShapeInv
  <1>8. PagesInv'
    <2> USE DEF Inv, PagesInv, NumbersInv, ShapeInv, Free, Foreign
    <2>1. \A u \in Slots, page \in Pages :
              (page \in Held(u) <=> slot[u].number # 0 /\ host[page] = slot[u].number)'
      BY <1>1, <1>2, <1>3, <1>5
    <2>2. \A u \in Slots, page \in Pages :
              (page \in Mapping(u) <=> Preparing(u) # 0 /\ host[page] = Preparing(u))'
      BY <1>1, <1>2, <1>3, <1>5
    <2>3. \A page \in Pages : \/ host'[page] \in {Free, Foreign}
                              \/ \E u \in Slots : page \in Held(u)' \cup Mapping(u)'
      BY <1>1, <1>2, <1>3, <1>5
    <2>4. \A page \in foreign' : host'[page] = Foreign
      BY <1>1, <1>2, <1>3, <1>5
    <2> QED
      BY <2>1, <2>2, <2>3, <2>4
  <1> QED
    BY <1>6, <1>7, <1>8 DEF Inv

\* Releasing an object gives back its pages.
LEMMA ReleaseKeeps ==
    ASSUME Inv, NEW s \in Slots, Release(s)
    PROVE  Inv'
  <1>1. /\ slot' = [u \in Slots |-> slot'[u]] /\ DOMAIN slot' = Slots /\ slot'[s] = Empty
        /\ \A u \in Slots : u # s => slot'[u] = slot[u]
    BY DEF Release, Inv, ShapeInv
  <1>2. \A u \in Slots :
            /\ Preparing(u)' = Preparing(u) /\ Mapping(u)' = Mapping(u)
            /\ Held(u)' = IF u = s THEN {} ELSE Held(u)
            /\ slot'[u].number = IF u = s THEN 0 ELSE slot[u].number
    BY <1>1, PagesType DEF Release, Preparing, Mapping, Held, Empty
  <1>3. \A page \in Pages : host'[page] = IF page \in Held(s) THEN 0 ELSE host[page]
    BY DEF Release, Unmap, Held, Free
  <1>4. host' \in [Pages -> Int]
    BY DEF Release, Unmap, Free, Inv, ShapeInv
  <1>5. UNCHANGED <<work, begun, foreign>>
    BY DEF Release
  <1>6. ShapeInv'
    BY <1>1, <1>4, <1>5 DEF Inv, ShapeInv
  <1>7. NumbersInv'
    BY <1>2, <1>5 DEF Inv, NumbersInv, ShapeInv
  <1>8. PagesInv'
    <2> USE DEF Inv, PagesInv, NumbersInv, ShapeInv, Free, Foreign
    <2>1. \A u \in Slots, page \in Pages :
              (page \in Held(u) <=> slot[u].number # 0 /\ host[page] = slot[u].number)'
      BY <1>2, <1>3, <1>5
    <2>2. \A u \in Slots, page \in Pages :
              (page \in Mapping(u) <=> Preparing(u) # 0 /\ host[page] = Preparing(u))'
      BY <1>2, <1>3, <1>5
    <2>3. \A page \in Pages : \/ host'[page] \in {Free, Foreign}
                              \/ \E u \in Slots : page \in Held(u)' \cup Mapping(u)'
      BY <1>2, <1>3, <1>5
    <2>4. \A page \in foreign' : host'[page] = Foreign
      BY <1>2, <1>3, <1>5
    <2> QED
      BY <2>1, <2>2, <2>3, <2>4
  <1> QED
    BY <1>6, <1>7, <1>8 DEF Inv

\* A preparation begins with a new number and no pages.
LEMMA BeginKeeps ==
    ASSUME Inv, NEW s \in Slots, BeginPrepare(s)
    PROVE  Inv'
  <1>1. PICK image : work' = [work EXCEPT ![s] = [pc |-> "mapping", index |-> 1,
                                 image |-> image, ranges |-> <<>>, number |-> begun + 1]]
    BY DEF BeginPrepare
  <1>2. /\ work' = [t \in Slots |-> work'[t]]
        /\ work'[s] = [pc |-> "mapping", index |-> 1, image |-> image, ranges |-> <<>>,
                       number |-> begun + 1]
        /\ \A t \in Slots : t # s => work'[t] = work[t]
    BY <1>1 DEF Inv, ShapeInv
  <1>3. IsPreparation(work'[s]) /\ work'[s] # Idle
    BY <1>2 DEF IsPreparation, IsSequence, Idle
  <1>4. work[s] = Idle /\ begun' = begun + 1 /\ UNCHANGED <<host, slot, foreign>>
    BY DEF BeginPrepare
  <1>5. \A t \in Slots : /\ Preparing(t)' = IF t = s THEN begun + 1 ELSE Preparing(t)
                         /\ Mapping(t)' = Mapping(t) /\ Held(t)' = Held(t)
    <2>1. work'[s].number = begun + 1 /\ work'[s].ranges = <<>>
      BY <1>2
    <2>2. Preparing(s)' = begun + 1 /\ Mapping(s)' = Mapping(s)
      BY <1>3, <1>4, <2>1, PagesType DEF Preparing, Mapping
    <2>3. \A t \in Slots : t # s => Preparing(t)' = Preparing(t) /\ Mapping(t)' = Mapping(t)
      BY <1>2 DEF Preparing, Mapping
    <2> QED
      BY <1>4, <2>2, <2>3 DEF Held
  <1>6. ShapeInv'
    BY <1>2, <1>3, <1>4 DEF Inv, ShapeInv
  <1>7. NumbersInv'
    <2> USE DEF Inv, NumbersInv, ShapeInv
    <2>1. \A t \in Slots : slot'[t].number \in 0 .. begun' /\ Preparing(t)' \in 0 .. begun'
      BY <1>4, <1>5
    <2>2. \A t \in Slots : work'[t] # Idle => Preparing(t)' # 0
      BY <1>2, <1>4, <1>5
    <2>3. \A t, u \in Slots :
              t # u /\ Preparing(t)' = Preparing(u)' => Preparing(t)' = 0
      BY <1>4, <1>5
    <2>4. \A t, u \in Slots : slot'[t].number = Preparing(u)' => Preparing(u)' = 0
      BY <1>4, <1>5
    <2> QED
      BY <1>4, <2>1, <2>2, <2>3, <2>4
  <1>8. Preparing(s) = 0 /\ \A page \in Pages : host[page] # begun + 1
    <2>1. Preparing(s) = 0
      BY <1>4 DEF Preparing
    <2>2. \A page \in Pages : host[page] # begun + 1
      BY DEF Inv, PagesInv, NumbersInv, ShapeInv, Free, Foreign
    <2> QED
      BY <2>1, <2>2
  <1>9. PagesInv'
    <2> USE DEF Inv, PagesInv, NumbersInv, ShapeInv, Free, Foreign
    <2>1. \A u \in Slots, page \in Pages :
              (page \in Held(u) <=> slot[u].number # 0 /\ host[page] = slot[u].number)'
      BY <1>4, <1>5, <1>8
    <2>2. \A u \in Slots, page \in Pages :
              (page \in Mapping(u) <=> Preparing(u) # 0 /\ host[page] = Preparing(u))'
      BY <1>4, <1>5, <1>8
    <2>3. \A page \in Pages : \/ host'[page] \in {Free, Foreign}
                              \/ \E u \in Slots : page \in Held(u)' \cup Mapping(u)'
      BY <1>4, <1>5, <1>8
    <2>4. \A page \in foreign' : host'[page] = Foreign
      BY <1>4, <1>5, <1>8
    <2> QED
      BY <2>1, <2>2, <2>3, <2>4
  <1> QED
    BY <1>6, <1>7, <1>9 DEF Inv

\* Other code only maps pages nobody owns.
LEMMA HostMapsKeeps ==
    ASSUME Inv, HostMaps
    PROVE  Inv'
  <1>1. PICK new \in HostPages : /\ host[new] = Free
                                 /\ host' = [host EXCEPT ![new] = Foreign]
                                 /\ foreign' = foreign \cup {new}
    BY DEF HostMaps
  <1>2. new \in Pages
    BY HostPagesAssumption
  <1>3. UNCHANGED <<slot, work, begun>>
    BY DEF HostMaps
  <1>4. \A u \in Slots : /\ Preparing(u)' = Preparing(u) /\ Mapping(u)' = Mapping(u)
                         /\ Held(u)' = Held(u)
    BY <1>3 DEF Preparing, Mapping, Held
  <1>5. ShapeInv' /\ NumbersInv'
    BY <1>1, <1>2, <1>3, <1>4 DEF Inv, ShapeInv, NumbersInv, Foreign
  <1>6. \A page \in Pages : host'[page] = IF page = new THEN Foreign ELSE host[page]
    BY <1>1 DEF Inv, ShapeInv
  <1>7. PagesInv'
    <2> USE DEF Inv, PagesInv, NumbersInv, ShapeInv, Free, Foreign
    <2>1. \A u \in Slots, page \in Pages :
              (page \in Held(u) <=> slot[u].number # 0 /\ host[page] = slot[u].number)'
      BY <1>1, <1>2, <1>3, <1>4, <1>6
    <2>2. \A u \in Slots, page \in Pages :
              (page \in Mapping(u) <=> Preparing(u) # 0 /\ host[page] = Preparing(u))'
      BY <1>1, <1>2, <1>3, <1>4, <1>6
    <2>3. \A page \in Pages : \/ host'[page] \in {Free, Foreign}
                              \/ \E u \in Slots : page \in Held(u)' \cup Mapping(u)'
      BY <1>1, <1>2, <1>3, <1>4, <1>6
    <2>4. \A page \in foreign' : host'[page] = Foreign
      BY <1>1, <1>2, <1>3, <1>4, <1>6
    <2> QED
      BY <2>1, <2>2, <2>3, <2>4
  <1> QED
    BY <1>5, <1>7 DEF Inv

\* Nothing is owned when the process starts.
LEMMA Initially == Init => Inv
  <1> SUFFICES ASSUME Init PROVE Inv
    OBVIOUS
  <1>1. \A s \in Slots : /\ slot[s] = Empty /\ work[s] = Idle /\ Preparing(s) = 0
                         /\ Held(s) = {} /\ Mapping(s) = {} /\ slot[s].number = 0
    BY PagesType DEF Init, Preparing, Held, Mapping, Empty
  <1>2. ShapeInv
    BY <1>1 DEF Init, ShapeInv, Free
  <1>3. NumbersInv
    BY <1>1 DEF Init, NumbersInv
  <1>4. PagesInv
    BY <1>1 DEF Init, PagesInv, Free, Foreign
  <1> QED
    BY <1>2, <1>3, <1>4 DEF Inv

\* The steps of a preparation.
LEMMA PreparationKeeps ==
    ASSUME Inv, NEW s \in Slots,
           \/ MapOne(s) \/ ReserveOne(s) \/ CommitOne(s) \/ CopyImage(s) \/ ProtectOne(s)
           \/ Publish(s)
    PROVE  Inv'
  <1>1. ASSUME Fail(s), work[s].pc # "idle", UNCHANGED <<slot, begun, foreign>>
        PROVE  Inv'
    BY <1>1, FailKeeps
  <1>2. CASE MapOne(s)
    <2> DEFINE i == work[s].index
               regions == RegionsOf(work[s])
               pc == IF i = Len(regions) THEN "copying" ELSE work[s].pc
               index == IF i = Len(regions) THEN 1 ELSE i + 1
    <2>1. CASE Fail(s)
      BY <1>1, <1>2, <2>1 DEF MapOne
    <2>2. CASE ~Fail(s)
      <3>1. Extend(s, regions[i].range, pc, index)
        BY <1>2, <2>2 DEF MapOne, Extend, Inv, ShapeInv
      <3>2. /\ Available(regions[i].range) /\ pc # "idle" /\ work[s].pc # "idle"
            /\ host' = Taken(regions[i].range, work[s].number)
            /\ UNCHANGED <<slot, begun, foreign>>
        BY <1>2, <2>2 DEF MapOne
      <3> QED
        BY <3>1, <3>2, TakeKeeps
    <2> QED
      BY <2>1, <2>2
  <1>3. CASE ReserveOne(s)
    <2> DEFINE i == work[s].index
               reservations == Guests[work[s].image].reservations.value
               pc == IF i = Len(reservations) THEN "committing" ELSE work[s].pc
               index == IF i = Len(reservations) THEN 1 ELSE i + 1
    <2>1. CASE Fail(s)
      BY <1>1, <1>3, <2>1 DEF ReserveOne
    <2>2. CASE ~Fail(s)
      <3>1. Extend(s, reservations[i], pc, index)
        BY <1>3, <2>2 DEF ReserveOne, Extend, Inv, ShapeInv
      <3>2. /\ Available(reservations[i]) /\ pc # "idle" /\ work[s].pc # "idle"
            /\ host' = Taken(reservations[i], work[s].number)
            /\ UNCHANGED <<slot, begun, foreign>>
        BY <1>3, <2>2 DEF ReserveOne
      <3> QED
        BY <3>1, <3>2, TakeKeeps
    <2> QED
      BY <2>1, <2>2
  <1>4. CASE CommitOne(s)
    BY <1>1, <1>4, StepKeeps DEF CommitOne
  <1>5. CASE CopyImage(s)
    BY <1>1, <1>5, StepKeeps DEF CopyImage
  <1>6. CASE ProtectOne(s)
    BY <1>1, <1>6, StepKeeps DEF ProtectOne
  <1>7. CASE Publish(s)
    <2>1. CASE next_prepared_mapping_epoch.value = 0
      BY <1>1, <1>7, <2>1 DEF Publish
    <2>2. CASE next_prepared_mapping_epoch.value # 0
      BY <1>7, <2>2, PublishKeeps DEF Publish
    <2> QED
      BY <2>1, <2>2
  <1> QED
    BY <1>2, <1>3, <1>4, <1>5, <1>6, <1>7

\* Accesses, the registry and imports own no memory.
LEMMA OthersKeep ==
    ASSUME Inv, UNCHANGED memory
    PROVE  Inv'
  BY DEF memory, Inv, ShapeInv, NumbersInv, PagesInv, Preparing, Held, Mapping

\* Every step keeps the invariant.
LEMMA Inductive == Inv /\ [Next]_vars => Inv'
  <1> SUFFICES ASSUME Inv, [Next]_vars PROVE Inv'
    OBVIOUS
  <1>1. CASE RegisterProvider \/ Retire \/ BindImports \/ UNCHANGED vars
    <2>1. UNCHANGED memory
      BY <1>1 DEF RegisterProvider, Retire, BindImports, vars
    <2> QED
      BY <2>1, OthersKeep
  <1>2. CASE HostMaps
    BY <1>2, HostMapsKeeps
  <1>3. ASSUME NEW s \in Slots, MakeAccess(s)
        PROVE  Inv'
    BY <1>3, OthersKeep DEF MakeAccess
  <1> QED
    BY <1>1, <1>2, <1>3, BeginKeeps, PreparationKeeps, ReleaseKeeps, MoveKeeps DEF Next

\* The invariant holds throughout.
LEMMA Invariance == Spec => []Inv
  BY Initially, Inductive, PTL DEF Spec
-----------------------------------------------------------------------------
\* Counting no owner and one.
LEMMA Counting == Cardinality({}) = 0 /\ \A x : Cardinality({x}) = 1
  BY FS_EmptySet, FS_Singleton

\* prepare_linux_guest_memory, prepare_windows_guest_memory, their cleanup and the
\* moves of the objects: for any guests and any number of objects and concurrent
\* preparations, every page is listed by exactly the one owner it was mapped for.
THEOREM PreparedPagesHaveOneOwner == Spec => []PagesHaveOneOwner
  <1>1. Inv => PagesHaveOneOwner
    <2> SUFFICES ASSUME Inv PROVE PagesHaveOneOwner
      OBVIOUS
    <2> DEFINE holders(page) == {s \in Slots : page \in Held(s)}
               mappers(page) == {s \in Slots : page \in Mapping(s)}
    <2>1. ASSUME NEW page \in Pages
          PROVE  Cardinality(holders(page)) + Cardinality(mappers(page))
                     = (IF host[page] \in {Free, Foreign} THEN 0 ELSE 1)
      <3>1. CASE host[page] \in {Free, Foreign}
        <4>1. holders(page) = {} /\ mappers(page) = {}
          BY <2>1, <3>1 DEF Inv, PagesInv, NumbersInv, ShapeInv, Free, Foreign
        <4> HIDE DEF holders, mappers
        <4>2. Cardinality(holders(page)) = 0 /\ Cardinality(mappers(page)) = 0
          BY <4>1, Counting
        <4> QED
          BY <3>1, <4>2
      <3>2. ASSUME NEW s \in Slots, page \in Held(s)
            PROVE  Cardinality(holders(page)) + Cardinality(mappers(page))
                       = (IF host[page] \in {Free, Foreign} THEN 0 ELSE 1)
        <4>1. holders(page) = {s} /\ mappers(page) = {} /\ host[page] \notin {Free, Foreign}
          BY <2>1, <3>2 DEF Inv, PagesInv, NumbersInv, ShapeInv, Free, Foreign
        <4> HIDE DEF holders, mappers
        <4>2. Cardinality(holders(page)) = 1
          <5>1. Cardinality({s}) = 1
            BY Counting
          <5>2. holders(page) = {s}
            BY <4>1
          <5>3. Cardinality(holders(page)) = Cardinality({s})
            BY <5>2
          <5> QED
            BY <5>1, <5>3
        <4>3. Cardinality(mappers(page)) = 0
          BY <4>1, Counting
        <4> QED
          BY <4>1, <4>2, <4>3
      <3>3. ASSUME NEW s \in Slots, page \in Mapping(s)
            PROVE  Cardinality(holders(page)) + Cardinality(mappers(page))
                       = (IF host[page] \in {Free, Foreign} THEN 0 ELSE 1)
        <4>1. holders(page) = {} /\ mappers(page) = {s} /\ host[page] \notin {Free, Foreign}
          BY <2>1, <3>3 DEF Inv, PagesInv, NumbersInv, ShapeInv, Free, Foreign
        <4> HIDE DEF holders, mappers
        <4>2. Cardinality(mappers(page)) = 1
          <5>1. Cardinality({s}) = 1
            BY Counting
          <5>2. mappers(page) = {s}
            BY <4>1
          <5>3. Cardinality(mappers(page)) = Cardinality({s})
            BY <5>2
          <5> QED
            BY <5>1, <5>3
        <4>3. Cardinality(holders(page)) = 0
          BY <4>1, Counting
        <4> QED
          BY <4>1, <4>2, <4>3
      <3>4. \/ host[page] \in {Free, Foreign}
            \/ \E s \in Slots : page \in Held(s) \/ page \in Mapping(s)
        BY <2>1 DEF Inv, PagesInv
      <3> HIDE DEF holders, mappers
      <3> QED
        BY <3>1, <3>2, <3>3, <3>4
    <2> DEFINE held == [s \in Slots |-> Held(s)]
               mapping == [s \in Slots |-> Mapping(s)]
    <2>2. ASSUME NEW page \in Pages
          PROVE  /\ {s \in Slots : page \in held[s]} = holders(page)
                 /\ {s \in Slots : page \in mapping[s]} = mappers(page)
      OBVIOUS
    <2>3. \A page \in foreign : host[page] = Foreign
      BY DEF Inv, PagesInv
    <2>4. \A page \in Pages :
              Cardinality({s \in Slots : page \in held[s]})
              + Cardinality({s \in Slots : page \in mapping[s]})
                  = (IF host[page] \in {Free, Foreign} THEN 0 ELSE 1)
      <3> HIDE DEF holders, mappers, held, mapping
      <3> QED
        BY <2>1, <2>2
    <2> QED
      BY <2>3, <2>4 DEF PagesHaveOneOwner
  <1> QED
    BY Invariance, <1>1, PTL
=============================================================================
