----------------------------- MODULE GroupsProofs -----------------------------
(***************************************************************************)
(* for_each executes no index twice and the waits for groups and           *)
(* containers are over only when they should be, for every concurrency,    *)
(* every length of the ranges and every number of paras and waits.  And    *)
(* what then() hands on are values that were set.                          *)
(***************************************************************************)
EXTENDS Functionflow, SequenceTheorems, TLAPS

GroupsAssumption == Concurrency \in Nat \ {0} /\ Counts \subseteq Nat

-----------------------------------------------------------------------------
(***************************************************************************)
(* The inductive invariant.                                                *)
(***************************************************************************)

Para == [range : Nat, from : Nat, to : Nat, state : {"init", "empty", "run", "over"}]
Wait == [sort : {"all", "any"}, list : Nat, es : {"wait", "over", "thrown"}, saw : Seq(Nat)]
Ps   == 1 .. Len(paras)
Tallies == UNION {[0 .. n - 1 -> Nat] : n \in Nat}
Calls   == [at : {"idle", "split", "destroy", "gone"}, iterator : {"random", "general"},
            me : CallerIds \cup {0}, end : Nat, t : Nat, thrd : Nat, counter : Nat]

TypeOK ==
  /\ kind \in {"group", "container"}
  /\ lists \in Seq(Seq(Nat)) /\ entities \in 0 .. Len(lists)
  /\ paras \in Seq(Para)
  /\ done \in Seq(Tallies)
  /\ call \in Calls
  /\ waits \in Seq(Wait)

\* Each list of a group has the paras of one range; a container has one list.
Lists ==
  /\ kind = "group" =>
       /\ Len(lists) = Len(done)
       /\ \A p \in Ps : paras[p].range \in 1 .. Len(done)
       /\ \A k \in 1 .. Len(lists) : Range(lists[k]) = {p \in Ps : paras[p].range = k}
  /\ kind = "container" =>
       /\ Len(lists) = 1 /\ entities = 1 /\ done = <<>> /\ call.at = "idle"
       /\ \A p \in Ps : paras[p].range = 0
       /\ Range(lists[1]) \subseteq Ps

\* The range that for_each cuts is the last one; what was cut lies below t.
Cutting(r) == call.at = "split" /\ r = Len(done)
Cut ==
  call.at = "split" =>
    /\ kind = "group" /\ entities = Len(lists) /\ Len(done) > 0
    /\ DOMAIN done[Len(done)] = 0 .. call.end - 1 /\ call.t <= call.end
    /\ \A p \in Ps : paras[p].range = Len(done) => paras[p].to <= call.t

\* The chunk of a para has the index i of range r.
Owns(p, r, i) == paras[p].range = r /\ paras[p].from <= i /\ i < paras[p].to

Disjoint ==
  \A p, q \in Ps : p # q /\ paras[p].range = paras[q].range /\ paras[p].range # 0 =>
    paras[p].to <= paras[q].from \/ paras[q].to <= paras[p].from

\* An index was executed once if its para is over, or if it has none and is not
\* in what is still being cut; otherwise not at all.
Tally ==
  \A r \in 1 .. Len(done) : \A i \in DOMAIN done[r] :
    /\ \A p \in Ps : Owns(p, r, i) => done[r][i] = IF paras[p].state = "over" THEN 1 ELSE 0
    /\ (\A p \in Ps : ~Owns(p, r, i)) =>
         IF Cutting(r) THEN done[r][i] = 0 /\ call.t <= i ELSE done[r][i] = 1

\* What a wait saw is of its list, and over; before it is over it saw nothing.
Waited ==
  \A w \in 1 .. Len(waits) :
    /\ waits[w].es # "over" => waits[w].saw = <<>>
    /\ waits[w].list <= Len(lists) /\ ~Cutting(waits[w].list)
    /\ \A p \in Range(waits[w].saw) : p \in Ps /\ paras[p].range \in {0, waits[w].list}
    /\ waits[w].es = "over" /\ waits[w].sort = "all" =>
         /\ \A p \in Range(waits[w].saw) : paras[p].state = "over"
         /\ kind = "group" => \A p \in Ps : paras[p].range = waits[w].list => paras[p].state = "over"
    /\ waits[w].es = "over" /\ waits[w].sort = "any" /\ waits[w].saw # <<>> =>
         \E p \in Range(waits[w].saw) : paras[p].state = "over"

GroupsInv == TypeOK /\ Lists /\ Cut /\ Disjoint /\ Tally /\ Waited

-----------------------------------------------------------------------------
(***************************************************************************)
(* Sequences.                                                              *)
(***************************************************************************)

LEMMA RangeIs ==
  ASSUME NEW S, NEW s \in Seq(S)
  PROVE  /\ Range(s) = {s[i] : i \in 1 .. Len(s)}
         /\ Range(s) \subseteq S
BY LenProperties, ElementOfSeq DEF Range

LEMMA Appended ==
  ASSUME NEW S, NEW s \in Seq(S), NEW e \in S
  PROVE  /\ Append(s, e) \in Seq(S) /\ Len(Append(s, e)) = Len(s) + 1 /\ Len(s) \in Nat
         /\ \A i \in 1 .. Len(s) : Append(s, e)[i] = s[i]
         /\ Append(s, e)[Len(s) + 1] = e
BY AppendProperties, LenProperties

LEMMA RangeAppend ==
  ASSUME NEW S, NEW s \in Seq(S), NEW e \in S
  PROVE  Range(Append(s, e)) = Range(s) \cup {e}
<1> DEFINE t == Append(s, e)
           n == Len(s)
<1>1. /\ n \in Nat /\ t \in Seq(S) /\ Len(t) = n + 1
      /\ \A i \in 1 .. n : t[i] = s[i]
      /\ t[n + 1] = e
  BY AppendProperties, LenProperties
<1>2. Range(s) = {s[i] : i \in 1 .. n}
  BY RangeIs
<1> HIDE DEF t, n
<1>3. Range(t) = {t[i] : i \in 1 .. n + 1}
  BY <1>1, RangeIs
<1>4. \A i : i \in 1 .. n + 1 <=> i \in 1 .. n \/ i = n + 1
  BY <1>1
<1> QED BY <1>1, <1>2, <1>3, <1>4 DEF t

LEMMA Lengths ==
  ASSUME TypeOK
  PROVE  Len(lists) \in Nat /\ Len(paras) \in Nat /\ Len(done) \in Nat /\ Len(waits) \in Nat
BY LenProperties DEF TypeOK

LEMMA ParaType ==
  ASSUME TypeOK, NEW p \in Ps
  PROVE  /\ paras[p] \in Para
         /\ paras[p].range \in Nat /\ paras[p].from \in Nat /\ paras[p].to \in Nat
<1>1. paras \in Seq(Para) /\ p \in 1 .. Len(paras)
  BY DEF TypeOK, Ps
<1>2. paras[p] \in Para
  BY <1>1, ElementOfSeq
<1> QED BY <1>2 DEF Para

LEMMA TallyType ==
  ASSUME TypeOK, NEW r \in 1 .. Len(done)
  PROVE  /\ \E n \in Nat : done[r] \in [0 .. n - 1 -> Nat]
         /\ \A i \in DOMAIN done[r] : i \in Nat /\ done[r][i] \in Nat
<1>1. done[r] \in Tallies
  BY ElementOfSeq DEF TypeOK
<1>2. PICK n \in Nat : done[r] \in [0 .. n - 1 -> Nat]
  BY <1>1 DEF Tallies
<1> QED BY <1>2

LEMMA WaitType ==
  ASSUME TypeOK, NEW w \in 1 .. Len(waits)
  PROVE  /\ waits[w] \in Wait
         /\ waits[w].list \in Nat /\ waits[w].saw \in Seq(Nat)
<1>1. waits[w] \in Wait
  BY ElementOfSeq DEF TypeOK
<1> QED BY <1>1 DEF Wait

LEMMA ListType ==
  ASSUME TypeOK, NEW k \in 1 .. Len(lists)
  PROVE  lists[k] \in Seq(Nat)
BY ElementOfSeq DEF TypeOK

LEMMA GroupsInit ==
  ASSUME Group!Init
  PROVE  GroupsInv
<1>1. TypeOK
  <2>1. /\ <<>> \in Seq(Para) /\ <<>> \in Seq(Tallies) /\ <<>> \in Seq(Wait)
        /\ <<>> \in Seq(Seq(Nat)) /\ Len(<<>>) = 0 /\ <<>> \in Seq(Nat)
    BY EmptySeq
  <2>2. <<<<>>>> \in Seq(Seq(Nat)) /\ Len(<<<<>>>>) = 1
    BY <2>1
  <2>3. call \in Calls
    BY DEF Group!Init, Group!NoCall, Calls
  <2>4. lists = <<>> /\ entities = 0 => lists \in Seq(Seq(Nat)) /\ entities \in 0 .. Len(lists)
    BY <2>1
  <2>5. lists = <<<<>>>> /\ entities = 1 => lists \in Seq(Seq(Nat)) /\ entities \in 0 .. Len(lists)
    BY <2>2
  <2>6. lists \in Seq(Seq(Nat)) /\ entities \in 0 .. Len(lists)
    BY <2>4, <2>5 DEF Group!Init
  <2> QED BY <2>1, <2>3, <2>6 DEF Group!Init, TypeOK
<1>2. Len(<<>>) = 0 /\ Range(<<>>) = {}
  BY EmptySeq DEF Range
<1>3. kind = "container" => lists[1] = <<>> /\ Len(lists) = 1
  BY DEF Group!Init
<1>4. Lists /\ Cut /\ Disjoint /\ Tally /\ Waited
  BY <1>2, <1>3 DEF Group!Init, Group!NoCall, Lists, Cut, Disjoint, Tally, Waited, Ps
<1> QED BY <1>1, <1>4 DEF GroupsInv

-----------------------------------------------------------------------------
(***************************************************************************)
(* for_each.                                                               *)
(***************************************************************************)

\* Steps that change neither paras nor what was executed.
LEMMA ForEachKeeps ==
  ASSUME GroupsInv, NEW iterator \in {"random", "general"}, NEW n \in Nat, NEW me \in CallerIds,
         Group!ForEach(iterator, n, me)
  PROVE  GroupsInv'
<1> DEFINE new == [i \in 0 .. n - 1 |-> 0]
<1>1. TypeOK /\ Lists /\ Disjoint /\ Tally /\ Waited /\ kind = "group" /\ call.at = "idle"
  BY DEF GroupsInv, Group!ForEach
<1>2. /\ UNCHANGED <<kind, paras, waits>>
      /\ lists' = Append(lists, <<>>) /\ entities' = Len(lists')
      /\ done' = Append(done, new)
      /\ call' = [at |-> "split", iterator |-> iterator, me |-> me, end |-> n, t |-> 0,
                  thrd |-> 0, counter |-> 0]
  BY DEF Group!ForEach, Group!NoCall
<1>3. PICK m \in Nat : m = Len(done) /\ m = Len(lists)
  BY <1>1, Lengths DEF Lists
<1>4. new \in Tallies /\ DOMAIN new = 0 .. n - 1 /\ <<>> \in Seq(Nat)
  BY EmptySeq DEF Tallies
<1> HIDE DEF new
<1>5. /\ done' \in Seq(Tallies) /\ Len(done') = m + 1
      /\ \A r \in 1 .. m : done'[r] = done[r]
      /\ done'[m + 1] = new
  <2>1. done \in Seq(Tallies) /\ new \in Tallies
    BY <1>1, <1>4 DEF TypeOK
  <2>2. /\ Append(done, new) \in Seq(Tallies) /\ Len(Append(done, new)) = Len(done) + 1
        /\ \A r \in 1 .. Len(done) : Append(done, new)[r] = done[r]
        /\ Append(done, new)[Len(done) + 1] = new
    BY <2>1, Appended
  <2> QED BY <1>2, <1>3, <2>2
<1>6. /\ lists' \in Seq(Seq(Nat)) /\ Len(lists') = m + 1
      /\ \A k \in 1 .. m : lists'[k] = lists[k]
      /\ lists'[m + 1] = <<>>
  BY <1>1, <1>2, <1>3, <1>4, AppendProperties DEF TypeOK
<1>7. TypeOK'
  BY <1>1, <1>2, <1>3, <1>5, <1>6 DEF TypeOK, Calls
<1>8. \A p \in Ps : paras[p].range \in 1 .. m
  BY <1>1, <1>3 DEF Lists
<1>9. Lists'
  <2>1. Range(lists'[m + 1]) = {}
    BY <1>6 DEF Range
  <2>2. \A k \in 1 .. m + 1 : Range(lists'[k]) = {p \in Ps : paras[p].range = k}
    <3>1. \A k \in 1 .. m : Range(lists'[k]) = {p \in Ps : paras[p].range = k}
      BY <1>1, <1>3, <1>6 DEF Lists
    <3>2. {p \in Ps : paras[p].range = m + 1} = {}
      BY <1>3, <1>8
    <3> QED BY <1>3, <2>1, <3>1, <3>2
  <2> QED BY <1>1, <1>2, <1>3, <1>5, <1>6, <1>8, <2>2 DEF Lists, Ps
<1>10. Cut'
  BY <1>1, <1>2, <1>3, <1>4, <1>5, <1>6, <1>8 DEF Cut, Ps
<1>11. Disjoint'
  BY <1>1, <1>2 DEF Disjoint, Ps
<1>12. Tally'
  <2>1. ASSUME NEW r \in 1 .. m, NEW i \in DOMAIN done[r]
        PROVE  /\ \A p \in Ps : Owns(p, r, i) => done[r][i] = IF paras[p].state = "over" THEN 1 ELSE 0
               /\ (\A p \in Ps : ~Owns(p, r, i)) => done[r][i] = 1
    BY <1>1, <1>3, <2>1 DEF Tally, Cutting
  <2>2. ASSUME NEW i \in DOMAIN new
        PROVE  new[i] = 0 /\ 0 <= i /\ \A p \in Ps : ~Owns(p, m + 1, i)
    BY <1>3, <1>4, <1>8, <2>2 DEF new, Owns
  <2>3. \A r \in 1 .. m : r # m + 1 /\ ~Cutting(r)'
    BY <1>3, <1>5 DEF Cutting
  <2>4. Cutting(m + 1)' /\ call'.t = 0
    <3>1. m + 1 = Len(done') /\ call'.at = "split" /\ call'.t = 0
      BY <1>2, <1>5
    <3> QED BY <3>1 DEF Cutting
  <2>5. \A r \in 1 .. m + 1 : r \in 1 .. m \/ r = m + 1
    BY <1>3
  <2> QED BY <1>2, <1>5, <2>1, <2>2, <2>3, <2>4, <2>5 DEF Tally, Owns, Ps
<1>13. Waited'
  <2>1. ASSUME NEW w \in 1 .. Len(waits)
        PROVE  waits[w].list <= m /\ waits[w].list # m + 1
    <3>1. waits[w].list \in Nat /\ waits[w].list <= m
      BY <1>1, <1>3, WaitType DEF Waited
    <3> QED BY <1>3, <3>1
  <2>2. \A w \in 1 .. Len(waits) : waits[w].list <= Len(lists') /\ ~Cutting(waits[w].list)'
    <3> SUFFICES ASSUME NEW w \in 1 .. Len(waits)
                 PROVE  waits[w].list <= Len(lists') /\ ~Cutting(waits[w].list)'
      OBVIOUS
    <3>1. waits[w].list \in Nat
      BY <1>1, WaitType
    <3>2. waits[w].list <= Len(lists') 
      BY <1>3, <1>6, <2>1, <3>1
    <3>3. waits'[w].list # Len(done')
      BY <1>2, <1>5, <2>1
    <3> QED BY <3>2, <3>3 DEF Cutting
  <2> QED BY <1>1, <1>2, <2>2 DEF Waited, Ps
<1> QED BY <1>7, <1>9, <1>10, <1>11, <1>12, <1>13 DEF GroupsInv

\* A chunk that is cut becomes a para of the range, above all that was cut.
LEMMA CutKeeps ==
  ASSUME GroupsInv, NEW to \in Nat, call.t <= to, to <= call.end, Group!NewPara(call.t, to),
         call.at = "split", call' \in Calls, call'.at = "split", call'.end = call.end,
         call'.t = to, UNCHANGED <<kind, entities, done, waits>>
  PROVE  GroupsInv'
<1> DEFINE new == [range |-> Len(done), from |-> call.t, to |-> to, state |-> "init"]
<1>1. TypeOK /\ Lists /\ Cut /\ Disjoint /\ Tally /\ Waited
  BY DEF GroupsInv
<1>2. PICK m \in Nat, n \in Nat : m = Len(done) /\ m = Len(lists) /\ n = Len(paras)
  BY <1>1, Lengths DEF Lists, Cut
<1>3. /\ kind = "group" /\ entities = m /\ m # 0 /\ call.t \in Nat /\ call.end \in Nat
      /\ DOMAIN done[m] = 0 .. call.end - 1
      /\ \A p \in 1 .. n : paras[p].range = m => paras[p].to <= call.t
  BY <1>1, <1>2 DEF Cut, Ps, TypeOK, Calls
<1>4. new \in Para /\ new.range = m /\ new.from = call.t /\ new.to = to /\ new.state = "init"
  BY <1>2, <1>3 DEF Para
<1> HIDE DEF new
<1>5. /\ paras' \in Seq(Para) /\ Len(paras') = n + 1
      /\ \A p \in 1 .. n : paras'[p] = paras[p]
      /\ paras'[n + 1] = new
  <2>1. paras \in Seq(Para) /\ new \in Para /\ paras' = Append(paras, new)
    BY <1>1, <1>4 DEF TypeOK, Group!NewPara, new
  <2>2. /\ Append(paras, new) \in Seq(Para) /\ Len(Append(paras, new)) = Len(paras) + 1
        /\ \A p \in 1 .. Len(paras) : Append(paras, new)[p] = paras[p]
        /\ Append(paras, new)[Len(paras) + 1] = new
    BY <2>1, Appended
  <2> QED BY <1>2, <2>1, <2>2
<1>6. /\ lists' \in Seq(Seq(Nat)) /\ Len(lists') = m
      /\ \A k \in 1 .. m : k # m => lists'[k] = lists[k]
      /\ lists'[m] = Append(lists[m], n + 1)
      /\ lists[m] \in Seq(Nat)
  <2>1. lists' = [lists EXCEPT ![m] = Append(lists[m], n + 1)]
    BY <1>3, <1>5 DEF Group!NewPara
  <2>2. lists \in Seq(Seq(Nat)) /\ m \in 1 .. Len(lists) /\ n + 1 \in Nat
    BY <1>1, <1>2, <1>3 DEF TypeOK
  <2>3. lists[m] \in Seq(Nat)
    BY <2>2, ElementOfSeq
  <2>4. Append(lists[m], n + 1) \in Seq(Nat)
    BY <2>2, <2>3, Appended
  <2> QED BY <1>2, <2>1, <2>2, <2>3, <2>4, ExceptSeq
<1>7. TypeOK'
  BY <1>1, <1>2, <1>3, <1>5, <1>6 DEF TypeOK
<1>8. \A p : p \in 1 .. n + 1 <=> p \in 1 .. n \/ p = n + 1
  BY <1>2
<1>9. Ps = 1 .. n /\ Ps' = 1 .. n + 1
  BY <1>2, <1>5 DEF Ps
<1>10. \A p \in 1 .. n : paras[p].range \in 1 .. m
  BY <1>1, <1>2, <1>3, <1>9 DEF Lists
<1>11. Lists'
  <2>1. \A k \in 1 .. m : Range(lists[k]) = {p \in 1 .. n : paras[p].range = k}
    BY <1>1, <1>2, <1>3, <1>9 DEF Lists
  <2>2. Range(lists'[m]) = Range(lists[m]) \cup {n + 1}
    <3>1. lists[m] \in Seq(Nat) /\ n + 1 \in Nat
      BY <1>2, <1>6
    <3>2. Range(Append(lists[m], n + 1)) = Range(lists[m]) \cup {n + 1}
      BY <3>1, RangeAppend
    <3> QED BY <1>6, <3>2
  <2>3. m \in 1 .. m
    BY <1>2, <1>3
  <2>4. Range(lists'[m]) = {p \in 1 .. n + 1 : paras'[p].range = m}
    BY <1>4, <1>5, <1>8, <2>1, <2>2, <2>3
  <2>5. ASSUME NEW k \in 1 .. m, k # m
        PROVE  Range(lists'[k]) = {p \in 1 .. n + 1 : paras'[p].range = k}
    <3>1. Range(lists'[k]) = {p \in 1 .. n : paras[p].range = k}
      BY <1>6, <2>1, <2>5
    <3>2. ~(paras'[n + 1].range = k)
      BY <1>4, <1>5, <2>5
    <3>3. \A p \in 1 .. n : paras'[p] = paras[p]
      BY <1>5
    <3> HIDE <1>4
    <3> QED BY <1>8, <3>1, <3>2, <3>3
  <2>6. \A p \in 1 .. n + 1 : paras'[p].range \in 1 .. m
    BY <1>4, <1>5, <1>8, <1>10, <2>3
  <2> QED BY <1>2, <1>3, <1>6, <1>9, <2>4, <2>5, <2>6 DEF Lists
<1>12. Cut'
  <2>1. ASSUME NEW p \in 1 .. n, paras[p].range = m
        PROVE  paras[p].to <= to
    <3>1. paras[p].to \in Nat /\ paras[p].to <= call.t
      BY <1>1, <1>3, <1>9, <2>1, ParaType
    <3> QED BY <1>3, <3>1
  <2>2. \A p \in 1 .. n + 1 : paras'[p].range = m => paras'[p].to <= to
    BY <1>4, <1>5, <1>8, <2>1
  <2> QED BY <1>2, <1>3, <1>6, <1>9, <2>2 DEF Cut
<1>13. Disjoint'
  <2>1. \A p, q \in 1 .. n : p # q /\ paras[p].range = paras[q].range /\ paras[p].range # 0 =>
          paras[p].to <= paras[q].from \/ paras[q].to <= paras[p].from
    BY <1>1, <1>9 DEF Disjoint
  <2>2. \A p \in 1 .. n : paras[p].range = new.range => paras[p].to <= new.from
    BY <1>3, <1>4
  <2> QED BY <1>5, <1>8, <1>9, <2>1, <2>2 DEF Disjoint
<1>14. Tally'
  <2> SUFFICES ASSUME NEW r \in 1 .. m, NEW i \in DOMAIN done[r]
               PROVE  /\ \A p \in 1 .. n + 1 : Owns(p, r, i)' =>
                           done[r][i] = IF paras'[p].state = "over" THEN 1 ELSE 0
                      /\ (\A p \in 1 .. n + 1 : ~Owns(p, r, i)') =>
                           IF r = m THEN done[r][i] = 0 /\ to <= i ELSE done[r][i] = 1
    BY <1>2, <1>9 DEF Tally, Cutting
  <2>1. /\ \A p \in 1 .. n : Owns(p, r, i) => done[r][i] = IF paras[p].state = "over" THEN 1 ELSE 0
        /\ (\A p \in 1 .. n : ~Owns(p, r, i)) =>
             IF r = m THEN done[r][i] = 0 /\ call.t <= i ELSE done[r][i] = 1
        /\ i \in Nat
    BY <1>1, <1>2, <1>9, TallyType DEF Tally, Cutting
  <2>2. \A p \in 1 .. n : Owns(p, r, i)' <=> Owns(p, r, i)
    BY <1>5 DEF Owns
  <2>3. Owns(n + 1, r, i)' <=> r = m /\ call.t <= i /\ i < to
    BY <1>2, <1>4, <1>5 DEF Owns
  <2>4. ASSUME r = m, call.t <= i
        PROVE  \A p \in 1 .. n : ~Owns(p, r, i)
    <3> SUFFICES ASSUME NEW p \in 1 .. n, paras[p].range = m, i < paras[p].to
                 PROVE  FALSE
      BY <2>4 DEF Owns
    <3>1. paras[p].to \in Nat /\ paras[p].to <= call.t
      BY <1>1, <1>3, <1>9, ParaType
    <3> QED BY <1>3, <2>1, <2>4, <3>1
  <2>5. Owns(n + 1, r, i)' => done[r][i] = 0 /\ paras'[n + 1].state # "over"
    BY <1>4, <1>5, <2>1, <2>3, <2>4
  <2>6. \A p \in 1 .. n : Owns(p, r, i)' => done[r][i] = IF paras'[p].state = "over" THEN 1 ELSE 0
    BY <1>5, <2>1, <2>2
  <2>7. ASSUME \A p \in 1 .. n + 1 : ~Owns(p, r, i)'
        PROVE  IF r = m THEN done[r][i] = 0 /\ to <= i ELSE done[r][i] = 1
    <3>1. (\A p \in 1 .. n : ~Owns(p, r, i)) /\ ~(r = m /\ call.t <= i /\ i < to)
      BY <1>8, <2>2, <2>3, <2>7
    <3> QED BY <2>1, <3>1
  <2> QED BY <1>8, <2>5, <2>6, <2>7
<1>15. Waited'
  <2> SUFFICES ASSUME NEW w \in 1 .. Len(waits)
               PROVE  /\ waits[w].es # "over" => waits[w].saw = <<>>
                      /\ waits[w].list <= m /\ waits[w].list # m
                      /\ \A p \in Range(waits[w].saw) :
                           p \in 1 .. n + 1 /\ paras'[p].range \in {0, waits[w].list}
                      /\ waits[w].es = "over" /\ waits[w].sort = "all" =>
                           /\ \A p \in Range(waits[w].saw) : paras'[p].state = "over"
                           /\ \A p \in 1 .. n + 1 : paras'[p].range = waits[w].list =>
                                paras'[p].state = "over"
                      /\ waits[w].es = "over" /\ waits[w].sort = "any" /\ waits[w].saw # <<>> =>
                           \E p \in Range(waits[w].saw) : paras'[p].state = "over"
    BY <1>2, <1>6, <1>9 DEF Waited, Cutting
  <2>1. waits[w].list <= m /\ waits[w].list # m
    BY <1>1, <1>2 DEF Waited, Cutting
  <2>2. \A p \in Range(waits[w].saw) :
          p \in 1 .. n /\ p \in 1 .. n + 1 /\ paras'[p] = paras[p]
            /\ paras[p].range \in {0, waits[w].list}
    BY <1>1, <1>5, <1>8, <1>9 DEF Waited
  <2>3. \A p \in 1 .. n + 1 : paras'[p].range = waits[w].list =>
          p \in 1 .. n /\ paras'[p] = paras[p]
    BY <1>4, <1>5, <1>8, <2>1
  <2>4. waits[w].es = "over" /\ waits[w].sort = "all" =>
          /\ \A p \in Range(waits[w].saw) : paras[p].state = "over"
          /\ \A p \in 1 .. n : paras[p].range = waits[w].list => paras[p].state = "over"
    BY <1>1, <1>3, <1>9 DEF Waited
  <2>5. /\ waits[w].es = "over" /\ waits[w].sort = "any" /\ waits[w].saw # <<>> =>
             \E p \in Range(waits[w].saw) : paras[p].state = "over"
        /\ waits[w].es # "over" => waits[w].saw = <<>>
    BY <1>1 DEF Waited
  <2> QED BY <2>1, <2>2, <2>3, <2>4, <2>5
<1> QED BY <1>7, <1>11, <1>12, <1>13, <1>14, <1>15 DEF GroupsInv

LEMMA CallType ==
  ASSUME NEW c \in Calls, NEW t \in Nat, NEW thrd \in Nat, NEW counter \in Nat
  PROVE  /\ [c EXCEPT !.t = t, !.thrd = thrd] \in Calls
         /\ [c EXCEPT !.t = t, !.thrd = thrd, !.counter = counter] \in Calls
<1>1. [c EXCEPT !.t = t] \in Calls
  BY DEF Calls
<1>2. \A d \in Calls : [d EXCEPT !.thrd = thrd] \in Calls /\ [d EXCEPT !.counter = counter] \in Calls
  BY DEF Calls
<1> QED BY <1>1, <1>2

LEMMA CutRandomKeeps ==
  ASSUME GroupsAssumption, GroupsInv, Group!CutRandom
  PROVE  GroupsInv'
<1> DEFINE to == Group!least(call.t + Group!Step, call.end)
<1>1. TypeOK /\ Cut /\ call.at = "split" /\ call \in Calls
  BY DEF GroupsInv, Group!CutRandom, TypeOK
<1>2. call.t \in Nat /\ call.end \in Nat /\ call.thrd \in Nat /\ call.t <= call.end /\ Group!Step \in Nat
  BY <1>1 DEF Calls, Cut, Group!Step, GroupsAssumption
<1>3. to \in Nat /\ call.t <= to /\ to <= call.end
  BY <1>2 DEF Group!least
<1> HIDE DEF to
<1>4. Group!NewPara(call.t, to) /\ call' = [call EXCEPT !.t = to, !.thrd = @ + 1]
      /\ UNCHANGED <<kind, entities, done, waits>>
  BY DEF Group!CutRandom, to
<1>5. call' \in Calls /\ call'.at = "split" /\ call'.end = call.end /\ call'.t = to
  <2>1. call'.at = "split" /\ call'.end = call.end /\ call'.t = to
    BY <1>1, <1>4 DEF Calls
  <2>2. call \in Calls /\ to \in Nat /\ call.thrd + 1 \in Nat /\ 0 \in Nat
    BY <1>1, <1>2, <1>3
  <2>3. [call EXCEPT !.t = to, !.thrd = call.thrd + 1] \in Calls
    BY <2>2, CallType
  <2> QED BY <1>4, <2>1, <2>3
<1> QED BY <1>1, <1>3, <1>4, <1>5, CutKeeps

LEMMA CutGeneralKeeps ==
  ASSUME GroupsAssumption, GroupsInv, Group!CutGeneral
  PROVE  GroupsInv'
<1> DEFINE size == IF call.counter < Group!Spare THEN Group!Step + 1 ELSE Group!Step
           to   == Group!least(call.t + size, call.end)
<1>1. TypeOK /\ Cut /\ call.at = "split" /\ call \in Calls
  BY DEF GroupsInv, Group!CutGeneral, TypeOK
<1>2. /\ call.t \in Nat /\ call.end \in Nat /\ call.thrd \in Nat /\ call.counter \in Nat
      /\ call.t <= call.end /\ Group!Step \in Nat
  BY <1>1 DEF Calls, Cut, Group!Step, GroupsAssumption
<1>3. size \in Nat
  BY <1>2
<1> HIDE DEF size
<1>4. to \in Nat /\ call.t <= to /\ to <= call.end
  BY <1>2, <1>3 DEF Group!least
<1> HIDE DEF to
<1>5. Group!NewPara(call.t, to) /\ call' = [call EXCEPT !.t = to, !.thrd = @ + 1, !.counter = @ + 1]
      /\ UNCHANGED <<kind, entities, done, waits>>
  BY DEF Group!CutGeneral, to, size
<1>6. call' \in Calls /\ call'.at = "split" /\ call'.end = call.end /\ call'.t = to
  <2>1. call'.at = "split" /\ call'.end = call.end /\ call'.t = to
    BY <1>1, <1>5 DEF Calls
  <2>2. call \in Calls /\ to \in Nat /\ call.thrd + 1 \in Nat /\ call.counter + 1 \in Nat
    BY <1>1, <1>2, <1>4
  <2>3. [call EXCEPT !.t = to, !.thrd = call.thrd + 1, !.counter = call.counter + 1] \in Calls
    BY <2>2, CallType
  <2> QED BY <1>5, <2>1, <2>3
<1> QED BY <1>1, <1>4, <1>5, <1>6, CutKeeps

\* Steps of the caller that neither cut, execute nor wait.
LEMMA CallKeeps ==
  ASSUME GroupsInv, UNCHANGED <<kind, lists, paras, done, waits>>, call' \in Calls,
         entities' \in 0 .. Len(lists), kind = "container" => call'.at = "idle" /\ entities' = 1,
         \/ call.at = "split" /\ entities' = entities /\ call'.at = "split"
              /\ call'.end = call.end /\ call'.t = call.t
         \/ call.at # "split" /\ call'.at # "split"
  PROVE  GroupsInv'
<1>1. TypeOK' /\ Lists' /\ Cut' /\ Disjoint'
  BY DEF GroupsInv, TypeOK, Lists, Cut, Disjoint, Ps
<1>2. Tally'
  BY DEF GroupsInv, Tally, Cutting, Owns, Ps
<1>3. Waited'
  BY DEF GroupsInv, Waited, Cutting, Ps
<1> QED BY <1>1, <1>2, <1>3 DEF GroupsInv

LEMMA SkipMyselfKeeps ==
  ASSUME GroupsInv, Group!SkipMyself
  PROVE  GroupsInv'
<1>1. call \in Calls /\ call.at = "split" /\ kind = "group" /\ entities \in 0 .. Len(lists)
  BY DEF GroupsInv, TypeOK, Group!SkipMyself, Cut
<1>2. call' = [call EXCEPT !.thrd = @ + 1] /\ UNCHANGED <<kind, entities, lists, paras, done, waits>>
  BY DEF Group!SkipMyself
<1>3. call' \in Calls /\ call'.at = "split" /\ call'.end = call.end /\ call'.t = call.t
  BY <1>1, <1>2 DEF Calls
<1> QED BY <1>1, <1>2, <1>3, CallKeeps

LEMMA ClearGroupKeeps ==
  ASSUME GroupsInv, Group!ClearGroup
  PROVE  GroupsInv'
<1>1. call \in Calls /\ call.at = "idle" /\ kind = "group" /\ 0 \in 0 .. Len(lists)
  BY Lengths DEF GroupsInv, TypeOK, Group!ClearGroup
<1>2. entities' = 0 /\ UNCHANGED <<kind, lists, paras, done, call, waits>>
  BY DEF Group!ClearGroup
<1> QED BY <1>1, <1>2, CallKeeps

LEMMA GroupDestroyedKeeps ==
  ASSUME GroupsInv, Group!GroupDestroyed
  PROVE  GroupsInv'
<1>1. call \in Calls /\ call.at = "destroy" /\ kind = "group" /\ 0 \in 0 .. Len(lists)
  BY Lengths DEF GroupsInv, TypeOK, Group!GroupDestroyed, Lists
<1>2. /\ entities' = 0 /\ call' = [call EXCEPT !.at = "gone"]
      /\ UNCHANGED <<kind, lists, paras, done, waits>>
  BY DEF Group!GroupDestroyed
<1>3. call' \in Calls /\ call'.at = "gone"
  BY <1>1, <1>2 DEF Calls
<1> QED BY <1>1, <1>2, <1>3, CallKeeps

LEMMA Executing ==
  ASSUME NEW counts, NEW n \in Nat, counts \in [0 .. n - 1 -> Nat], NEW from \in Nat, NEW to \in Nat
  PROVE  /\ Group!ExecuteAll(counts, from, to) \in [0 .. n - 1 -> Nat]
         /\ DOMAIN counts = 0 .. n - 1
         /\ \A i \in 0 .. n - 1 :
              /\ from <= i /\ i < to => Group!ExecuteAll(counts, from, to)[i] = counts[i] + 1
              /\ ~(from <= i /\ i < to) => Group!ExecuteAll(counts, from, to)[i] = counts[i]
<1>1. DOMAIN counts = 0 .. n - 1 /\ \A i \in 0 .. n - 1 : counts[i] \in Nat
  OBVIOUS
<1>2. \A i \in 0 .. n - 1 : i \in from .. to - 1 <=> from <= i /\ i < to
  OBVIOUS
<1> QED BY <1>1, <1>2 DEF Group!ExecuteAll

\* A range of the history is executed further: what changes.
DoneAfter(r, from, to) == [done EXCEPT ![r] = Group!ExecuteAll(@, from, to)]

LEMMA DoneChanges ==
  ASSUME TypeOK, NEW r \in 1 .. Len(done), NEW from \in Nat, NEW to \in Nat
  PROVE  /\ DoneAfter(r, from, to) \in Seq(Tallies) /\ Len(DoneAfter(r, from, to)) = Len(done)
         /\ \A q \in 1 .. Len(done) : DOMAIN DoneAfter(r, from, to)[q] = DOMAIN done[q]
         /\ \A q \in 1 .. Len(done) : q # r => DoneAfter(r, from, to)[q] = done[q]
         /\ \A i \in DOMAIN done[r] :
              /\ from <= i /\ i < to => DoneAfter(r, from, to)[r][i] = done[r][i] + 1
              /\ ~(from <= i /\ i < to) => DoneAfter(r, from, to)[r][i] = done[r][i]
<1>1. PICK n \in Nat : done[r] \in [0 .. n - 1 -> Nat]
  BY TallyType
<1> DEFINE more == Group!ExecuteAll(done[r], from, to)
<1>2. /\ more \in [0 .. n - 1 -> Nat]
      /\ DOMAIN done[r] = 0 .. n - 1
      /\ \A i \in 0 .. n - 1 :
           /\ from <= i /\ i < to => more[i] = done[r][i] + 1
           /\ ~(from <= i /\ i < to) => more[i] = done[r][i]
  <2> DEFINE counts == done[r]
  <2>1. counts \in [0 .. n - 1 -> Nat]
    BY <1>1
  <2> HIDE DEF counts
  <2>2. /\ Group!ExecuteAll(counts, from, to) \in [0 .. n - 1 -> Nat]
        /\ DOMAIN counts = 0 .. n - 1
        /\ \A i \in 0 .. n - 1 :
             /\ from <= i /\ i < to => Group!ExecuteAll(counts, from, to)[i] = counts[i] + 1
             /\ ~(from <= i /\ i < to) => Group!ExecuteAll(counts, from, to)[i] = counts[i]
    BY <2>1, Executing, ZenonT(60)
  <2> QED BY <2>2 DEF counts
<1>3. done \in Seq(Tallies) /\ more \in Tallies
  BY <1>2 DEF TypeOK, Tallies
<1>4. DoneAfter(r, from, to) = [done EXCEPT ![r] = more]
  BY DEF DoneAfter
<1> HIDE DEF more
<1>5. /\ DoneAfter(r, from, to) \in Seq(Tallies) /\ Len(DoneAfter(r, from, to)) = Len(done)
      /\ \A q \in 1 .. Len(done) : DoneAfter(r, from, to)[q] = IF q = r THEN more ELSE done[q]
  BY <1>3, <1>4, ExceptSeq
<1>6. DOMAIN more = DOMAIN done[r]
  BY <1>2
<1> QED BY <1>2, <1>5, <1>6

LEMMA CallerExecutesKeeps ==
  ASSUME GroupsInv, Group!CallerExecutes
  PROVE  GroupsInv'
<1>1. TypeOK /\ Lists /\ Cut /\ Disjoint /\ Tally /\ Waited
  BY DEF GroupsInv
<1>2. PICK m \in Nat : m = Len(done)
  BY <1>1, Lengths
<1>3. /\ call \in Calls /\ call.at = "split" /\ call.t \in Nat /\ call.end \in Nat
      /\ kind = "group" /\ m # 0 /\ DOMAIN done[m] = 0 .. call.end - 1
  BY <1>1, <1>2 DEF TypeOK, Calls, Cut, Group!CallerExecutes
<1>4. /\ UNCHANGED <<kind, entities, lists, paras, waits>>
      /\ done' = [done EXCEPT ![m] = Group!ExecuteAll(@, call.t, call.end)]
      /\ call' = [call EXCEPT !.at = "idle"]
  BY <1>2 DEF Group!CallerExecutes
<1>5. m \in 1 .. Len(done)
  BY <1>2, <1>3
<1>6. /\ done' \in Seq(Tallies) /\ Len(done') = m
      /\ \A q \in 1 .. m : DOMAIN done'[q] = DOMAIN done[q]
      /\ \A q \in 1 .. m : q # m => done'[q] = done[q]
      /\ \A i \in DOMAIN done[m] :
           /\ call.t <= i /\ i < call.end => done'[m][i] = done[m][i] + 1
           /\ ~(call.t <= i /\ i < call.end) => done'[m][i] = done[m][i]
  <2>1. done' = DoneAfter(m, call.t, call.end)
    BY <1>4 DEF DoneAfter
  <2> DEFINE new == DoneAfter(m, call.t, call.end)
  <2>2. call.t \in Nat /\ call.end \in Nat
    BY <1>3
  <2>3. /\ new \in Seq(Tallies) /\ Len(new) = Len(done)
        /\ \A q \in 1 .. Len(done) : DOMAIN new[q] = DOMAIN done[q]
        /\ \A q \in 1 .. Len(done) : q # m => new[q] = done[q]
        /\ \A i \in DOMAIN done[m] :
             /\ call.t <= i /\ i < call.end => new[m][i] = done[m][i] + 1
             /\ ~(call.t <= i /\ i < call.end) => new[m][i] = done[m][i]
    BY <1>1, <1>5, <2>2, DoneChanges
  <2> QED BY <1>2, <2>1, <2>3
<1>7. call' \in Calls /\ call'.at = "idle"
  BY <1>3, <1>4 DEF Calls
<1>8. TypeOK' /\ Lists' /\ Cut' /\ Disjoint'
  BY <1>1, <1>2, <1>3, <1>4, <1>6, <1>7 DEF TypeOK, Lists, Cut, Disjoint, Ps
<1>9. Waited'
  BY <1>1, <1>4, <1>7 DEF Waited, Cutting, Ps
<1>10. Tally'
  <2> SUFFICES ASSUME NEW r \in 1 .. m, NEW i \in DOMAIN done[r]
               PROVE  /\ \A p \in Ps : Owns(p, r, i) =>
                           done'[r][i] = IF paras[p].state = "over" THEN 1 ELSE 0
                      /\ (\A p \in Ps : ~Owns(p, r, i)) => done'[r][i] = 1
    BY <1>4, <1>6, <1>7 DEF Tally, Cutting, Owns, Ps
  <2>1. /\ \A p \in Ps : Owns(p, r, i) => done[r][i] = IF paras[p].state = "over" THEN 1 ELSE 0
        /\ (\A p \in Ps : ~Owns(p, r, i)) =>
             IF r = m THEN done[r][i] = 0 /\ call.t <= i ELSE done[r][i] = 1
    BY <1>1, <1>2, <1>3 DEF Tally, Cutting
  <2>2. CASE r # m
    BY <1>6, <2>1, <2>2
  <2>3. CASE r = m
    <3>1. i \in Nat /\ i < call.end
      BY <1>3, <2>3
    <3>2. ASSUME NEW p \in Ps, Owns(p, r, i)
          PROVE  done'[r][i] = done[r][i]
      <4>1. paras[p].range = m /\ i < paras[p].to
        BY <2>3, <3>2 DEF Owns
      <4>2. paras[p].to \in Nat /\ paras[p].to <= call.t
        BY <1>1, <1>2, <1>3, <4>1, ParaType DEF Cut
      <4> QED BY <1>3, <1>6, <2>3, <3>1, <4>1, <4>2
    <3>3. ASSUME \A p \in Ps : ~Owns(p, r, i)
          PROVE  done'[r][i] = 1
      BY <1>6, <2>1, <2>3, <3>1, <3>3
    <3> QED BY <2>1, <3>2, <3>3
  <2> QED BY <2>2, <2>3
<1> QED BY <1>8, <1>9, <1>10 DEF GroupsInv

-----------------------------------------------------------------------------
(***************************************************************************)
(* The waits.                                                              *)
(***************************************************************************)

\* A new wait has seen nothing.
LEMMA WaitMade ==
  ASSUME GroupsInv, NEW sort \in {"all", "any"}, call.at = "idle",
         waits' = Append(waits, [sort |-> sort, list |-> entities, es |-> "wait", saw |-> <<>>]),
         UNCHANGED <<kind, entities, lists, paras, done>>,
         call' \in Calls, call'.at # "split", kind = "container" => call'.at = "idle"
  PROVE  GroupsInv'
<1> DEFINE new == [sort |-> sort, list |-> entities, es |-> "wait", saw |-> <<>>]
<1>1. TypeOK /\ Lists /\ Disjoint /\ Tally /\ Waited
  BY DEF GroupsInv
<1>2. entities \in Nat /\ entities <= Len(lists) /\ Len(waits) \in Nat
  BY <1>1, Lengths DEF TypeOK
<1>3. /\ new \in Wait /\ new.list = entities /\ new.es = "wait" /\ new.saw = <<>>
      /\ waits' = Append(waits, new)
  BY <1>2, EmptySeq DEF Wait
<1> HIDE DEF new
<1>4. /\ waits' \in Seq(Wait) /\ Len(waits') = Len(waits) + 1
      /\ \A w \in 1 .. Len(waits) : waits'[w] = waits[w]
      /\ waits'[Len(waits) + 1] = new
  <2>1. waits \in Seq(Wait)
    BY <1>1 DEF TypeOK
  <2> QED BY <1>3, <2>1, Appended
<1>5. TypeOK' /\ Lists' /\ Cut' /\ Disjoint'
  BY <1>1, <1>4 DEF TypeOK, Lists, Cut, Disjoint, Ps
<1>6. Tally'
  BY <1>1 DEF Tally, Cutting, Owns, Ps
<1>7. Waited'
  <2>1. \A w : w \in 1 .. Len(waits) + 1 <=> w \in 1 .. Len(waits) \/ w = Len(waits) + 1
    BY <1>2
  <2>2. Range(new.saw) = {}
    BY <1>3, EmptySeq DEF Range
  <2>3. \A r : ~Cutting(r) /\ ~Cutting(r)'
    BY DEF Cutting
  <2> QED BY <1>1, <1>2, <1>3, <1>4, <2>1, <2>2, <2>3 DEF Waited, Cutting, Ps
<1> QED BY <1>5, <1>6, <1>7 DEF GroupsInv

LEMMA MakeWaitKeeps ==
  ASSUME GroupsInv, NEW sort \in {"all", "any"}, Group!MakeWait(sort)
  PROVE  GroupsInv'
<1>1. call' = call /\ call \in Calls /\ call.at = "idle"
  BY DEF GroupsInv, TypeOK, Group!MakeWait
<1> QED BY <1>1, WaitMade DEF Group!MakeWait

LEMMA DestroyGroupKeeps ==
  ASSUME GroupsInv, Group!DestroyGroup
  PROVE  GroupsInv'
<1>1. call \in Calls /\ call.at = "idle" /\ call' = [call EXCEPT !.at = "destroy"]
  BY DEF GroupsInv, TypeOK, Group!DestroyGroup
<1>2. call' \in Calls /\ call'.at = "destroy"
  BY <1>1 DEF Calls
<1>3. kind # "container"
  BY EmptySeq DEF GroupsInv, Lists, Group!DestroyGroup
<1> QED BY <1>1, <1>2, <1>3, WaitMade DEF Group!DestroyGroup

LEMMA CheckIfOverKeeps ==
  ASSUME GroupsInv, NEW w \in DOMAIN waits, Group!CheckIfOver(w)
  PROVE  GroupsInv'
<1> DEFINE list == waits[w].list
           es   == IF waits[w].sort = "all" THEN Group!AllState(list) ELSE Group!AnyState(list)
           saw  == IF list = 0 \/ es # "over" THEN waits[w].saw ELSE lists[list]
           new  == [waits[w] EXCEPT !.es = es, !.saw = saw]
<1>1. TypeOK /\ Lists /\ Disjoint /\ Tally /\ Waited
  BY DEF GroupsInv
<1>2. /\ waits \in Seq(Wait) /\ w \in 1 .. Len(waits) /\ waits[w] \in Wait
      /\ list \in Nat /\ list <= Len(lists) /\ waits[w].saw = <<>>
      /\ waits[w].sort \in {"all", "any"} /\ ~Cutting(list)
      /\ UNCHANGED <<kind, entities, lists, paras, done, call>>
  <2>1. waits \in Seq(Wait) /\ w \in 1 .. Len(waits)
    BY <1>1, LenProperties DEF TypeOK
  <2>2. waits[w].es # "over" /\ UNCHANGED <<kind, entities, lists, paras, done, call>>
    BY DEF Group!CheckIfOver
  <2> QED BY <1>1, <2>1, <2>2, WaitType DEF Waited, Wait
<1>3. es \in {"wait", "over", "thrown"}
  BY <1>2 DEF Group!AllState, Group!AnyState
<1>4. list # 0 => list \in 1 .. Len(lists) /\ lists[list] \in Seq(Nat)
  BY <1>1, <1>2, Lengths, ListType
<1>5. waits' = [waits EXCEPT ![w] = new]
  BY DEF Group!CheckIfOver
<1> HIDE DEF es
<1>6. saw \in Seq(Nat)
  BY <1>2, <1>4, EmptySeq
<1>7. new \in Wait /\ new.sort = waits[w].sort /\ new.list = list /\ new.es = es /\ new.saw = saw
  BY <1>2, <1>3, <1>6 DEF Wait
<1> HIDE DEF new, saw
<1>8. /\ waits' \in Seq(Wait) /\ Len(waits') = Len(waits)
      /\ \A v \in 1 .. Len(waits) : v # w => waits'[v] = waits[v]
      /\ waits'[w] = new
  BY <1>2, <1>5, <1>7, ExceptSeq
<1>9. TypeOK' /\ Lists' /\ Cut' /\ Disjoint'
  BY <1>1, <1>2, <1>8 DEF TypeOK, Lists, Cut, Disjoint, Ps, GroupsInv
<1>10. Tally'
  BY <1>1, <1>2 DEF Tally, Cutting, Owns, Ps
<1>11. list # 0 => /\ \A p \in Range(lists[list]) : p \in Ps /\ paras[p].range \in {0, list}
                   /\ kind = "group" => Range(lists[list]) = {p \in Ps : paras[p].range = list}
  <2>1. CASE kind = "group"
    BY <1>1, <1>4, <2>1 DEF Lists
  <2>2. CASE kind = "container"
    <3>1. Len(lists) = 1
      BY <1>1, <2>2 DEF Lists
    <3>2. list # 0 => list = 1
      BY <1>2, <3>1
    <3> QED BY <1>1, <2>2, <3>2 DEF Lists
  <2> QED BY <1>1, <2>1, <2>2 DEF TypeOK
<1>12. es # "over" => saw = <<>>
  BY <1>2 DEF saw
<1>13. \A p \in Range(saw) : p \in Ps /\ paras[p].range \in {0, list}
  <2>1. Range(<<>>) = {}
    BY EmptySeq DEF Range
  <2> QED BY <1>2, <1>11, <2>1 DEF saw
<1>14. ASSUME es = "over", waits[w].sort = "all"
       PROVE  /\ \A p \in Range(saw) : paras[p].state = "over"
              /\ kind = "group" => \A p \in Ps : paras[p].range = list => paras[p].state = "over"
  <2>1. CASE list = 0
    <3>1. saw = <<>> /\ Range(<<>>) = {}
      BY <1>2, <2>1, EmptySeq DEF saw, Range
    <3>2. kind = "group" => \A p \in Ps : paras[p].range # 0
      BY <1>1, Lengths DEF Lists
    <3> QED BY <2>1, <3>1, <3>2
  <2>2. CASE list # 0
    <3>1. saw = lists[list]
      BY <1>14, <2>2 DEF saw
    <3>2. \A p \in Range(lists[list]) : paras[p].state = "over"
      BY <1>14, <2>2 DEF es, Group!AllState, Group!StatesOf, Group!Range, Range
    <3> QED BY <1>11, <2>2, <3>1, <3>2
  <2> QED BY <2>1, <2>2
<1>15. ASSUME es = "over", waits[w].sort = "any", saw # <<>>
       PROVE  \E p \in Range(saw) : paras[p].state = "over"
  <2>1. list # 0 /\ saw = lists[list]
    BY <1>2, <1>15 DEF saw
  <2>2. "over" \in Group!StatesOf(list)
    BY <1>15, <2>1 DEF es, Group!AnyState
  <2> QED BY <2>1, <2>2 DEF Group!StatesOf, Group!Range, Range
<1>16. Waited'
  <2> SUFFICES ASSUME NEW v \in 1 .. Len(waits)
               PROVE  /\ waits'[v].es # "over" => waits'[v].saw = <<>>
                      /\ waits'[v].list <= Len(lists) /\ ~Cutting(waits[v].list)
                      /\ waits'[v].list = waits[v].list
                      /\ \A p \in Range(waits'[v].saw) :
                            p \in Ps /\ paras[p].range \in {0, waits'[v].list}
                      /\ waits'[v].es = "over" /\ waits'[v].sort = "all" =>
                           /\ \A p \in Range(waits'[v].saw) : paras[p].state = "over"
                           /\ kind = "group" =>
                                \A p \in Ps : paras[p].range = waits'[v].list => paras[p].state = "over"
                      /\ waits'[v].es = "over" /\ waits'[v].sort = "any" /\ waits'[v].saw # <<>> =>
                           \E p \in Range(waits'[v].saw) : paras[p].state = "over"
    BY <1>2, <1>8 DEF Waited, Cutting, Ps
  <2>1. CASE v = w
    BY <1>2, <1>7, <1>8, <1>12, <1>13, <1>14, <1>15, <2>1
  <2>2. CASE v # w
    BY <1>1, <1>8, <2>2 DEF Waited
  <2> QED BY <2>1, <2>2
<1> QED BY <1>9, <1>10, <1>16 DEF GroupsInv

-----------------------------------------------------------------------------
(***************************************************************************)
(* The container, and the threads of the pool.                             *)
(***************************************************************************)

LEMMA AddKeeps ==
  ASSUME GroupsInv, NEW state \in {"init", "empty"}, Group!Add(state)
  PROVE  GroupsInv'
<1> DEFINE new == [range |-> 0, from |-> 0, to |-> 0, state |-> state]
<1>1. TypeOK /\ Lists /\ Waited /\ kind = "container" /\ call.at = "idle"
  BY DEF GroupsInv, Group!Add
<1>2. PICK n \in Nat : n = Len(paras)
  BY <1>1, Lengths
<1>3. Len(lists) = 1 /\ entities = 1 /\ Len(done) = 0 /\ done = <<>>
  BY <1>1, EmptySeq DEF Lists
<1>4. new \in Para /\ new.range = 0
  BY DEF Para
<1>5. paras' = Append(paras, new) /\ UNCHANGED <<kind, entities, done, call, waits>>
      /\ lists' = [lists EXCEPT ![entities] = Append(@, Len(paras'))]
  BY DEF Group!Add
<1> HIDE DEF new
<1>6. /\ paras' \in Seq(Para) /\ Len(paras') = n + 1
      /\ \A p \in 1 .. n : paras'[p] = paras[p]
      /\ paras'[n + 1] = new
  <2>1. paras \in Seq(Para)
    BY <1>1 DEF TypeOK
  <2> QED BY <1>2, <1>4, <1>5, <2>1, Appended
<1>7. /\ lists' \in Seq(Seq(Nat)) /\ Len(lists') = 1
      /\ lists'[1] = Append(lists[1], n + 1) /\ lists[1] \in Seq(Nat)
  <2>1. lists' = [lists EXCEPT ![1] = Append(lists[1], n + 1)]
    BY <1>3, <1>5, <1>6
  <2>2. lists \in Seq(Seq(Nat)) /\ 1 \in 1 .. Len(lists) /\ n + 1 \in Nat
    BY <1>1, <1>2, <1>3 DEF TypeOK
  <2>3. lists[1] \in Seq(Nat)
    BY <2>2, ElementOfSeq
  <2>4. Append(lists[1], n + 1) \in Seq(Nat)
    BY <2>2, <2>3, Appended
  <2> QED BY <1>3, <2>1, <2>2, <2>3, <2>4, ExceptSeq
<1>8. Ps = 1 .. n /\ Ps' = 1 .. n + 1 /\ \A p : p \in 1 .. n + 1 <=> p \in 1 .. n \/ p = n + 1
  BY <1>2, <1>6 DEF Ps
<1>9. \A p \in 1 .. n + 1 : paras'[p].range = 0
  BY <1>1, <1>4, <1>6, <1>8 DEF Lists
<1>10. TypeOK'
  BY <1>1, <1>3, <1>5, <1>6, <1>7 DEF TypeOK
<1>11. Lists'
  <2>1. Range(lists'[1]) = Range(lists[1]) \cup {n + 1}
    BY <1>2, <1>7, RangeAppend
  <2>2. Range(lists[1]) \subseteq 1 .. n
    BY <1>1, <1>8 DEF Lists
  <2>3. Range(lists'[1]) \subseteq 1 .. n + 1
    BY <1>8, <2>1, <2>2
  <2> QED BY <1>1, <1>3, <1>5, <1>7, <1>8, <1>9, <2>3 DEF Lists
<1>12. Cut' /\ Disjoint' /\ Tally'
  <2>1. Cut'
    BY <1>1, <1>5 DEF Cut
  <2>2. Disjoint'
    BY <1>8, <1>9 DEF Disjoint
  <2>3. Len(done') = 0
    BY <1>3, <1>5
  <2>4. Tally'
    BY <2>3 DEF Tally
  <2> QED BY <2>1, <2>2, <2>4
<1>13. Waited'
  <2>1. \A w \in 1 .. Len(waits) : \A p \in Range(waits[w].saw) :
          p \in 1 .. n /\ p \in 1 .. n + 1 /\ paras'[p] = paras[p]
    BY <1>1, <1>6, <1>8 DEF Waited
  <2>2. \A w \in 1 .. Len(waits) : waits[w].list <= 1
    BY <1>1, <1>3 DEF Waited
  <2>3. \A w \in 1 .. Len(waits) : ~Cutting(waits[w].list)'
    BY <1>1, <1>5 DEF Cutting
  <2>4. \A w \in 1 .. Len(waits) :
          /\ waits[w].es # "over" => waits[w].saw = <<>>
          /\ waits[w].es = "over" /\ waits[w].sort = "all" =>
               \A p \in Range(waits[w].saw) : paras[p].state = "over"
          /\ waits[w].es = "over" /\ waits[w].sort = "any" /\ waits[w].saw # <<>> =>
               \E p \in Range(waits[w].saw) : paras[p].state = "over"
    BY <1>1 DEF Waited
  <2> QED BY <1>1, <1>5, <1>7, <1>8, <1>9, <2>1, <2>2, <2>3, <2>4 DEF Waited
<1> QED BY <1>10, <1>11, <1>12, <1>13 DEF GroupsInv

LEMMA ClearContainerKeeps ==
  ASSUME GroupsInv, Group!ClearContainer
  PROVE  GroupsInv'
<1>1. TypeOK /\ Lists /\ Cut /\ Disjoint /\ Tally /\ Waited /\ kind = "container"
  BY DEF GroupsInv, Group!ClearContainer
<1>2. Len(lists) = 1 /\ entities = 1 /\ lists \in Seq(Seq(Nat)) /\ <<>> \in Seq(Nat)
  BY <1>1, EmptySeq DEF Lists, TypeOK
<1>3. lists' = [lists EXCEPT ![1] = <<>>] /\ UNCHANGED <<kind, entities, paras, done, call, waits>>
  BY <1>2 DEF Group!ClearContainer
<1>4. lists' \in Seq(Seq(Nat)) /\ Len(lists') = 1 /\ lists'[1] = <<>>
  BY <1>2, <1>3, ExceptSeq
<1>5. TypeOK'
  BY <1>1, <1>2, <1>3, <1>4 DEF TypeOK
<1>6. Range(lists'[1]) = {}
  BY <1>4, EmptySeq DEF Range
<1>7. Lists' /\ Cut' /\ Disjoint' /\ Tally'
  BY <1>1, <1>3, <1>4, <1>6 DEF Lists, Cut, Disjoint, Tally, Cutting, Owns, Ps
<1>8. Waited'
  BY <1>1, <1>2, <1>3, <1>4 DEF Waited, Cutting, Ps
<1> QED BY <1>5, <1>7, <1>8 DEF GroupsInv

\* What a step that only moves a para towards over leaves as it was.
LEMMA ParaMoves ==
  ASSUME TypeOK, NEW p \in DOMAIN paras, NEW state \in {"run", "over"},
         paras' = [paras EXCEPT ![p].state = state]
  PROVE  /\ p \in Ps /\ paras' \in Seq(Para) /\ Len(paras') = Len(paras)
         /\ \A q \in Ps : q # p => paras'[q] = paras[q]
         /\ \A q \in Ps : /\ paras'[q].range = paras[q].range
                          /\ paras'[q].from = paras[q].from /\ paras'[q].to = paras[q].to
         /\ paras'[p].state = state
<1> DEFINE new == [paras[p] EXCEPT !.state = state]
<1>1. paras \in Seq(Para) /\ p \in 1 .. Len(paras)
  BY LenProperties DEF TypeOK
<1>2. paras[p] \in Para
  BY <1>1, ElementOfSeq
<1>3. /\ new \in Para /\ new.range = paras[p].range /\ new.from = paras[p].from
      /\ new.to = paras[p].to /\ new.state = state
  BY <1>2 DEF Para
<1>4. paras' = [paras EXCEPT ![p] = new]
  OBVIOUS
<1> HIDE DEF new
<1>5. /\ paras' \in Seq(Para) /\ Len(paras') = Len(paras)
      /\ \A q \in 1 .. Len(paras) : paras'[q] = IF q = p THEN new ELSE paras[q]
  BY <1>1, <1>3, <1>4, ExceptSeq
<1> QED BY <1>1, <1>3, <1>5 DEF Ps

LEMMA RunParaKeeps ==
  ASSUME GroupsInv, NEW p \in DOMAIN paras, Group!RunPara(p)
  PROVE  GroupsInv'
<1>1. TypeOK /\ Lists /\ Cut /\ Disjoint /\ Tally /\ Waited /\ paras[p].state = "init"
  BY DEF GroupsInv, Group!RunPara
<1>2. UNCHANGED <<kind, entities, lists, done, call, waits>>
  BY DEF Group!RunPara
<1>3. /\ p \in Ps /\ paras' \in Seq(Para) /\ Len(paras') = Len(paras)
      /\ \A q \in Ps : q # p => paras'[q] = paras[q]
      /\ \A q \in Ps : /\ paras'[q].range = paras[q].range
                       /\ paras'[q].from = paras[q].from /\ paras'[q].to = paras[q].to
      /\ paras'[p].state = "run"
  BY <1>1, ParaMoves DEF Group!RunPara
<1>4. Ps' = Ps /\ \A q \in Ps : paras'[q].state = "over" <=> paras[q].state = "over"
  BY <1>1, <1>3 DEF Ps
<1>5. TypeOK'
  BY <1>1, <1>2, <1>3 DEF TypeOK
<1>6. Lists' /\ Cut' /\ Disjoint'
  BY <1>1, <1>2, <1>3, <1>4 DEF Lists, Cut, Disjoint
<1>7. Tally'
  <2>1. \A q \in Ps : \A r, i : Owns(q, r, i)' <=> Owns(q, r, i)
    BY <1>3 DEF Owns
  <2>2. \A r : Cutting(r)' <=> Cutting(r)
    BY <1>2 DEF Cutting
  <2> QED BY <1>1, <1>2, <1>4, <2>1, <2>2 DEF Tally
<1>8. Waited'
  BY <1>1, <1>2, <1>3, <1>4 DEF Waited, Cutting
<1> QED BY <1>5, <1>6, <1>7, <1>8 DEF GroupsInv

\* A para that is over has executed its chunk, which is nobody else's.
LEMMA ParaOverKeeps ==
  ASSUME GroupsInv, NEW p \in DOMAIN paras, Group!ParaOver(p)
  PROVE  GroupsInv'
<1> DEFINE r    == paras[p].range
           from == paras[p].from
           to   == paras[p].to
<1>1. TypeOK /\ Lists /\ Cut /\ Disjoint /\ Tally /\ Waited /\ paras[p].state = "run"
  BY DEF GroupsInv, Group!ParaOver
<1>2. UNCHANGED <<kind, entities, lists, call, waits>>
  BY DEF Group!ParaOver
<1>3. /\ p \in Ps /\ paras' \in Seq(Para) /\ Len(paras') = Len(paras)
      /\ \A q \in Ps : q # p => paras'[q] = paras[q]
      /\ \A q \in Ps : /\ paras'[q].range = paras[q].range
                       /\ paras'[q].from = paras[q].from /\ paras'[q].to = paras[q].to
      /\ paras'[p].state = "over"
  BY <1>1, ParaMoves DEF Group!ParaOver
<1>4. Ps' = Ps /\ \A q \in Ps : paras'[q].state = "over" <=> (q = p \/ paras[q].state = "over")
  BY <1>1, <1>3 DEF Ps
<1>5. r \in Nat /\ from \in Nat /\ to \in Nat
  BY <1>1, <1>3, ParaType
<1>6. \/ r = 0 /\ done' = done /\ Len(done) = 0
      \/ r \in 1 .. Len(done) /\ done' = DoneAfter(r, from, to)
  <2>1. r = 0 => done' = done
    BY DEF Group!ParaOver
  <2>2. r # 0 => done' = DoneAfter(r, from, to)
    BY DEF Group!ParaOver, DoneAfter
  <2>3. kind = "group" => r \in 1 .. Len(done)
    BY <1>1, <1>3 DEF Lists
  <2>4. kind = "container" => r = 0 /\ Len(done) = 0
    BY <1>1, <1>3, EmptySeq DEF Lists
  <2>5. kind = "group" \/ kind = "container"
    BY <1>1 DEF TypeOK
  <2>6. kind = "group" => r # 0
    BY <1>1, <2>3, Lengths
  <2> QED BY <2>1, <2>2, <2>3, <2>4, <2>5, <2>6
<1> HIDE DEF r, from, to
<1>7. /\ done' \in Seq(Tallies) /\ Len(done') = Len(done)
      /\ \A q \in 1 .. Len(done) : DOMAIN done'[q] = DOMAIN done[q]
      /\ \A q \in 1 .. Len(done) : q # r => done'[q] = done[q]
      /\ \A q \in 1 .. Len(done) : q = r => \A i \in DOMAIN done[q] :
           /\ from <= i /\ i < to => done'[q][i] = done[q][i] + 1
           /\ ~(from <= i /\ i < to) => done'[q][i] = done[q][i]
  <2>1. CASE r = 0 /\ done' = done /\ Len(done) = 0
    BY <1>1, <2>1 DEF TypeOK
  <2>2. CASE r \in 1 .. Len(done) /\ done' = DoneAfter(r, from, to)
    <3> DEFINE new == DoneAfter(r, from, to)
    <3>1. /\ new \in Seq(Tallies) /\ Len(new) = Len(done)
          /\ \A q \in 1 .. Len(done) : DOMAIN new[q] = DOMAIN done[q]
          /\ \A q \in 1 .. Len(done) : q # r => new[q] = done[q]
          /\ \A i \in DOMAIN done[r] :
               /\ from <= i /\ i < to => new[r][i] = done[r][i] + 1
               /\ ~(from <= i /\ i < to) => new[r][i] = done[r][i]
      BY <1>1, <1>5, <2>2, DoneChanges
    <3> HIDE DEF new
    <3>2. done' = new
      BY <2>2 DEF new
    <3> QED BY <3>1, <3>2
  <2> QED BY <1>6, <2>1, <2>2
<1>8. TypeOK'
  BY <1>1, <1>2, <1>3, <1>7 DEF TypeOK
<1>9. done' = <<>> <=> done = <<>>
  <2>1. done \in Seq(Tallies)
    BY <1>1 DEF TypeOK
  <2> QED BY <1>7, <2>1, EmptySeq
<1>10. Lists'
  BY <1>1, <1>2, <1>3, <1>4, <1>7, <1>9 DEF Lists
<1>11. Cut' /\ Disjoint'
  <2>1. /\ \A q \in Ps : paras'[q].range = paras[q].range
        /\ \A q \in Ps : paras'[q].from = paras[q].from /\ paras'[q].to = paras[q].to
        /\ Ps' = Ps
    BY <1>3, <1>4
  <2>2. Cut /\ Disjoint
    BY <1>1
  <2>3. Disjoint'
    BY <2>1, <2>2 DEF Disjoint
  <2>4. call.at = "split" => DOMAIN done'[Len(done)] = DOMAIN done[Len(done)]
    <3>1. call.at = "split" => Len(done) > 0
      BY <2>2 DEF Cut
    <3>2. call.at = "split" => Len(done) \in 1 .. Len(done)
      BY <1>1, <3>1 DEF TypeOK
    <3> QED BY <1>7, <3>2
  <2>5. Len(done') = Len(done)
    BY <1>7
  <2>6. Cut'
    BY <1>2, <2>1, <2>2, <2>4, <2>5 DEF Cut
  <2> QED BY <2>3, <2>6
<1>12. Tally'
  <2> SUFFICES ASSUME NEW k \in 1 .. Len(done), NEW i \in DOMAIN done[k]
               PROVE  /\ \A q \in Ps : Owns(q, k, i) =>
                           done'[k][i] = IF q = p \/ paras[q].state = "over" THEN 1 ELSE 0
                      /\ (\A q \in Ps : ~Owns(q, k, i)) =>
                           IF Cutting(k) THEN done'[k][i] = 0 /\ call.t <= i ELSE done'[k][i] = 1
    <3>1. \A q \in Ps : \A k, i : Owns(q, k, i)' <=> Owns(q, k, i)
      BY <1>3 DEF Owns
    <3>2. \A k : Cutting(k)' <=> Cutting(k)
      BY <1>2, <1>7 DEF Cutting
    <3> QED BY <1>2, <1>4, <1>7, <3>1, <3>2 DEF Tally
  <2>1. /\ \A q \in Ps : Owns(q, k, i) => done[k][i] = IF paras[q].state = "over" THEN 1 ELSE 0
        /\ (\A q \in Ps : ~Owns(q, k, i)) =>
             IF Cutting(k) THEN done[k][i] = 0 /\ call.t <= i ELSE done[k][i] = 1
    BY <1>1 DEF Tally
  <2>2. Owns(p, k, i) <=> k = r /\ from <= i /\ i < to
    BY DEF Owns, r, from, to
  <2>3. CASE Owns(p, k, i)
    <3>1. done[k][i] = 0
      BY <1>1, <1>3, <2>1, <2>3
    <3>2. done'[k][i] = 1
      BY <1>7, <2>2, <2>3, <3>1
    <3>3. ASSUME NEW q \in Ps, q # p
          PROVE  ~Owns(q, k, i)
      <4>1. k # 0 /\ i \in Nat
        BY <1>1, Lengths, TallyType
      <4>2. /\ paras[q].from \in Nat /\ paras[q].to \in Nat
            /\ paras[p].from \in Nat /\ paras[p].to \in Nat
        BY <1>1, <1>3, ParaType
      <4>3. paras[q].range = k => paras[p].to <= paras[q].from \/ paras[q].to <= paras[p].from
        BY <1>1, <1>3, <2>3, <3>3, <4>1 DEF Disjoint, Owns
      <4> QED BY <2>3, <4>1, <4>2, <4>3 DEF Owns
    <3> QED BY <1>3, <2>3, <3>2, <3>3
  <2>4. CASE ~Owns(p, k, i)
    <3>1. done'[k][i] = done[k][i]
      BY <1>7, <2>2, <2>4
    <3> QED BY <2>1, <2>4, <3>1
  <2> QED BY <2>3, <2>4
<1>13. Waited'
  <2>1. \A k : Cutting(k)' <=> Cutting(k)
    BY <1>2, <1>7 DEF Cutting
  <2> QED BY <1>1, <1>2, <1>3, <1>4, <2>1 DEF Waited
<1> QED BY <1>8, <1>10, <1>11, <1>12, <1>13 DEF GroupsInv

-----------------------------------------------------------------------------
(***************************************************************************)
(* The theorems.                                                           *)
(***************************************************************************)

LEMMA GroupsStep ==
  ASSUME GroupsAssumption, GroupsInv, [Group!Next]_(Group!vars)
  PROVE  GroupsInv'
<1>1. CASE \E iterator \in {"random", "general"}, n \in Counts, me \in CallerIds :
             Group!ForEach(iterator, n, me)
  <2>1. PICK iterator \in {"random", "general"}, n \in Counts, me \in CallerIds :
               Group!ForEach(iterator, n, me)
    BY <1>1
  <2>2. n \in Nat
    BY DEF GroupsAssumption
  <2> QED BY <2>1, <2>2, ForEachKeeps
<1>2. CASE Group!Caller
  BY <1>2, CutRandomKeeps, CutGeneralKeeps, SkipMyselfKeeps, CallerExecutesKeeps DEF Group!Caller
<1>3. CASE Group!ClearGroup
  BY <1>3, ClearGroupKeeps
<1>4. CASE Group!DestroyGroup
  BY <1>4, DestroyGroupKeeps
<1>5. CASE Group!GroupDestroyed
  BY <1>5, GroupDestroyedKeeps
<1>6. CASE \E state \in {"init", "empty"} : Group!Add(state)
  BY <1>6, AddKeeps
<1>7. CASE Group!ClearContainer
  BY <1>7, ClearContainerKeeps
<1>8. CASE \E sort \in {"all", "any"} : Group!MakeWait(sort)
  BY <1>8, MakeWaitKeeps
<1>9. CASE \E w \in DOMAIN waits : Group!CheckIfOver(w)
  BY <1>9, CheckIfOverKeeps
<1>10. CASE Group!Pool
  BY <1>10, RunParaKeeps, ParaOverKeeps DEF Group!Pool
<1>11. CASE UNCHANGED Group!vars
  BY <1>11 DEF Group!vars, GroupsInv, TypeOK, Lists, Cut, Disjoint, Tally, Waited, Cutting, Owns, Ps
<1> QED BY <1>1, <1>2, <1>3, <1>4, <1>5, <1>6, <1>7, <1>8, <1>9, <1>10, <1>11 DEF Group!Next

\* Chunks of a range never overlap, an index was executed once when the para
\* that has it is over and otherwise waits for it or is the caller's, and what
\* a wait that is over saw is over.
THEOREM GroupsInvariant ==
  GroupsAssumption => (Group!Spec => []GroupsInv)
<1> SUFFICES ASSUME GroupsAssumption
             PROVE  Group!Spec => []GroupsInv
  OBVIOUS
<1>1. Group!Init => GroupsInv
  BY GroupsInit
<1>2. GroupsInv /\ [Group!Next]_(Group!vars) => GroupsInv'
  BY GroupsStep
<1> QED BY <1>1, <1>2, PTL DEF Group!Spec

LEMMA AllMeansExecuted ==
  ASSUME GroupsInv, NEW w \in 1 .. Len(waits), waits[w].es = "over", waits[w].sort = "all",
         NEW p \in Range(waits[w].saw), paras[p].range # 0
  PROVE  Group!Executed(paras[p].range)
<1>1. TypeOK /\ Lists /\ Tally /\ Waited
  BY DEF GroupsInv
<1>2. p \in Ps /\ paras[p].range = waits[w].list /\ ~Cutting(paras[p].range)
  BY <1>1 DEF Waited
<1>3. kind = "group"
  BY <1>1, <1>2 DEF TypeOK, Lists
<1>4. paras[p].range \in 1 .. Len(done)
  BY <1>1, <1>2, <1>3 DEF Lists
<1>5. \A q \in Ps : paras[q].range = paras[p].range => paras[q].state = "over"
  BY <1>1, <1>2, <1>3 DEF Waited
<1>6. ASSUME NEW i \in DOMAIN done[paras[p].range]
      PROVE  done[paras[p].range][i] = 1
  <2>1. CASE \E q \in Ps : Owns(q, paras[p].range, i)
    <3>1. PICK q \in Ps : Owns(q, paras[p].range, i)
      BY <2>1
    <3>2. paras[q].state = "over"
      BY <1>5, <3>1 DEF Owns
    <3> QED BY <1>1, <1>4, <3>1, <3>2 DEF Tally
  <2>2. CASE \A q \in Ps : ~Owns(q, paras[p].range, i)
    BY <1>1, <1>2, <1>4, <2>2 DEF Tally
  <2> QED BY <2>1, <2>2
<1>7. paras[p].range \in DOMAIN done
  BY <1>1, <1>4, LenProperties DEF TypeOK
<1> QED BY <1>6, <1>7 DEF Group!Executed

LEMMA InvariantMakesWaitsTrue ==
  ASSUME GroupsInv
  PROVE  Group!WaitsAreTrue
<1> SUFFICES ASSUME NEW w \in 1 .. Len(waits), waits[w].es = "over"
             PROVE  LET over == {p \in Range(waits[w].saw) : paras[p].state = "over"}
                    IN  IF waits[w].sort = "all"
                        THEN /\ over = Range(waits[w].saw)
                             /\ \A p \in over : paras[p].range # 0 => Group!Executed(paras[p].range)
                        ELSE waits[w].saw # <<>> => over # {}
  <2>1. waits \in Seq(Wait)
    BY DEF GroupsInv, TypeOK
  <2>2. DOMAIN waits = 1 .. Len(waits)
    BY <2>1, LenProperties
  <2> QED BY <2>2 DEF Group!WaitsAreTrue, Group!Range, Range
<1>1. TypeOK /\ Waited /\ waits[w] \in Wait
  BY WaitType DEF GroupsInv
<1>2. CASE waits[w].sort = "all"
  BY <1>1, <1>2, AllMeansExecuted DEF Waited
<1>3. CASE waits[w].sort = "any"
  BY <1>1, <1>3 DEF Waited
<1> QED BY <1>1, <1>2, <1>3 DEF Wait

\* A wait_all is over only when each para of its list is over and the for_each
\* behind it has executed its whole range, each index once; a wait_any only
\* when one is.
THEOREM WaitsTellTheTruth ==
  GroupsAssumption => (Group!Spec => []WaitsAreTrue)
<1>1. GroupsInv => WaitsAreTrue
  BY InvariantMakesWaitsTrue DEF WaitsAreTrue
<1> QED BY <1>1, GroupsInvariant, PTL

\* for_each never executes an index twice, whoever executes the chunks and in
\* whatever order: the safety half of EveryIndexOnce.
THEOREM NoIndexTwice ==
  GroupsAssumption => (Group!Spec => []\A r \in DOMAIN done : \A i \in DOMAIN done[r] : done[r][i] <= 1)
<1>1. GroupsInv => \A r \in DOMAIN done : \A i \in DOMAIN done[r] : done[r][i] <= 1
  <2> SUFFICES ASSUME GroupsInv, NEW r \in DOMAIN done, NEW i \in DOMAIN done[r]
               PROVE  done[r][i] <= 1
    OBVIOUS
  <2>1. r \in 1 .. Len(done) /\ Tally
    BY LenProperties DEF GroupsInv, TypeOK
  <2>2. CASE \E p \in Ps : Owns(p, r, i)
    BY <2>1, <2>2 DEF Tally
  <2>3. CASE \A p \in Ps : ~Owns(p, r, i)
    BY <2>1, <2>3 DEF Tally
  <2> QED BY <2>2, <2>3
<1> QED BY <1>1, GroupsInvariant, PTL

-----------------------------------------------------------------------------
(***************************************************************************)
(* What then() hands on.  A para that is over has its value, and is over   *)
(* for ever; from the answer of the last question to the call, nothing     *)
(* that the wait object refers to is replaced.                             *)
(***************************************************************************)
P       == Then!P
Written == {"default", "torn", "set"}
Answered == {"index", "get", "called"}

ThenTypeOK ==
  /\ returns \in [P -> BOOLEAN]
  /\ impls \in Seq([state : {"init", "run", "over"}, value : Written])
  /\ pair \in [P -> 0 .. Len(impls)]
  /\ wait \in [at : {"none", "ask", "thrown"} \cup Answered, sort : {"para", "and", "or"},
               of : [P -> 0 .. Len(impls)], index : 0 .. 2, got : [P -> Written \cup {"none"}]]

OverIsSet == \A i \in DOMAIN impls : impls[i].state = "over" => impls[i].value = "set"

Over(k) == Then!StateOf(k) = "over"

\* What was waited for has ended, and no para that a value is copied of is empty.
Ended ==
  /\ wait.sort = "para" => Over(1)
  /\ wait.sort = "and"  => Over(1) /\ Over(2)
  /\ wait.sort = "or"   => Over(1) \/ Over(2)
  /\ wait.sort # "para" => Then!Impl(1) # 0 /\ Then!Impl(2) # 0

\* The paras whose values the function may use, index and flag of p1 || p2 once
\* they are picked, and what was copied
Told(k) ==
  \/ wait.sort = "and"
  \/ wait.sort = "para" /\ k = 1
  \/ wait.sort = "or" /\ k = wait.index

Picked ==
  wait.sort = "or" =>
    /\ wait.index # 0 => Over(wait.index) /\ returns[wait.index]
    /\ wait.index = 0 => ~(returns[1] /\ returns[2])

Copied ==
  \A k \in P : /\ wait.at \in {"none", "ask", "index"} => wait.got[k] = "none"
               /\ wait.at \in {"get", "called"} /\ Told(k) => wait.got[k] \in {"none", "set"}
               /\ wait.at = "called" => ~Then!Wanted(k)

ThenInv ==
  /\ ThenTypeOK /\ OverIsSet /\ Copied
  /\ wait.at = "index" => wait.sort = "or"
  /\ wait.at \in Answered => Ended
  /\ wait.at \in {"get", "called"} => Picked

\* Of a para that is over the value is set.
LEMMA OverHasValue ==
  ASSUME ThenTypeOK, OverIsSet, NEW k \in P, Over(k)
  PROVE  impls[Then!Impl(k)].value = "set"
<1>1. Then!Impl(k) \in 0 .. Len(impls) /\ Then!Impl(k) # 0 /\ impls[Then!Impl(k)].state = "over"
  BY DEF ThenTypeOK, Over, Then!StateOf, Then!Impl
<1>2. Then!Impl(k) \in DOMAIN impls
  BY <1>1, LenProperties DEF ThenTypeOK
<1> QED BY <1>1, <1>2 DEF OverIsSet

\* The steps of the pool: a thread of it changes one impl, and none that is over.
LEMMA PoolKeeps ==
  ASSUME ThenInv, Then!Pool
  PROVE  ThenInv'
<1>1. PICK i \in DOMAIN impls : Then!Run(i) \/ Then!SetReturn(i) \/ Then!StoreOver(i)
  BY DEF Then!Pool
<1>2. UNCHANGED <<returns, pair, wait>>
  BY <1>1 DEF Then!Run, Then!SetReturn, Then!StoreOver
<1> DEFINE Impls == [state : {"init", "run", "over"}, value : Written]
<1>3. /\ impls \in Seq(Impls) /\ impls[i] \in Impls /\ impls[i].state # "over"
  <2>1. impls \in Seq(Impls)
    BY DEF ThenInv, ThenTypeOK
  <2>2. impls[i] \in Impls
    <3> HIDE DEF Impls
    <3> QED BY <2>1, ElementOfSeq, LenProperties
  <2>3. impls[i].state # "over"
    BY <1>1 DEF Then!Run, Then!SetReturn, Then!StoreOver
  <2> QED BY <2>1, <2>2, <2>3
<1>4. PICK x \in Impls : impls' = [impls EXCEPT ![i] = x] /\ (x.state = "over" => x.value = "set")
  <2>1. CASE Then!Run(i)
    <3> DEFINE x == [impls[i] EXCEPT !.state = "run"]
    <3>1. x \in Impls /\ x.state = "run"
      BY <1>3
    <3>2. impls' = [impls EXCEPT ![i] = x]
      BY <2>1 DEF Then!Run
    <3> QED BY <3>1, <3>2
  <2>2. CASE Then!SetReturn(i)
    <3> DEFINE x == [impls[i] EXCEPT !.value = IF @ = "default" THEN "torn" ELSE "set"]
    <3>1. x \in Impls /\ x.state = "run"
      BY <1>3, <2>2 DEF Then!SetReturn, Written
    <3>2. impls' = [impls EXCEPT ![i] = x]
      BY <2>2 DEF Then!SetReturn
    <3> QED BY <3>1, <3>2
  <2>3. CASE Then!StoreOver(i)
    <3> DEFINE x == [impls[i] EXCEPT !.state = "over"]
    <3>1. x \in Impls /\ x.value = "set"
      BY <1>3, <2>3 DEF Then!StoreOver
    <3>2. impls' = [impls EXCEPT ![i] = x]
      BY <2>3 DEF Then!StoreOver
    <3> QED BY <3>1, <3>2
  <2> QED BY <1>1, <2>1, <2>2, <2>3
<1> HIDE DEF Impls
<1>5. /\ impls' \in Seq(Impls) /\ Len(impls') = Len(impls) /\ DOMAIN impls' = DOMAIN impls
      /\ impls'[i] = x /\ \A j \in DOMAIN impls \ {i} : impls'[j] = impls[j]
  BY <1>3, <1>4, ExceptSeq, LenProperties
<1>6. OverIsSet'
  BY <1>4, <1>5 DEF ThenInv, OverIsSet
<1>7. ThenTypeOK'
  BY <1>2, <1>5 DEF ThenInv, ThenTypeOK, Impls
<1>8. \A k \in P : Over(k) => Over(k)'
  <2> SUFFICES ASSUME NEW k \in P, Over(k) PROVE Over(k)'
    OBVIOUS
  <2>1. Then!Impl(k)' = Then!Impl(k)
    BY <1>2 DEF Then!Impl
  <2>2. Then!Impl(k) # 0 /\ impls[Then!Impl(k)].state = "over"
    BY DEF Over, Then!StateOf
  <2>3. Then!Impl(k) \in DOMAIN impls
    BY <1>3, <2>2, LenProperties DEF ThenInv, ThenTypeOK, Then!Impl
  <2>4. impls'[Then!Impl(k)] = impls[Then!Impl(k)]
    BY <1>3, <1>5, <2>2, <2>3
  <2> QED BY <2>1, <2>2, <2>4 DEF Over, Then!StateOf
<1>9. 1 \in P /\ 2 \in P /\ (ThenInv /\ wait.sort = "or" /\ wait.index # 0 => wait.index \in P)
  BY DEF P, Then!P, ThenInv, ThenTypeOK
<1>10. wait'.at \in Answered => Ended'
  BY <1>2, <1>8, <1>9 DEF ThenInv, Ended, Then!Impl
<1>11. wait'.at \in {"get", "called"} => Picked'
  BY <1>2, <1>8, <1>9 DEF ThenInv, Picked
<1>12. Copied'
  BY <1>2 DEF ThenInv, Copied, Told, Then!Wanted
<1> QED BY <1>2, <1>6, <1>7, <1>10, <1>11, <1>12 DEF ThenInv

\* Starting a function while nothing has been answered
LEMMA StartKeeps ==
  ASSUME ThenInv, NEW k \in P, Then!Start(k)
  PROVE  ThenInv'
<1> DEFINE Impls == [state : {"init", "run", "over"}, value : Written]
           x     == [state |-> "init", value |-> "default"]
<1>1. /\ wait.at \in {"none", "ask"} /\ UNCHANGED <<returns, wait>>
      /\ impls' = Append(impls, x) /\ pair' = [pair EXCEPT ![k] = Len(impls')]
  BY DEF Then!Start
<1>2. impls \in Seq(Impls) /\ x \in Impls /\ x.state # "over" /\ Len(impls) \in Nat
  BY LenProperties DEF ThenInv, ThenTypeOK, Written
<1> HIDE DEF Impls, x
<1>3. /\ impls' \in Seq(Impls) /\ Len(impls') = Len(impls) + 1
      /\ \A i \in 1 .. Len(impls) : impls'[i] = impls[i]
      /\ impls'[Len(impls) + 1] = x
  BY <1>1, <1>2, AppendProperties
<1>4. DOMAIN impls = 1 .. Len(impls) /\ DOMAIN impls' = 1 .. Len(impls) + 1
  BY <1>2, <1>3, LenProperties
<1>5. OverIsSet'
  <2> SUFFICES ASSUME NEW i \in 1 .. Len(impls) + 1, impls'[i].state = "over"
               PROVE  impls'[i].value = "set"
    BY <1>4 DEF OverIsSet
  <2>1. i \in 1 .. Len(impls)
    BY <1>2, <1>3
  <2> QED BY <1>3, <1>4, <2>1 DEF ThenInv, OverIsSet
<1>6. pair' \in [P -> 0 .. Len(impls')]
  BY <1>1, <1>2, <1>3 DEF ThenInv, ThenTypeOK
<1>7. wait'.of \in [P -> 0 .. Len(impls')]
  BY <1>1, <1>2, <1>3 DEF ThenInv, ThenTypeOK
<1>8. ThenTypeOK'
  BY <1>1, <1>3, <1>6, <1>7 DEF ThenInv, ThenTypeOK, Impls
<1> QED BY <1>1, <1>5, <1>8 DEF ThenInv, Copied, Answered

\* A step that changes the wait object only; what it may change in it
LEMMA WaitKeeps ==
  ASSUME ThenInv, UNCHANGED <<returns, pair, impls>>,
         wait' \in [at : {"none", "ask", "thrown"} \cup Answered, sort : {"para", "and", "or"},
                    of : [P -> 0 .. Len(impls)], index : 0 .. 2,
                    got : [P -> Written \cup {"none"}]],
         Copied',
         wait'.at = "index" => wait'.sort = "or",
         wait'.at \in Answered => Ended',
         wait'.at \in {"get", "called"} => Picked'
  PROVE  ThenInv'
<1>1. ThenTypeOK' /\ OverIsSet'
  BY DEF ThenInv, ThenTypeOK, OverIsSet
<1> QED BY <1>1 DEF ThenInv

LEMMA CombineKeeps ==
  ASSUME ThenInv, NEW sort \in {"para", "and", "or"}, Then!Combine(sort)
  PROVE  ThenInv'
<1>1. /\ wait.at = "none" /\ UNCHANGED <<returns, pair, impls>>
      /\ wait' = [wait EXCEPT !.at = "ask", !.sort = sort, !.of = pair]
  BY DEF Then!Combine
<1>2. wait' \in [at : {"none", "ask", "thrown"} \cup Answered, sort : {"para", "and", "or"},
                 of : [P -> 0 .. Len(impls)], index : 0 .. 2,
                 got : [P -> Written \cup {"none"}]]
  BY <1>1 DEF ThenInv, ThenTypeOK
<1>3. wait'.at = "ask" /\ wait'.got = wait.got
  BY <1>1 DEF ThenInv, ThenTypeOK
<1>4. Copied'
  BY <1>1, <1>3 DEF ThenInv, Copied
<1> QED BY <1>1, <1>2, <1>3, <1>4, WaitKeeps DEF Answered

LEMMA AskKeeps ==
  ASSUME ThenInv, Then!Ask
  PROVE  ThenInv'
<1>1. /\ wait.at = "ask" /\ UNCHANGED <<returns, pair, impls>>
      /\ \E at \in {"ask", "thrown", "index", "get"} :
           /\ wait' = [wait EXCEPT !.at = at]
           /\ at \in {"index", "get"} => Then!IsOver
           /\ at = "index" => wait.sort = "or"
           /\ at = "get" => wait.sort # "or"
           /\ at \in {"index", "get"} /\ wait.sort # "para" =>
                "empty" \notin {Then!StateOf(1), Then!StateOf(2)}
  BY DEF Then!Ask
<1>2. PICK at \in {"ask", "thrown", "index", "get"} :
           /\ wait' = [wait EXCEPT !.at = at]
           /\ at \in {"index", "get"} => Then!IsOver
           /\ at = "index" => wait.sort = "or"
           /\ at = "get" => wait.sort # "or"
           /\ at \in {"index", "get"} /\ wait.sort # "para" =>
                "empty" \notin {Then!StateOf(1), Then!StateOf(2)}
  BY <1>1
<1>3. wait' \in [at : {"none", "ask", "thrown"} \cup Answered, sort : {"para", "and", "or"},
                 of : [P -> 0 .. Len(impls)], index : 0 .. 2,
                 got : [P -> Written \cup {"none"}]]
  BY <1>2 DEF ThenInv, ThenTypeOK, Answered
<1>4. /\ wait'.at = at /\ wait'.got = wait.got /\ wait'.sort = wait.sort
      /\ wait'.of = wait.of /\ wait'.index = wait.index
  BY <1>2 DEF ThenInv, ThenTypeOK
<1>5. Copied'
  BY <1>1, <1>4 DEF ThenInv, Copied
<1>6. \A k \in 1 .. 2 : Over(k)' = Over(k) /\ Then!Impl(k)' = Then!Impl(k)
  BY <1>1, <1>4 DEF Over, Then!StateOf, Then!Impl
<1>7. at \in {"index", "get"} => Ended
  BY <1>2 DEF Then!IsOver, Ended, Over, Then!StateOf
<1>8. wait'.at \in Answered => Ended'
  BY <1>4, <1>6, <1>7 DEF Answered, Ended
<1>9. wait'.at \in {"get", "called"} => Picked'
  BY <1>2, <1>4 DEF Picked
<1> QED BY <1>1, <1>3, <1>5, <1>8, <1>9, WaitKeeps

LEMMA PickIndexKeeps ==
  ASSUME ThenInv, Then!PickIndex
  PROVE  ThenInv'
<1>0. wait.sort = "or"
  BY DEF Then!PickIndex, ThenInv
<1> DEFINE both == returns[1] /\ returns[2]
           flag == CHOOSE k \in P : returns[k]
           index == IF both THEN IF Over(1) THEN 1 ELSE IF Over(2) THEN 2 ELSE 1
                    ELSE IF (\E k \in P : returns[k]) /\ Over(flag) THEN flag ELSE 0
<1>1. /\ wait.at = "index" /\ UNCHANGED <<returns, pair, impls>>
      /\ wait' = [wait EXCEPT !.at = "get", !.index = index]
  BY DEF Then!PickIndex, Over, P
<1>2. P = {1, 2} /\ returns \in [P -> BOOLEAN]
  BY DEF ThenInv, ThenTypeOK, P, Then!P
<1>3. (\E k \in P : returns[k]) => flag \in P /\ returns[flag]
  OBVIOUS
<1>4. Over(1) \/ Over(2)
  BY <1>0, <1>1 DEF ThenInv, Ended, Answered
<1>5. /\ index \in 0 .. 2
      /\ index # 0 => Over(index) /\ returns[index]
      /\ index = 0 => ~(returns[1] /\ returns[2])
  <2> HIDE DEF flag
  <2>1. CASE both
    BY <1>4, <2>1
  <2>2. CASE ~both
    BY <1>2, <1>3, <2>2
  <2> QED BY <2>1, <2>2
<1> HIDE DEF index
<1>6. wait' \in [at : {"none", "ask", "thrown"} \cup Answered, sort : {"para", "and", "or"},
                 of : [P -> 0 .. Len(impls)], index : 0 .. 2,
                 got : [P -> Written \cup {"none"}]]
  BY <1>1, <1>5 DEF ThenInv, ThenTypeOK, Answered
<1>7. /\ wait'.at = "get" /\ wait'.got = wait.got /\ wait'.sort = wait.sort
      /\ wait'.of = wait.of /\ wait'.index = index
  BY <1>1 DEF ThenInv, ThenTypeOK
<1>8. Copied'
  BY <1>1, <1>7 DEF ThenInv, Copied
<1>9. \A k \in 0 .. 2 : Over(k)' = Over(k) /\ Then!Impl(k)' = Then!Impl(k)
  BY <1>1, <1>7 DEF Over, Then!StateOf, Then!Impl
<1>10. Ended'
  BY <1>1, <1>7, <1>9 DEF ThenInv, Ended, Answered
<1>11. Picked'
  BY <1>1, <1>5, <1>7, <1>9 DEF Picked
<1> QED BY <1>1, <1>6, <1>8, <1>10, <1>11, WaitKeeps

LEMMA GetKeeps ==
  ASSUME ThenInv, NEW k \in P, Then!Get(k)
  PROVE  ThenInv'
<1> DEFINE value == impls[Then!Impl(k)].value
           kept  == wait.got[k]
<1>1. /\ wait.at = "get" /\ Then!Wanted(k) /\ UNCHANGED <<returns, pair, impls>>
      /\ wait' = [wait EXCEPT !.got[k] = value]
  BY DEF Then!Get
<1>2. Ended /\ Picked /\ 1 \in P /\ 2 \in P
  BY <1>1 DEF ThenInv, Answered, P, Then!P
<1>3. k \in {1, 2} /\ (Told(k) => Over(k))
  BY <1>2 DEF Told, Ended, Picked, P, Then!P
<1>4. Told(k) => value = "set"
  BY <1>3, OverHasValue DEF ThenInv
<1>5. value \in Written
  <2> DEFINE Impls == [state : {"init", "run", "over"}, value : Written]
  <2>1. impls \in Seq(Impls) /\ Then!Impl(k) \in 0 .. Len(impls)
    BY DEF ThenInv, ThenTypeOK, Then!Impl
  <2>2. Then!Impl(k) # 0
    BY <1>1, <1>2, <1>3 DEF Ended, Over, Then!StateOf, Then!Wanted
  <2>3. Then!Impl(k) \in 1 .. Len(impls)
    BY <2>1, <2>2, LenProperties
  <2>4. impls[Then!Impl(k)] \in Impls
    <3> HIDE DEF Impls
    <3> QED BY <2>1, <2>3, ElementOfSeq
  <2> QED BY <2>4
<1> HIDE DEF value
<1>6. /\ wait' \in [at : {"none", "ask", "thrown"} \cup Answered, sort : {"para", "and", "or"},
                    of : [P -> 0 .. Len(impls)], index : 0 .. 2,
                    got : [P -> Written \cup {"none"}]]
      /\ wait'.at = "get" /\ wait'.sort = wait.sort /\ wait'.of = wait.of
      /\ wait'.index = wait.index
      /\ wait'.got[k] = value /\ \A j \in P \ {k} : wait'.got[j] = wait.got[j]
  BY <1>1, <1>5 DEF ThenInv, ThenTypeOK
<1>7. \A j \in P : Told(j)' = Told(j)
  BY <1>6 DEF Told
<1>8. Copied'
  BY <1>1, <1>4, <1>6, <1>7 DEF ThenInv, Copied
<1>9. \A j \in 0 .. 2 : Over(j)' = Over(j) /\ Then!Impl(j)' = Then!Impl(j)
  BY <1>1, <1>6 DEF Over, Then!StateOf, Then!Impl
<1>10. wait.index \in 0 .. 2
  BY DEF ThenInv, ThenTypeOK
<1>11. Ended'
  BY <1>2, <1>6, <1>9 DEF Ended
<1>12. Picked'
  BY <1>1, <1>2, <1>6, <1>9, <1>10 DEF Picked
<1> QED BY <1>1, <1>6, <1>8, <1>11, <1>12, WaitKeeps

LEMMA HandOverKeeps ==
  ASSUME ThenInv, Then!CallFunction
  PROVE  ThenInv'
<1>1. /\ wait.at = "get" /\ (\A k \in P : ~Then!Wanted(k))
      /\ UNCHANGED <<returns, pair, impls>> /\ wait' = [wait EXCEPT !.at = "called"]
  BY DEF Then!CallFunction, P
<1>2. /\ wait' \in [at : {"none", "ask", "thrown"} \cup Answered, sort : {"para", "and", "or"},
                    of : [P -> 0 .. Len(impls)], index : 0 .. 2,
                    got : [P -> Written \cup {"none"}]]
      /\ wait'.at = "called" /\ wait'.sort = wait.sort /\ wait'.of = wait.of
      /\ wait'.index = wait.index /\ wait'.got = wait.got
  BY <1>1 DEF ThenInv, ThenTypeOK, Answered
<1>3. \A k \in P : Told(k)' = Told(k) /\ Then!Wanted(k)' = Then!Wanted(k)
  BY <1>1, <1>2 DEF Told, Then!Wanted
<1>4. Copied'
  BY <1>1, <1>2, <1>3 DEF ThenInv, Copied
<1>5. \A k \in 0 .. 2 : Over(k)' = Over(k) /\ Then!Impl(k)' = Then!Impl(k)
  BY <1>1, <1>2 DEF Over, Then!StateOf, Then!Impl
<1>6. wait.index \in 0 .. 2
  BY DEF ThenInv, ThenTypeOK
<1>7. Ended'
  BY <1>1, <1>2, <1>5 DEF ThenInv, Ended, Answered
<1>8. Picked'
  BY <1>1, <1>2, <1>5, <1>6 DEF ThenInv, Picked
<1> QED BY <1>1, <1>2, <1>4, <1>7, <1>8, WaitKeeps

LEMMA ThenStep == ThenInv /\ [Then!Next]_(Then!vars) => ThenInv'
<1> SUFFICES ASSUME ThenInv, [Then!Next]_(Then!vars) PROVE ThenInv'
  OBVIOUS
<1>1. ASSUME NEW k \in P, Then!Exe(k) \/ Then!ExeUnderCondition(k) PROVE ThenInv'
  BY <1>1, StartKeeps DEF Then!Exe, Then!ExeUnderCondition
<1>2. CASE Then!Pool
  BY <1>2, PoolKeeps
<1>3. ASSUME NEW sort \in {"para", "and", "or"}, Then!Combine(sort) PROVE ThenInv'
  BY <1>3, CombineKeeps
<1>4. CASE Then!Waits
  BY <1>4, AskKeeps, PickIndexKeeps, GetKeeps, HandOverKeeps DEF Then!Waits, P
<1>5. CASE UNCHANGED Then!vars
  <2>1. UNCHANGED <<returns, pair, impls, wait>>
    BY <1>5 DEF Then!vars
  <2> QED BY <2>1 DEF ThenInv, ThenTypeOK, OverIsSet, Copied, Told, Ended, Picked, Over,
                      Then!Wanted, Then!StateOf, Then!Impl
<1> QED BY <1>1, <1>2, <1>3, <1>4, <1>5 DEF Then!Next, P

\* For any number of functions started, of threads of the pool and of
\* interleavings of their accesses with those of the waiting thread: then() calls
\* its function when what it waited for has ended, and the values the function may
\* use are complete copies (ToldIsSet).
THEOREM ToldValuesAreSet == Then!Spec => []ToldIsSet
<1>1. Then!Init => ThenInv
  <2> SUFFICES ASSUME Then!Init PROVE ThenInv
    OBVIOUS
  <2>1. /\ returns \in [P -> BOOLEAN] /\ pair = [k \in P |-> 0] /\ impls = <<>>
        /\ wait = Then!NoWait
    BY DEF Then!Init, P
  <2>2. Then!NoWait = [at |-> "none", sort |-> "para", of |-> [k \in P |-> 0],
                       index |-> 0, got |-> [k \in P |-> "none"]]
    BY DEF Then!NoWait, P
  <2>3. Len(impls) = 0 /\ DOMAIN impls = {}
    BY <2>1
  <2>4. ThenTypeOK
    BY <2>1, <2>2, <2>3, EmptySeq DEF ThenTypeOK
  <2> QED BY <2>1, <2>2, <2>3, <2>4 DEF ThenInv, OverIsSet, Copied, Answered
<1>2. ThenInv /\ [Then!Next]_(Then!vars) => ThenInv'
  BY ThenStep
<1>3. ThenInv => ToldIsSet
  <2> SUFFICES ASSUME ThenInv, wait.at = "called"
               PROVE  /\ wait.sort = "para" /\ returns[1] => wait.got[1] = "set"
                      /\ wait.sort = "and"  => \A k \in P : Then!StateOf(k) = "over"
                                                 /\ (returns[k] => wait.got[k] = "set")
                      /\ wait.sort = "or"   => /\ \E k \in P : Then!StateOf(k) = "over"
                                               /\ wait.index # 0 => wait.got[wait.index] = "set"
                                               /\ wait.index = 0 => ~(returns[1] /\ returns[2])
    BY DEF ToldIsSet, Then!ToldIsSet, P
  <2>1. P = {1, 2}
    BY DEF P, Then!P
  <2>2. Ended /\ Picked /\ Copied /\ wait.index \in 0 .. 2
    BY DEF ThenInv, ThenTypeOK, Answered
  <2>3. ASSUME NEW k \in P, Told(k), returns[k] PROVE wait.got[k] = "set"
    <3>1. k = 1 \/ wait.sort # "para"
      BY <2>3 DEF Told
    <3> QED BY <2>2, <2>3, <3>1 DEF Copied, Then!Wanted
  <2> QED BY <2>1, <2>2, <2>3 DEF Told, Ended, Picked, Over
<1> QED BY <1>1, <1>2, <1>3, PTL DEF Then!Spec
=============================================================================
