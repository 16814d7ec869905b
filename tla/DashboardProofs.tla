---------------------------- MODULE DashboardProofs ----------------------------
(***************************************************************************)
(* Proofs about Dashboard, for any number of people, devices, lookups,     *)
(* sources, changes and requests, and any limits:                          *)
(*   - no device belongs to two people unless assignments overlap          *)
(*     (OwnerInv);                                                         *)
(*   - an answer is the function of the databases that the request saw     *)
(*     (AnswerInv), from which follows what it may say of each of them and *)
(*     must say of all;                                                    *)
(*   - a device that a SELECT found unknown was so for those before it     *)
(*     (FlagInv).                                                          *)
(***************************************************************************)
EXTENDS Dashboard, Induction

-----------------------------------------------------------------------------
\* The links are a sequence of rows; the rest of the database does not matter.
LinksOK == "links" \in DOMAIN db /\ db.links \in Seq(Link)

Requested ==
  \A c \in Parent : assigning[c] # None =>
    assigning[c].person \in Person /\ assigning[c].device \in Device

OwnerInv == LinksOK /\ Requested /\ OneOwnerUnlessOverlap

\* In the beginning nobody has assigned anything.
LEMMA InitOwnerInv == Init => OwnerInv
<1> SUFFICES ASSUME Init PROVE OwnerInv
  OBVIOUS
<1>1. db \in Start /\ assigning = [c \in Parent |-> None]
  BY DEF Init, HouseholdInit
<1>2. LinksOK /\ Requested
  BY <1>1, StartAssumption DEF LinksOK, Requested
<1>3. OneOwnerUnlessOverlap
  BY <1>1, <1>2, StartAssumption DEF OneOwnerUnlessOverlap, LinksOK
<1>4. QED
  BY <1>2, <1>3 DEF OwnerInv

\* A step that leaves the links alone, or only ends some of them, creates no
\* second owner.
LEMMA EndingKeepsOwners ==
  ASSUME LinksOK, OneOwnerUnlessOverlap, LinksOK',
         DOMAIN db'.links = DOMAIN db.links,
         \A i \in DOMAIN db.links :
           /\ db'.links[i].device = db.links[i].device
           /\ db'.links[i].unread = db.links[i].unread
           /\ db'.links[i].active => db.links[i].active
  PROVE  OneOwnerUnlessOverlap'
BY DEF OneOwnerUnlessOverlap, LinksOK

\* The commit of an assignment: the links it had read are ended, and the new
\* one notes the others.
LEMMA CommitKeepsOwners ==
  ASSUME OwnerInv, NEW c \in Parent, AssignCommit(c)
  PROVE  LinksOK' /\ OneOwnerUnlessOverlap'
<1> DEFINE a == assigning[c]
<1>1. a # None /\ a.person \in Person /\ a.device \in Device
  BY DEF AssignCommit, OwnerInv, Requested
<1>2. CASE db' = db
  BY <1>2 DEF OwnerInv, LinksOK, OneOwnerUnlessOverlap
<1>3. CASE db' = [db EXCEPT !.links = Append(Ended(@, a), NewLink(a))]
  <2> HIDE DEF a
  <2> DEFINE links == db.links  ended == Ended(links, a)  new == NewLink(a)
  <2>1. links \in Seq(Link) /\ Len(links) \in Nat /\ DOMAIN links = 1..Len(links)
    BY DEF OwnerInv, LinksOK
  <2>2. /\ DOMAIN ended = DOMAIN links
        /\ \A i \in DOMAIN links :
             /\ ended[i] \in Link
             /\ ended[i].device = links[i].device /\ ended[i].unread = links[i].unread
             /\ ended[i].active => links[i].active /\ i \notin a.read
    <3> SUFFICES ASSUME NEW i \in DOMAIN links
                 PROVE  /\ ended[i] \in Link
                        /\ ended[i].device = links[i].device /\ ended[i].unread = links[i].unread
                        /\ ended[i].active => links[i].active /\ i \notin a.read
      BY DEF Ended
    <3>1. ended[i] = [links[i] EXCEPT !.active = links[i].active /\ i \notin a.read]
      BY DEF Ended
    <3>2. links[i] \in Link
      BY <2>1
    <3> DEFINE flag == links[i].active /\ i \notin a.read
    <3>3. flag \in BOOLEAN
      OBVIOUS
    <3>4. flag => links[i].active /\ i \notin a.read
      OBVIOUS
    <3> HIDE DEF flag, ended, links
    <3>5. ended[i] = [links[i] EXCEPT !.active = flag]
      BY <3>1 DEF flag
    <3>6. ended[i] \in Link /\ ended[i].active = flag
          /\ ended[i].device = links[i].device /\ ended[i].unread = links[i].unread
      BY <3>2, <3>3, <3>5 DEF Link
    <3>7. QED
      BY <3>4, <3>6
  <2>3. ended \in Seq(Link) /\ Len(ended) = Len(links)
    <3>1. ended = [i \in 1..Len(links) |-> ended[i]]
      BY <2>1 DEF Ended
    <3> HIDE DEF ended, links
    <3>2. ended \in [1..Len(links) -> Link]
      BY <3>1, <2>1, <2>2
    <3>3. QED
      BY <3>2, <2>1
  <2>4. new \in Link
    <3>1. a.person \in Person /\ a.device \in Device
      BY <1>1 DEF a
    <3>2. ActiveLinks(a.device) \ a.read \in SUBSET Nat
      BY <2>1 DEF ActiveLinks
    <3>3. QED
      BY <3>1, <3>2 DEF NewLink, Link
  <2>5. db'.links = Append(ended, new) /\ "links" \in DOMAIN db'
    BY <1>3 DEF OwnerInv, LinksOK
  <2>6. LinksOK'
    BY <2>3, <2>4, <2>5 DEF LinksOK
  <2>7. \A i \in DOMAIN links : ended[i].active /\ links[i].device = a.device => i \in new.unread
    BY <2>2 DEF NewLink, ActiveLinks
  <2>8. new.device = a.device
    BY DEF NewLink
  <2> HIDE DEF ended, new, links
  <2>9. /\ DOMAIN db'.links = 1..Len(links) + 1
        /\ \A i \in 1..Len(links) : db'.links[i] = ended[i]
        /\ db'.links[Len(links) + 1] = new
    BY <2>1, <2>3, <2>4, <2>5
  <2>10. ASSUME NEW i \in DOMAIN db'.links, NEW j \in DOMAIN db'.links, i < j,
                db'.links[i].active, db'.links[j].active,
                db'.links[i].device = db'.links[j].device
         PROVE  i \in db'.links[j].unread
    <3>1. i \in 1..Len(links) /\ db'.links[i] = ended[i]
      BY <2>1, <2>9, <2>10
    <3>2. CASE j = Len(links) + 1
      BY <2>1, <2>2, <2>7, <2>8, <2>9, <2>10, <3>1, <3>2
    <3>3. CASE j \in 1..Len(links)
      <4>1. db'.links[j] = ended[j]
        BY <2>9, <3>3
      <4>2. links[i].active /\ links[j].active /\ links[i].device = links[j].device
        BY <2>1, <2>2, <2>10, <3>1, <3>3, <4>1
      <4>3. i \in links[j].unread
        BY <4>2, <2>1, <2>10, <3>1, <3>3 DEF OwnerInv, OneOwnerUnlessOverlap, links
      <4>4. QED
        BY <2>1, <2>2, <3>3, <4>1, <4>3
    <3>4. QED
      BY <2>1, <2>9, <2>10, <3>2, <3>3
  <2>11. OneOwnerUnlessOverlap'
    BY <2>10 DEF OneOwnerUnlessOverlap
  <2>12. QED
    BY <2>6, <2>11
<1>4. QED
  BY <1>2, <1>3 DEF AssignCommit

\* Reading the links changes none.
LEMMA AssignReadKeeps ==
  ASSUME OwnerInv, NEW c \in Parent, NEW p \in Person, NEW d \in Device, AssignRead(c, p, d)
  PROVE  OwnerInv'
<1>1. db' = db /\ assigning' = [assigning EXCEPT ![c] = [person |-> p, device |-> d,
                                                         read |-> ActiveLinks(d)]]
  BY DEF AssignRead, Change
<1>2. LinksOK' /\ OneOwnerUnlessOverlap'
  BY <1>1 DEF OwnerInv, LinksOK, OneOwnerUnlessOverlap
<1>3. Requested'
  BY <1>1 DEF OwnerInv, Requested
<1>4. QED
  BY <1>2, <1>3 DEF OwnerInv

\* The end of one link.
LEMMA UnassignKeeps ==
  ASSUME OwnerInv, NEW p \in Person, NEW d \in Device, Unassign(p, d)
  PROVE  OwnerInv'
<1>1. PICK i \in ActiveLinks(d) : db' = [db EXCEPT !.links[i].active = FALSE]
  BY DEF Unassign, Change
<1>2. DOMAIN db.links = 1..Len(db.links) /\ Len(db.links) \in Nat /\ db.links \in Seq(Link)
  BY DEF OwnerInv, LinksOK
<1>3. i \in DOMAIN db.links
  BY DEF ActiveLinks
<1> DEFINE no == FALSE  links == db.links
<1>4. db'.links = [links EXCEPT ![i] = [links[i] EXCEPT !.active = no]] /\ "links" \in DOMAIN db'
  BY <1>1 DEF OwnerInv, LinksOK
<1>5. no \in BOOLEAN /\ ~no
  OBVIOUS
<1> HIDE DEF no
<1>6. \A j \in DOMAIN links :
        /\ db'.links[j] \in Link
        /\ db'.links[j].device = links[j].device
        /\ db'.links[j].unread = links[j].unread
        /\ db'.links[j].active => links[j].active
  <2> SUFFICES ASSUME NEW j \in DOMAIN links
               PROVE  /\ db'.links[j] \in Link
                      /\ db'.links[j].device = links[j].device
                      /\ db'.links[j].unread = links[j].unread
                      /\ db'.links[j].active => links[j].active
    OBVIOUS
  <2>1. links[j] \in Link
    BY <1>2
  <2>2. CASE j = i
    BY <2>1, <2>2, <1>3, <1>4, <1>5 DEF Link
  <2>3. CASE j # i
    BY <2>1, <2>3, <1>4
  <2>4. QED
    BY <2>2, <2>3
<1>7. DOMAIN db'.links = DOMAIN links
  BY <1>4
<1>8. db'.links \in Seq(Link)
  <2>1. db'.links = [j \in 1..Len(links) |-> db'.links[j]]
    BY <1>2, <1>4
  <2>2. db'.links \in [1..Len(links) -> Link]
    BY <2>1, <1>2, <1>6
  <2>3. QED
    BY <2>2, <1>2
<1>9. LinksOK'
  BY <1>4, <1>8 DEF LinksOK
<1>10. OneOwnerUnlessOverlap'
  BY <1>6, <1>7, <1>9, EndingKeepsOwners DEF OwnerInv
<1>11. Requested'
  BY DEF Unassign, OwnerInv, Requested
<1>12. QED
  BY <1>9, <1>10, <1>11 DEF OwnerInv

\* Nothing else writes links.
LEMMA OthersKeep ==
  ASSUME OwnerInv, UNCHANGED assigning, "links" \in DOMAIN db', db'.links = db.links
  PROVE  OwnerInv'
BY DEF OwnerInv, LinksOK, Requested, OneOwnerUnlessOverlap

\* The other writers leave the links alone.
LEMMA IngestKeeps == ASSUME OwnerInv, Ingest PROVE OwnerInv'
<1>1. "links" \in DOMAIN db
  BY DEF OwnerInv, LinksOK
<1>2. ASSUME NEW r \in Lookup, Decide(r) PROVE OwnerInv'
  <2>1. UNCHANGED assigning /\ \E fate : db' = [db EXCEPT !.activity[r] = fate]
    BY <1>2 DEF Decide, Change
  <2>2. QED
    BY <1>1, <2>1, OthersKeep
<1>3. ASSUME NEW d \in Device, Sight(d) PROVE OwnerInv'
  <2>1. UNCHANGED assigning
        /\ \E unknown : db' = [db EXCEPT !.seen[d] = now, !.unknown[d] = unknown]
    BY <1>3 DEF Sight, Change
  <2>2. QED
    BY <1>1, <2>1, OthersKeep
<1>4. ASSUME NEW s \in Source, Cycle(s) PROVE OwnerInv'
  <2>1. UNCHANGED assigning /\ \E row : db' = [db EXCEPT !.source[s] = row]
    BY <1>4 DEF Cycle, Change
  <2>2. QED
    BY <1>1, <2>1, OthersKeep
<1>5. CASE Tick
  BY <1>1, <1>5, OthersKeep DEF Tick, Change
<1>6. QED
  BY <1>2, <1>3, <1>4, <1>5 DEF Ingest

\* Every step keeps the owners.
LEMMA NextKeepsOwnerInv == OwnerInv /\ [Next]_vars => OwnerInv'
<1> SUFFICES ASSUME OwnerInv, [Next]_vars PROVE OwnerInv'
  OBVIOUS
<1>1. CASE Assignment
  <2>1. ASSUME NEW c \in Parent, AssignCommit(c) PROVE OwnerInv'
    <3>1. Requested'
      BY <2>1 DEF AssignCommit, OwnerInv, Requested
    <3>2. QED
      BY <2>1, <3>1, CommitKeepsOwners DEF OwnerInv
  <2>2. QED
    BY <1>1, <2>1, AssignReadKeeps, UnassignKeeps DEF Assignment
<1>2. CASE Ingest
  BY <1>2, IngestKeeps
<1>3. CASE AnswerBaseline
  <2>1. UNCHANGED assigning /\ \E b : db' = [db EXCEPT !.baselines[request.subject] = b]
    BY <1>3 DEF AnswerBaseline
  <2>2. QED
    BY <2>1, OthersKeep DEF OwnerInv, LinksOK
<1>4. CASE ~Assignment /\ ~Ingest /\ ~AnswerBaseline
  <2>1. UNCHANGED <<db, assigning>>
    BY <1>4 DEF Next, Outside, vars, householdVars, Ask, Select, AnswerSummary, AnswerActivity
  <2>2. QED
    BY <2>1 DEF OwnerInv, LinksOK, Requested, OneOwnerUnlessOverlap
<1>5. QED
  BY <1>1, <1>2, <1>3, <1>4

\* However many parents assign devices at a time: a device has two owners only
\* if the later assignment had read the links before the earlier one was
\* committed.
THEOREM OneOwnerUnlessOverlapAlways == Spec => []OneOwnerUnlessOverlap
<1>1. OwnerInv => OneOwnerUnlessOverlap
  BY DEF OwnerInv
<1>2. QED
  BY <1>1, InitOwnerInv, NextKeepsOwnerInv, PTL DEF Spec

-----------------------------------------------------------------------------
(***************************************************************************)
(* Lists of sets: CHOOSE finds an enumeration, and one in the order of     *)
(* time, because a finite set has one.                                     *)
(***************************************************************************)

\* The facts a list made of a set has: every element, once.
Lists(s, S) ==
  /\ s \in [1..Cardinality(S) -> S]
  /\ \A x \in S : \E i \in 1..Cardinality(S) : s[i] = x
  /\ \A i, j \in 1..Cardinality(S) : s[i] = s[j] => i = j

\* CHOOSE finds a listing of a finite set.
LEMMA SetListed ==
  ASSUME NEW S, IsFiniteSet(S)
  PROVE  SetToSeq(S) \in [1..Cardinality(S) -> S]
<1>1. PICK f \in [1..Cardinality(S) -> S] : \A i, j \in 1..Cardinality(S) : f[i] = f[j] => i = j
  <2>1. Cardinality(S) \in Nat /\ ExistsBijection(1..Cardinality(S), S)
    BY FS_CardinalityType, FS_NatBijection
  <2>2. QED
    BY <2>1 DEF ExistsBijection, Bijection, Injection, IsInjective
<1>2. IsInjective(f)
  BY <1>1 DEF IsInjective
<1>3. QED
  BY <1>2 DEF SetToSeq

\* Lookups can be put in the order of their time.
Falling(s, S) == s \in SetToSeqs(S) /\ \A i, j \in DOMAIN s : i < j => s[j].at <= s[i].at

\* Insert the rows one by one: each set of lookups has a list in which time
\* falls.
LEMMA OrderExists ==
  ASSUME NEW S \in SUBSET Lookup
  PROVE  \E s : Falling(s, S)
<1> DEFINE Sortable(n) == \A T \in SUBSET Lookup : Cardinality(T) = n => \E s : Falling(s, T)
           Ok == {n \in Nat : Sortable(n)}
<1>1. \A T \in SUBSET Lookup : IsFiniteSet(T) /\ Cardinality(T) \in Nat
  BY HouseholdAssumption, FS_Subset, FS_CardinalityType
<1>2. 0 \in Ok
  <2> SUFFICES ASSUME NEW T \in SUBSET Lookup, Cardinality(T) = 0 PROVE \E s : Falling(s, T)
    OBVIOUS
  <2> DEFINE s == [i \in 1..0 |-> CHOOSE x \in T : TRUE]
  <2>1. s \in [1..0 -> T] /\ DOMAIN s = {}
    OBVIOUS
  <2>2. Falling(s, T)
    BY <2>1 DEF Falling, SetToSeqs
  <2>3. QED
    BY <2>2
<1>3. ASSUME NEW n \in Nat, n \in Ok PROVE n + 1 \in Ok
  <2> SUFFICES ASSUME NEW T \in SUBSET Lookup, Cardinality(T) = n + 1 PROVE \E s : Falling(s, T)
    OBVIOUS
  <2>1. T # {}
    BY <1>1, FS_EmptySet
  <2>2. PICK r \in T : \A x \in T : r.at <= x.at
    <3> DEFINE times == {x.at : x \in T}
    <3>1. times \in SUBSET Nat /\ times # {}
      BY <2>1, HouseholdAssumption
    <3>2. PICK m \in times : \A k \in times : m <= k
      BY <3>1, LeastNatural
    <3>3. QED
      BY <3>2
  <2> DEFINE rest == T \ {r}
  <2>3. rest \in SUBSET Lookup /\ Cardinality(rest) = n
    BY <1>1, FS_RemoveElement
  <2>4. PICK s : Falling(s, rest)
    BY <1>3, <2>3
  <2>5. /\ s \in [1..n -> rest] /\ \A i, j \in 1..n : i # j => s[i] # s[j]
        /\ \A i, j \in 1..n : i < j => s[j].at <= s[i].at
    BY <2>3, <2>4 DEF Falling, SetToSeqs
  <2> DEFINE t == [i \in 1..(n + 1) |-> IF i = n + 1 THEN r ELSE s[i]]
  <2>6. \A i \in 1..(n + 1) : t[i] = IF i = n + 1 THEN r ELSE s[i]
    OBVIOUS
  <2>7. t \in [1..(n + 1) -> T]
    BY <2>5
  <2> HIDE DEF t
  <2>8. \A i, j \in 1..(n + 1) : i # j => t[i] # t[j]
    BY <2>5, <2>6
  <2>9. \A i, j \in 1..(n + 1) : i < j => t[j].at <= t[i].at
    <3> TAKE i, j \in 1..(n + 1)
    <3> HAVE i < j
    <3>1. i \in 1..n /\ t[i] = s[i] /\ s[i] \in T
      BY <2>5, <2>6
    <3>2. CASE j = n + 1
      BY <2>2, <2>6, <3>1, <3>2
    <3>3. CASE j \in 1..n
      BY <2>5, <2>6, <3>1, <3>3
    <3>4. QED
      BY <3>2, <3>3
  <2>10. Falling(t, T)
    BY <2>7, <2>8, <2>9 DEF Falling, SetToSeqs
  <2>11. QED
    BY <2>10
<1>4. Nat \subseteq Ok
  <2> HIDE DEF Ok
  <2>1. QED
    BY <1>2, <1>3, NatSetInduction
<1>5. QED
  BY <1>1, <1>4

\* So the order of the query is one of all its rows.
LEMMA OrderedLists == ASSUME NEW S \in SUBSET Lookup PROVE Lists(Ordered(S), S)
<1>1. IsFiniteSet(S) /\ Cardinality(S) \in Nat
  BY HouseholdAssumption, FS_Subset, FS_CardinalityType
<1>2. Falling(Ordered(S), S)
  <2>1. \E s \in SetToSeqs(S) : \A i, j \in DOMAIN s : i < j => s[j].at <= s[i].at
    BY OrderExists DEF Falling
  <2>2. QED
    BY <2>1 DEF Falling, Ordered
<1> DEFINE s == Ordered(S)  n == Cardinality(S)
<1>3. s \in [1..n -> S] /\ \A i, j \in 1..n : s[i] = s[j] => i = j
  BY <1>2 DEF Falling, SetToSeqs
<1> HIDE DEF s, n
<1>4. IsFiniteSet(1..n) /\ Cardinality(1..n) = n /\ n = Cardinality(S)
  BY <1>1, FS_Interval DEF n
<1>5. s \in Surjection(1..n, S)
  <2>1. s \in Injection(1..n, S)
    BY <1>3 DEF Injection, IsInjective
  <2>2. QED
    BY <1>1, <1>4, <2>1, FS_Injection
<1>6. \A x \in S : \E i \in 1..n : s[i] = x
  BY <1>5 DEF Surjection
<1>7. QED
  BY <1>3, <1>6 DEF Lists, s, n

\* A loop of _load_recent_dns_activity appends what is new, up to the limit.
LEMMA AppendedFacts ==
  ASSUME NEW items \in Seq(Lookup), Len(items) <= RecentLimit, IsInjective(items),
         NEW rows \in SUBSET Lookup
  PROVE  LET t == Appended(items, rows) IN
         /\ t \in Seq(Lookup) /\ Len(t) <= RecentLimit /\ IsInjective(t)
         /\ Range(items) \subseteq Range(t) /\ Range(t) \subseteq Range(items) \cup rows
         /\ Len(t) = RecentLimit \/ rows \subseteq Range(t)
         /\ Len(items) = RecentLimit => Len(t) = RecentLimit /\ Range(t) = Range(items)
<1> DEFINE S == rows \ Range(items)  s == Ordered(S)  n == Cardinality(S)  l == Len(items)
           room == RecentLimit - l
           m == IF n < room THEN n ELSE room
           cut == SubSeq(s, 1, m)
           t == items \o cut
<1>1. Lists(s, S)
  BY OrderedLists
<1>2. n \in Nat /\ l \in Nat /\ RecentLimit \in Nat
  BY HouseholdAssumption, DashboardAssumption, FS_Subset, FS_CardinalityType
<1>3. m \in Nat /\ m <= n /\ m <= room /\ (m = n \/ m = room) /\ room \in Nat
  <2> HIDE DEF n, l
  <2>1. l <= RecentLimit
    BY DEF l
  <2>2. QED
    BY <1>2, <2>1
<1>4. s \in [1..n -> S] /\ (\A x \in S : \E i \in 1..n : s[i] = x)
      /\ \A i, j \in 1..n : s[i] = s[j] => i = j
  BY <1>1 DEF Lists
<1>5. DOMAIN items = 1..l /\ \A i \in 1..l : items[i] \in Lookup
  OBVIOUS
<1>6. Appended(items, rows) = t
  <2>1. Len(s) = n
    <3> HIDE DEF s, n
    <3>1. QED
      BY <1>2, <1>4
  <2>2. QED
    BY <2>1 DEF Appended
<1> HIDE DEF s, n, m
<1>7. cut \in Seq(Lookup) /\ Len(cut) = m /\ \A i \in 1..m : cut[i] = s[i] /\ cut[i] \in S
  <2>1. s \in Seq(Lookup)
    <3>1. s \in Seq(S) /\ S \subseteq Lookup
      BY <1>2, <1>4
    <3>2. QED
      BY <1>2, <1>4
  <2>2. Len(s) = n
    BY <1>2, <1>4
  <2>3. cut \in Seq(Lookup) /\ Len(cut) = m /\ \A i \in 1..m : cut[i] = s[i]
    BY <1>2, <1>3, <2>1, <2>2
  <2> HIDE DEF cut, S
  <2>4. \A i \in 1..m : i \in 1..n
    BY <1>2, <1>3
  <2>5. QED
    BY <1>4, <2>3, <2>4
<1> HIDE DEF cut
<1>8. /\ t \in Seq(Lookup) /\ Len(t) = l + m /\ DOMAIN t = 1..(l + m)
      /\ \A i \in 1..l : t[i] = items[i]
      /\ \A i \in 1..m : t[l + i] = cut[i]
  BY <1>3, <1>5, <1>7
<1>9. \A i \in 1..(l + m) : i \in 1..l \/ (i - l \in 1..m /\ i = l + (i - l))
  BY <1>2, <1>3
<1>10. \A i \in 1..l : items[i] \in Range(items)
  BY <1>5 DEF Range
<1>11. \A i \in 1..m : l + i \in 1..(l + m)
  BY <1>2, <1>3
<1>12. \A i \in 1..l : i \in 1..(l + m)
  BY <1>2, <1>3
<1> HIDE DEF t
<1>13. Range(items) \subseteq Range(t)
  BY <1>5, <1>8, <1>12 DEF Range
<1>14. Range(t) \subseteq Range(items) \cup S
  <2> SUFFICES ASSUME NEW i \in 1..(l + m) PROVE t[i] \in Range(items) \cup S
    BY <1>8 DEF Range
  <2>1. CASE i \in 1..l
    BY <1>8, <1>10, <2>1
  <2>2. CASE i - l \in 1..m /\ i = l + (i - l)
    <3>1. t[i] = cut[i - l] /\ cut[i - l] \in S
      BY <1>7, <1>8, <2>2
    <3>2. QED
      BY <3>1
  <2>3. QED
    BY <1>9, <2>1, <2>2
<1>15. IsInjective(t)
  <2> SUFFICES ASSUME NEW i \in 1..(l + m), NEW j \in 1..(l + m), t[i] = t[j] PROVE i = j
    BY <1>8 DEF IsInjective
  <2>1. CASE i \in 1..l /\ j \in 1..l
    BY <1>5, <1>8, <2>1 DEF IsInjective
  <2>2. ASSUME NEW a \in 1..l, NEW b \in 1..m PROVE t[a] # t[l + b]
    BY <1>7, <1>8, <1>10
  <2>3. ASSUME NEW a \in 1..m, NEW b \in 1..m, t[l + a] = t[l + b] PROVE a = b
    <3>1. a \in 1..n /\ b \in 1..n
      BY <1>2, <1>3
    <3>2. s[a] = s[b]
      BY <1>7, <1>8, <2>3
    <3>3. QED
      BY <1>4, <3>1, <3>2
  <2>4. CASE i \in 1..l /\ j - l \in 1..m /\ j = l + (j - l)
    BY <2>2, <2>4
  <2>5. CASE j \in 1..l /\ i - l \in 1..m /\ i = l + (i - l)
    BY <2>2, <2>5
  <2>6. CASE i - l \in 1..m /\ i = l + (i - l) /\ j - l \in 1..m /\ j = l + (j - l)
    <3>1. i - l = j - l
      BY <2>3, <2>6
    <3>2. QED
      BY <1>2, <3>1
  <2>7. QED
    BY <1>9, <2>1, <2>4, <2>5, <2>6
<1>16. CASE m = room
  <2>1. Len(t) = RecentLimit
    BY <1>2, <1>3, <1>8, <1>16
  <2>2. l = RecentLimit => m = 0
    BY <1>2, <1>3, <1>16
  <2>3. l = RecentLimit => Range(t) \subseteq Range(items)
    BY <1>2, <1>8, <1>10, <2>2 DEF Range
  <2>4. QED
    BY <1>6, <1>8, <1>13, <1>14, <1>15, <2>1, <2>3
<1>17. CASE m = n
  <2>1. S \subseteq Range(t)
    <3> SUFFICES ASSUME NEW x \in S PROVE x \in Range(t)
      OBVIOUS
    <3>1. PICK i \in 1..m : s[i] = x
      BY <1>4, <1>17
    <3>2. t[l + i] = x /\ l + i \in DOMAIN t
      BY <1>7, <1>8, <1>11, <3>1
    <3>3. QED
      BY <3>2 DEF Range
  <2>2. rows \subseteq Range(t)
    BY <1>13, <2>1
  <2>3. Len(t) <= RecentLimit
    BY <1>2, <1>3, <1>8
  <2>4. l = RecentLimit => m = room
    BY <1>2, <1>3
  <2>5. QED
    BY <1>6, <1>8, <1>13, <1>14, <1>15, <1>16, <2>2, <2>3, <2>4
<1>18. QED
  BY <1>3, <1>16, <1>17

\* What needs attention is listed, sources first, up to the limit.
LEMMA AttentionFacts ==
  ASSUME NEW troubled \in SUBSET Source, NEW shown \in SUBSET Lookup, NEW noticed \in SUBSET Device
  PROVE  LET items == AttentionItems(troubled, shown, noticed) IN
         /\ Len(items) <= AttentionLimit
         /\ troubled \cup shown \cup noticed # {} => items # << >>
<1> DEFINE a == SetToSeq(troubled)  b == Ordered(shown)  c == SetToSeq(noticed)
           i == Cardinality(troubled)  j == Cardinality(shown)  k == Cardinality(noticed)
           all == a \o b \o c
           U == Source \cup Lookup \cup Device
<1>1. IsFiniteSet(troubled) /\ IsFiniteSet(shown) /\ IsFiniteSet(noticed)
  BY HouseholdAssumption, FS_Subset
<1>2. i \in Nat /\ j \in Nat /\ k \in Nat
  BY <1>1, FS_CardinalityType
<1>3. troubled \cup shown \cup noticed # {} => i # 0 \/ j # 0 \/ k # 0
  BY <1>1, FS_EmptySet
<1>4. a \in [1..i -> troubled] /\ b \in [1..j -> shown] /\ c \in [1..k -> noticed]
  BY <1>1, SetListed, OrderedLists DEF Lists
<1> HIDE DEF a, b, c, i, j, k
<1>5. /\ a \in Seq(U) /\ b \in Seq(U) /\ c \in Seq(U)
      /\ Len(a) = i /\ Len(b) = j /\ Len(c) = k
  BY <1>2, <1>4
<1> HIDE DEF U
<1>6. all \in Seq(U) /\ Len(all) = i + j + k
  BY <1>2, <1>5
<1> HIDE DEF all
<1>7. AttentionItems(troubled, shown, noticed) =
        SubSeq(all, 1, IF Len(all) < AttentionLimit THEN Len(all) ELSE AttentionLimit)
  BY DEF AttentionItems, all, a, b, c
<1>8. AttentionLimit \in Nat \ {0}
  BY DashboardAssumption
<1> DEFINE cut == IF Len(all) < AttentionLimit THEN Len(all) ELSE AttentionLimit
<1>9. cut \in Nat /\ cut <= Len(all) /\ cut <= AttentionLimit /\ (Len(all) # 0 => cut # 0)
  BY <1>2, <1>6, <1>8
<1> HIDE DEF cut
<1>10. Len(SubSeq(all, 1, cut)) = cut
  BY <1>6, <1>9
<1>11. SubSeq(all, 1, cut) = << >> => cut = 0
  BY <1>10
<1>12. troubled \cup shown \cup noticed # {} => Len(all) # 0
  BY <1>2, <1>3, <1>6
<1>13. QED
  BY <1>7, <1>9, <1>10, <1>11, <1>12 DEF cut

-----------------------------------------------------------------------------
(***************************************************************************)
(* The fields of a summary by the databases of its SELECTs, and the        *)
(* invariant of the requests.                                              *)
(***************************************************************************)

\* The databases of a summary by the names of its SELECTs.
Seen(v) == [name \in Range(SummaryPlan) |->
              v[CHOOSE i \in DOMAIN SummaryPlan : SummaryPlan[i] = name]]

\* The name of a SELECT stands for its place in the plan.
LEMMA SeenAt ==
  ASSUME NEW v
  PROVE  /\ Len(SummaryPlan) = 11
         /\ Seen(v).health = v[1] /\ Seen(v).devices = v[2] /\ Seen(v).owners = v[3]
         /\ Seen(v).review = v[4] /\ Seen(v).count = v[5] /\ Seen(v).links = v[6]
         /\ Seen(v).latest = v[7] /\ Seen(v).blocked = v[8] /\ Seen(v).recent = v[9]
         /\ Seen(v).attributed = v[10] /\ Seen(v).volume = v[11]
<1> DEFINE p == SummaryPlan
<1>1. DOMAIN p = 1..11 /\ Len(p) = 11
  BY DEF SummaryPlan
<1>2. /\ p[1] = "health" /\ p[2] = "devices" /\ p[3] = "owners" /\ p[4] = "review"
      /\ p[5] = "count" /\ p[6] = "links" /\ p[7] = "latest" /\ p[8] = "blocked"
      /\ p[9] = "recent" /\ p[10] = "attributed" /\ p[11] = "volume"
  BY DEF SummaryPlan
<1>3. \A i \in 1..11 : i = 1 \/ i = 2 \/ i = 3 \/ i = 4 \/ i = 5 \/ i = 6 \/ i = 7
                       \/ i = 8 \/ i = 9 \/ i = 10 \/ i = 11
  OBVIOUS
<1> HIDE DEF p
<1>4. ASSUME NEW i \in 1..11, NEW name, p[i] = name, \A j \in 1..11 : p[j] = name => j = i
      PROVE  Seen(v)[name] = v[i]
  <2>1. name \in Range(p)
    BY <1>1, <1>4 DEF Range
  <2>2. (CHOOSE j \in DOMAIN p : p[j] = name) = i
    BY <1>1, <1>4
  <2>3. QED
    BY <2>1, <2>2 DEF Seen, p
<1>5. Seen(v).health = v[1]
  BY <1>2, <1>3, <1>4
<1>6. Seen(v).devices = v[2]
  BY <1>2, <1>3, <1>4
<1>7. Seen(v).owners = v[3]
  BY <1>2, <1>3, <1>4
<1>8. Seen(v).review = v[4]
  BY <1>2, <1>3, <1>4
<1>9. Seen(v).count = v[5]
  BY <1>2, <1>3, <1>4
<1>10. Seen(v).links = v[6]
  BY <1>2, <1>3, <1>4
<1>11. Seen(v).latest = v[7]
  BY <1>2, <1>3, <1>4
<1>12. Seen(v).blocked = v[8]
  BY <1>2, <1>3, <1>4
<1>13. Seen(v).recent = v[9]
  BY <1>2, <1>3, <1>4
<1>14. Seen(v).attributed = v[10]
  BY <1>2, <1>3, <1>4
<1>15. Seen(v).volume = v[11]
  BY <1>2, <1>3, <1>4
<1>16. QED
  BY <1>1, <1>5, <1>6, <1>7, <1>8, <1>9, <1>10, <1>11, <1>12, <1>13, <1>14, <1>15 DEF p

\* The rows that the LIMITs of a summary let through.
Fresh(rows, at) == {r \in rows : r.at >= at - OnlineTicks}
Stored(database) == {r \in Lookup : database.activity[r] # NoRow}

LetThrough(at, view, shown, blocked, recent, attributed) ==
  /\ shown \in Newest(Waiting(view.review), AttentionLimit)
  /\ blocked \in Newest(Fresh({r \in Stored(view.blocked) : r.blocked}, at), RecentLimit)
  /\ recent \in Newest(Fresh(Waiting(view.recent), at), RecentLimit)
  /\ attributed \in Newest(Fresh(Attributed(view.attributed), at), RecentLimit)

\* The list of recent lookups, and the activity the session has of a row.
First(blocked) == Appended(<< >>, blocked)
Second(blocked, recent) == Appended(First(blocked), recent)
RecentRows(blocked, recent, attributed) == Appended(Second(blocked, recent), attributed)

FateIn(view, shown, blocked, recent, r) ==
  IF r \in shown THEN Review
  ELSE IF r \in Range(First(blocked)) THEN view.blocked.activity[r]
  ELSE IF r \in Range(Second(blocked, recent)) THEN view.recent.activity[r]
  ELSE view.attributed.activity[r]

Held(view, shown, blocked, recent, attributed) ==
  [r \in shown \cup Range(RecentRows(blocked, recent, attributed)) |->
     FateIn(view, shown, blocked, recent, r)]

Troubled(view, at) == {s \in Source : StatusOf(view.health, s, at) # "ok"}

Counted(view, at) ==
  Cardinality(Troubled(view, at)) + Cardinality(Noticed(view.devices, view.owners, at))
    + Cardinality(Waiting(view.count))

\* What is in the answer to a summary.
SummaryOf(a, at, view, shown, blocked, recent, attributed) ==
  LET held == Held(view, shown, blocked, recent, attributed)
      all == RecentRows(blocked, recent, attributed)
  IN
     /\ a.down = Incomplete(view.health, at)
     /\ a.count = Counted(view, at)
     /\ a.items = AttentionItems(Troubled(view, at), shown, Noticed(view.devices, view.owners, at))
     /\ a.children = [c \in Child |->
          {d \in DevicesOf(view.links, c) :
             \/ d \in Present(view.devices, at, Incomplete(view.health, at))
             \/ d \in Lively(view.latest, at, Incomplete(view.health, at))}]
     /\ a.today = IF "pihole_api" \in Incomplete(view.health, at) THEN None
                  ELSE HouseholdRows(view.volume, held, at - Window, at)
     /\ a.recent = IF "pihole_api" \in Incomplete(view.health, at) THEN None
                   ELSE [i \in DOMAIN all |->
                          [row |-> all[i], device |-> held[all[i]],
                           owners |-> IF held[all[i]] \in Device
                                      THEN Owners(view.owners, held[all[i]]) ELSE {},
                           kind |-> IF held[all[i]] = Review THEN "correlation_review"
                                    ELSE IF all[i].blocked THEN "blocked_dns"
                                    ELSE "attributed_dns"]]
     /\ a.calm = (Incomplete(view.health, at) = {} /\ Counted(view, at) = 0)

\* The code computes such an answer.
LEMMA SummaryFields ==
  ASSUME NEW at, NEW view, NEW shown, NEW blocked, NEW recent, NEW attributed
  PROVE  SummaryOf(SummaryAnswer(at, view, shown, blocked, recent, attributed),
                   at, view, shown, blocked, recent, attributed)
<1> DEFINE a == SummaryAnswer(at, view, shown, blocked, recent, attributed)
           held == Held(view, shown, blocked, recent, attributed)
           all == RecentRows(blocked, recent, attributed)
<1>1. a.down = Incomplete(view.health, at)
  BY DEF SummaryAnswer
<1>2. a.count = Counted(view, at)
  BY DEF SummaryAnswer, Counted, Troubled
<1>3. a.items = AttentionItems(Troubled(view, at), shown, Noticed(view.devices, view.owners, at))
  BY DEF SummaryAnswer, Troubled
<1>4. a.children = [c \in Child |->
         {d \in DevicesOf(view.links, c) :
            \/ d \in Present(view.devices, at, Incomplete(view.health, at))
            \/ d \in Lively(view.latest, at, Incomplete(view.health, at))}]
  BY DEF SummaryAnswer
<1>5. a.today = IF "pihole_api" \in Incomplete(view.health, at) THEN None
                ELSE HouseholdRows(view.volume, held, at - Window, at)
  BY DEF SummaryAnswer, Held, FateIn, First, Second, RecentRows
<1>6. a.recent = IF "pihole_api" \in Incomplete(view.health, at) THEN None
                 ELSE [i \in DOMAIN all |->
                        [row |-> all[i], device |-> held[all[i]],
                         owners |-> IF held[all[i]] \in Device
                                    THEN Owners(view.owners, held[all[i]]) ELSE {},
                         kind |-> IF held[all[i]] = Review THEN "correlation_review"
                                  ELSE IF all[i].blocked THEN "blocked_dns"
                                  ELSE "attributed_dns"]]
  BY DEF SummaryAnswer, Held, FateIn, First, Second, RecentRows
<1>7. a.calm = (Incomplete(view.health, at) = {} /\ Counted(view, at) = 0)
  BY DEF SummaryAnswer, Counted, Troubled
<1>8. QED
  BY <1>1, <1>2, <1>3, <1>4, <1>5, <1>6, <1>7 DEF SummaryOf

\* A database has a fate for every lookup.
DatabaseOK(d) ==
  {"activity", "links"} \subseteq DOMAIN d
  /\ d.activity \in [Lookup -> Fate] /\ d.links \in Seq(Link)

\* A request has seen databases, one for each SELECT so far.
Asking(q) ==
  /\ \E S : q \in [kind : {"summary", "baseline", "activity"}, subject : Child \cup {None},
                   at : Int, view : Seq(S)]
  /\ \A i \in DOMAIN q.view : DatabaseOK(q.view[i])
  /\ Len(q.view) <= Selects(q.kind)

\* An answer is the function of these databases that the code computes.
AnswerOf(q, a) ==
  /\ Len(q.view) = Selects(q.kind)
  /\ q.kind = "summary" =>
       \E shown, blocked, recent, attributed :
         /\ LetThrough(q.at, Seen(q.view), shown, blocked, recent, attributed)
         /\ a = SummaryAnswer(q.at, Seen(q.view), shown, blocked, recent, attributed)
  /\ q.kind = "baseline" => a = BaselineAnswer(q.subject, q.at, q.view)
  /\ q.kind = "activity" => a = ActivityAnswer(q.subject, q.at, q.view)

AnswerInv ==
  /\ now \in Int /\ DatabaseOK(db)
  /\ request # None => Asking(request)
  /\ answer # None => request # None /\ AnswerOf(request, answer)

\* In the beginning nothing was asked.
LEMMA InitAnswerInv == ASSUME Init PROVE AnswerInv
<1>1. now \in Int /\ db \in Start /\ request = None /\ answer = None
  BY HouseholdAssumption DEF Init, HouseholdInit
<1>2. DatabaseOK(db)
  BY <1>1, StartAssumption DEF DatabaseOK
<1>3. QED
  BY <1>1, <1>2 DEF AnswerInv

\* Only the fates of lookups, and the links, matter here.
LEMMA SameAnswer ==
  ASSUME AnswerInv, UNCHANGED <<request, answer>>, now' \in Int, DatabaseOK(db')
  PROVE  AnswerInv'
<1>1. DatabaseOK(db)'
  BY DEF DatabaseOK
<1>2. request # None => Asking(request)'
  BY DEF AnswerInv, Asking, DatabaseOK
<1>3. answer # None => AnswerOf(request, answer)'
  BY DEF AnswerInv
<1>4. QED
  BY <1>1, <1>2, <1>3 DEF AnswerInv

-----------------------------------------------------------------------------
(***************************************************************************)
(* Every step keeps it.                                                    *)
(***************************************************************************)

\* A commit that leaves the fates alone.
LEMMA FatesKept ==
  ASSUME AnswerInv, LinksOK', "activity" \in DOMAIN db', db'.activity = db.activity
  PROVE  DatabaseOK(db')
BY DEF AnswerInv, DatabaseOK, LinksOK

\* Assignments change links only.
LEMMA AssignmentFates ==
  ASSUME AnswerInv, OwnerInv', Assignment
  PROVE  DatabaseOK(db') /\ now' \in Int
<1>1. {"activity", "links"} \subseteq DOMAIN db /\ now \in Int
  BY DEF AnswerInv, DatabaseOK
<1>2. LinksOK' /\ now' \in Int
  BY <1>1 DEF OwnerInv, Assignment, AssignRead, AssignCommit, Unassign
<1>3. "activity" \in DOMAIN db' /\ db'.activity = db.activity
  <2>1. ASSUME NEW c \in Parent, AssignCommit(c) PROVE db' = db \/ \E l : db' = [db EXCEPT !.links = l]
    BY <2>1 DEF AssignCommit
  <2>2. ASSUME NEW p \in Person, NEW d \in Device, Unassign(p, d)
        PROVE  \E l : db' = [db EXCEPT !.links = l]
    <3>1. PICK i : db' = [db EXCEPT !.links[i].active = FALSE]
      BY <2>2 DEF Unassign, Change
    <3>2. db' = [db EXCEPT !.links = [db.links EXCEPT ![i].active = FALSE]]
      BY <3>1
    <3>3. QED
      BY <3>2
  <2>3. ASSUME NEW c \in Parent, NEW p \in Person, NEW d \in Device, AssignRead(c, p, d) PROVE db' = db
    BY <2>3 DEF AssignRead, Change
  <2>4. db' = db \/ \E l : db' = [db EXCEPT !.links = l]
    BY <2>1, <2>2, <2>3 DEF Assignment
  <2>5. QED
    BY <1>1, <2>4
<1>4. QED
  BY <1>2, <1>3, FatesKept

\* The other writers keep a fate for every lookup, and never turn back the
\* clock.
LEMMA IngestFates ==
  ASSUME AnswerInv, OwnerInv', Ingest
  PROVE  DatabaseOK(db') /\ now' \in Int
<1>1. /\ {"activity", "links"} \subseteq DOMAIN db /\ now \in Int
      /\ db.activity \in [Lookup -> Fate]
  BY DEF AnswerInv, DatabaseOK
<1>2. now' \in Int
  <2>1. ASSUME NEW r \in Lookup, Decide(r) PROVE now' = now
    BY <2>1 DEF Decide
  <2>2. ASSUME NEW d \in Device, Sight(d) PROVE now' = now
    BY <2>2 DEF Sight
  <2>3. ASSUME NEW s \in Source, Cycle(s) PROVE now' = now
    BY <2>3 DEF Cycle
  <2>4. CASE Tick
    BY <1>1, <2>4 DEF Tick
  <2>5. QED
    BY <1>1, <2>1, <2>2, <2>3, <2>4 DEF Ingest
<1>3. LinksOK'
  BY DEF OwnerInv
<1>4. ASSUME NEW r \in Lookup, Decide(r) PROVE DatabaseOK(db')
  <2>1. PICK fate \in Fate : db' = [db EXCEPT !.activity[r] = fate]
    <3> DEFINE fates == CASE db.activity[r] = NoRow   -> Device \cup {Review}
                          [] db.activity[r] = Review  -> Device \cup {Ignored}
                          [] db.activity[r] = Ignored -> {}
                          [] OTHER                    -> (Device \ {db.activity[r]}) \cup {Review}
    <3>1. \E fate \in fates : db' = [db EXCEPT !.activity[r] = fate]
      BY <1>4 DEF Decide, Change
    <3>2. fates \subseteq Fate
      BY DEF Fate
    <3> HIDE DEF fates
    <3>3. QED
      BY <3>1, <3>2
  <2>2. /\ "activity" \in DOMAIN db' /\ db'.activity = [db.activity EXCEPT ![r] = fate]
        /\ "links" \in DOMAIN db'
    BY <1>1, <2>1
  <2>3. db'.activity \in [Lookup -> Fate]
    BY <1>1, <2>2
  <2>4. QED
    BY <1>3, <2>2, <2>3 DEF DatabaseOK, LinksOK
<1>5. ASSUME NEW d \in Device, Sight(d) PROVE DatabaseOK(db')
  <2>1. \E unknown : db' = [db EXCEPT !.seen[d] = now, !.unknown[d] = unknown]
    BY <1>5 DEF Sight, Change
  <2>2. QED
    BY <1>1, <1>3, <2>1, FatesKept
<1>6. ASSUME NEW s \in Source, Cycle(s) PROVE DatabaseOK(db')
  <2>1. \E row : db' = [db EXCEPT !.source[s] = row]
    BY <1>6 DEF Cycle, Change
  <2>2. QED
    BY <1>1, <1>3, <2>1, FatesKept
<1>7. CASE Tick
  BY <1>1, <1>3, <1>7, FatesKept DEF Tick, Change
<1>8. QED
  BY <1>2, <1>4, <1>5, <1>6, <1>7 DEF Ingest

\* A new request has seen nothing and has no answer.
LEMMA AskAnswers ==
  ASSUME AnswerInv, NEW kind \in {"summary", "baseline", "activity"},
         NEW subject \in Child \cup {None}, Ask(kind, subject)
  PROVE  AnswerInv'
<1>1. /\ request' = [kind |-> kind, subject |-> subject, at |-> now, view |-> << >>]
      /\ answer' = None /\ UNCHANGED <<now, db>>
  BY DEF Ask, householdVars
<1>2. now \in Int /\ Samples \in Nat
  BY DashboardAssumption DEF AnswerInv
<1>3. request' \in [kind : {"summary", "baseline", "activity"}, subject : Child \cup {None},
                    at : Int, view : Seq({})]
  BY <1>1, <1>2
<1>4. request'.kind = kind /\ request'.view = << >> /\ DOMAIN request'.view = {} /\ Len(request'.view) = 0
  BY <1>1
<1>5. Len(request'.view) <= Selects(kind)
  BY <1>2, <1>4, SeenAt DEF Selects
<1>6. Asking(request')
  BY <1>3, <1>4, <1>5 DEF Asking
<1>7. Asking(request)'
  BY <1>6 DEF Asking, DatabaseOK
<1>8. DatabaseOK(db)'
  BY <1>1 DEF AnswerInv, DatabaseOK
<1>9. QED
  BY <1>1, <1>2, <1>7, <1>8 DEF AnswerInv

\* A SELECT adds the database of its moment.
LEMMA SelectAnswers ==
  ASSUME AnswerInv, Select
  PROVE  AnswerInv'
<1>1. /\ request # None /\ request' = [request EXCEPT !.view = Append(request.view, db)]
      /\ Len(request.view) < Selects(request.kind) /\ UNCHANGED <<now, db, answer>>
  BY DEF Select, householdVars
<1>2. PICK S : request \in [kind : {"summary", "baseline", "activity"}, subject : Child \cup {None},
                            at : Int, view : Seq(S)]
  BY <1>1 DEF AnswerInv, Asking
<1>3. DatabaseOK(db) /\ \A i \in DOMAIN request.view : DatabaseOK(request.view[i])
  BY <1>1 DEF AnswerInv, Asking
<1>4. request.view \in Seq(S)
  BY <1>2
<1> DEFINE v == request.view  w == Append(v, db)
<1>5. /\ w \in Seq(S \cup {db}) /\ Len(w) = Len(v) + 1 /\ Len(v) \in Nat
      /\ DOMAIN w = 1..(Len(v) + 1) /\ DOMAIN v = 1..Len(v)
      /\ w[Len(v) + 1] = db /\ \A i \in 1..Len(v) : w[i] = v[i]
  BY <1>4
<1>6. \A i \in DOMAIN w : DatabaseOK(w[i])
  <2> SUFFICES ASSUME NEW i \in 1..(Len(v) + 1) PROVE DatabaseOK(w[i])
    BY <1>5
  <2>1. i = Len(v) + 1 \/ i \in 1..Len(v)
    BY <1>5
  <2> HIDE DEF v, w
  <2>2. QED
    BY <1>3, <1>5, <2>1 DEF v
<1> HIDE DEF w
<1>7. /\ request' \in [kind : {"summary", "baseline", "activity"}, subject : Child \cup {None},
                       at : Int, view : Seq(S \cup {db})]
      /\ request'.view = w /\ request'.kind = request.kind
  BY <1>1, <1>2, <1>5 DEF w
<1>8. Selects(request.kind) \in Nat
  BY <1>2, DashboardAssumption, SeenAt DEF Selects
<1>9. Asking(request')
  BY <1>1, <1>5, <1>6, <1>7, <1>8 DEF Asking
<1>10. Asking(request)'
  BY <1>9 DEF Asking, DatabaseOK
<1>11. answer = None
  <2> SUFFICES ASSUME answer # None PROVE FALSE
    OBVIOUS
  <2>1. Len(request.view) = Selects(request.kind)
    BY DEF AnswerInv, AnswerOf
  <2>2. QED
    BY <1>1, <1>5, <1>8, <2>1
<1>12. DatabaseOK(db)'
  BY <1>1, <1>3 DEF DatabaseOK
<1>13. QED
  BY <1>1, <1>10, <1>11, <1>12 DEF AnswerInv

\* The answer to a summary is computed from what the request saw.
LEMMA SummaryAnswers ==
  ASSUME AnswerInv, AnswerSummary
  PROVE  AnswerInv'
<1>1. /\ request # None /\ UNCHANGED <<request, now, db>>
      /\ request.kind = "summary" /\ Len(request.view) = Selects("summary")
  BY DEF AnswerSummary, Done, householdVars
<1>2. \E shown, blocked, recent, attributed :
        /\ LetThrough(request.at, Seen(request.view), shown, blocked, recent, attributed)
        /\ answer' = SummaryAnswer(request.at, Seen(request.view), shown, blocked, recent, attributed)
  <2> DEFINE v == Seen(request.view)  at == request.at
             s1 == Newest(Waiting(v.review), AttentionLimit)
             s2 == Newest(Fresh({r \in Stored(v.blocked) : r.blocked}, at), RecentLimit)
             s3 == Newest(Fresh(Waiting(v.recent), at), RecentLimit)
             s4 == Newest(Fresh(Attributed(v.attributed), at), RecentLimit)
  <2>1. \E shown \in s1, blocked \in s2, recent \in s3, attributed \in s4 :
          answer' = SummaryAnswer(at, v, shown, blocked, recent, attributed)
    BY DEF AnswerSummary, Seen, Fresh, Stored
  <2>2. ASSUME NEW shown, NEW blocked, NEW recent, NEW attributed,
               shown \in s1, blocked \in s2, recent \in s3, attributed \in s4
        PROVE  LetThrough(at, v, shown, blocked, recent, attributed)
    BY <2>2 DEF LetThrough
  <2> HIDE DEF s1, s2, s3, s4, v, at
  <2>3. \E shown, blocked, recent, attributed :
          /\ LetThrough(at, v, shown, blocked, recent, attributed)
          /\ answer' = SummaryAnswer(at, v, shown, blocked, recent, attributed)
    BY <2>1, <2>2
  <2>4. QED
    BY <2>3 DEF v, at
<1>3. AnswerOf(request, answer')
  BY <1>1, <1>2 DEF AnswerOf
<1>4. AnswerOf(request, answer)'
  BY <1>1, <1>3
<1>5. Asking(request)' /\ DatabaseOK(db)'
  BY <1>1 DEF AnswerInv, Asking, DatabaseOK
<1>6. QED
  BY <1>1, <1>4, <1>5 DEF AnswerInv

\* So are the others; a recomputed baseline is also written to the database.
LEMMA OtherAnswers ==
  ASSUME AnswerInv, OwnerInv', AnswerBaseline \/ AnswerActivity
  PROVE  AnswerInv'
<1>1. CASE AnswerActivity
  <2>1. /\ request # None /\ UNCHANGED <<request, now, db>>
        /\ request.kind = "activity" /\ Len(request.view) = Selects("activity")
        /\ answer' = ActivityAnswer(request.subject, request.at, request.view)
    BY <1>1 DEF AnswerActivity, Done, householdVars
  <2>2. AnswerOf(request, answer')
    BY <2>1 DEF AnswerOf
  <2>3. AnswerOf(request, answer)'
    BY <2>1, <2>2
  <2>4. Asking(request)' /\ DatabaseOK(db)'
    BY <2>1 DEF AnswerInv, Asking, DatabaseOK
  <2>5. QED
    BY <2>1, <2>3, <2>4 DEF AnswerInv
<1>2. CASE AnswerBaseline
  <2>1. /\ request # None /\ UNCHANGED <<request, now>>
        /\ request.kind = "baseline" /\ Len(request.view) = Selects("baseline")
        /\ answer' = BaselineAnswer(request.subject, request.at, request.view)
        /\ db' = [db EXCEPT !.baselines[request.subject] = answer'.baseline]
    BY <1>2 DEF AnswerBaseline, Done
  <2>2. AnswerOf(request, answer')
    BY <2>1 DEF AnswerOf
  <2>3. AnswerOf(request, answer)'
    BY <2>1, <2>2
  <2>4. DatabaseOK(db')
    <3>1. "activity" \in DOMAIN db' /\ db'.activity = db.activity
      BY <2>1 DEF AnswerInv, DatabaseOK
    <3>2. QED
      BY <3>1, FatesKept DEF OwnerInv
  <2>5. Asking(request)' /\ DatabaseOK(db)'
    BY <2>1, <2>4 DEF AnswerInv, Asking, DatabaseOK
  <2>6. QED
    BY <2>1, <2>3, <2>5 DEF AnswerInv
<1>3. QED
  BY <1>1, <1>2

\* Every step keeps the answers.
LEMMA NextKeepsAnswerInv == OwnerInv /\ AnswerInv /\ [Next]_vars => AnswerInv'
<1> SUFFICES ASSUME OwnerInv, AnswerInv, [Next]_vars PROVE AnswerInv'
  OBVIOUS
<1>1. OwnerInv'
  BY NextKeepsOwnerInv
<1>2. CASE Outside
  <2>1. UNCHANGED <<request, answer>> /\ (Assignment \/ Ingest)
    BY <1>2 DEF Outside
  <2>2. DatabaseOK(db') /\ now' \in Int
    BY <1>1, <2>1, AssignmentFates, IngestFates
  <2>3. QED
    BY <2>1, <2>2, SameAnswer
<1>3. CASE UNCHANGED vars
  <2>1. UNCHANGED <<now, db, request, answer>>
    BY <1>3 DEF vars, householdVars
  <2>2. DatabaseOK(db') /\ now' \in Int
    BY <2>1 DEF AnswerInv
  <2>3. QED
    BY <2>1, <2>2, SameAnswer
<1>4. CASE Ask("summary", None) \/ \E c \in Child, kind \in {"baseline", "activity"} : Ask(kind, c)
  BY <1>4, AskAnswers
<1>5. QED
  BY <1>1, <1>2, <1>3, <1>4, SelectAnswers, SummaryAnswers, OtherAnswers DEF Next

-----------------------------------------------------------------------------
(***************************************************************************)
(* A device that one SELECT found unknown was so in those before it.       *)
(***************************************************************************)

\* A database says of every device whether it is unknown.
FlagsOK(d) == "unknown" \in DOMAIN d /\ d.unknown \in [Device -> BOOLEAN]

\* What is unknown in a database was so in an earlier one.
Earlier(d, e) == \A x \in Device : e.unknown[x] => d.unknown[x]

FlagInv ==
  /\ FlagsOK(db)
  /\ request # None =>
       /\ \A i \in DOMAIN request.view : Earlier(request.view[i], db)
       /\ \A i, j \in DOMAIN request.view :
            i < j => Earlier(request.view[i], request.view[j])

\* In the beginning nothing was asked.
LEMMA InitFlagInv == ASSUME Init PROVE FlagInv
<1>1. db \in Start /\ request = None
  BY DEF Init, HouseholdInit
<1>2. QED
  BY <1>1, StartAssumption DEF FlagInv, FlagsOK

\* No commit makes a device unknown again.
LEMMA FlagsOnlyFall ==
  ASSUME FlagsOK(db), Assignment \/ Ingest \/ AnswerBaseline
  PROVE  FlagsOK(db') /\ Earlier(db, db')
<1>1. "unknown" \in DOMAIN db /\ db.unknown \in [Device -> BOOLEAN]
  BY DEF FlagsOK
<1>2. ASSUME "unknown" \in DOMAIN db', db'.unknown = db.unknown
      PROVE  FlagsOK(db') /\ Earlier(db, db')
  BY <1>1, <1>2 DEF FlagsOK, Earlier
<1>3. ASSUME NEW d \in Device, Sight(d) PROVE FlagsOK(db') /\ Earlier(db, db')
  <2>1. PICK flag \in {db.unknown[d], FALSE} : db' = [db EXCEPT !.seen[d] = now, !.unknown[d] = flag]
    BY <1>3 DEF Sight, Change
  <2>2. flag \in BOOLEAN /\ (flag => db.unknown[d])
    BY <1>1, <2>1
  <2> DEFINE flags == [db.unknown EXCEPT ![d] = flag]
  <2>3. "unknown" \in DOMAIN db' /\ db'.unknown = flags
    BY <1>1, <2>1
  <2>4. flags \in [Device -> BOOLEAN]
    BY <1>1, <2>2
  <2>5. \A x \in Device : flags[x] = IF x = d THEN flag ELSE db.unknown[x]
    BY <1>1
  <2> HIDE DEF flags
  <2>6. QED
    BY <2>2, <2>3, <2>4, <2>5 DEF FlagsOK, Earlier
<1>4. CASE Assignment
  <2>1. ASSUME NEW c \in Parent, AssignCommit(c) PROVE db' = db \/ \E l : db' = [db EXCEPT !.links = l]
    BY <2>1 DEF AssignCommit
  <2>2. ASSUME NEW p \in Person, NEW d \in Device, Unassign(p, d)
        PROVE  \E l : db' = [db EXCEPT !.links = l]
    <3>1. PICK i : db' = [db EXCEPT !.links[i].active = FALSE]
      BY <2>2 DEF Unassign, Change
    <3>2. db' = [db EXCEPT !.links = [db.links EXCEPT ![i].active = FALSE]]
      BY <3>1
    <3>3. QED
      BY <3>2
  <2>3. ASSUME NEW c \in Parent, NEW p \in Person, NEW d \in Device, AssignRead(c, p, d) PROVE db' = db
    BY <2>3 DEF AssignRead, Change
  <2>4. db' = db \/ \E l : db' = [db EXCEPT !.links = l]
    BY <1>4, <2>1, <2>2, <2>3 DEF Assignment
  <2>5. QED
    BY <1>1, <1>2, <2>4
<1>5. ASSUME NEW r \in Lookup, Decide(r) PROVE FlagsOK(db') /\ Earlier(db, db')
  <2>1. \E fate : db' = [db EXCEPT !.activity[r] = fate]
    BY <1>5 DEF Decide, Change
  <2>2. QED
    BY <1>1, <1>2, <2>1
<1>6. ASSUME NEW s \in Source, Cycle(s) PROVE FlagsOK(db') /\ Earlier(db, db')
  <2>1. \E row : db' = [db EXCEPT !.source[s] = row]
    BY <1>6 DEF Cycle, Change
  <2>2. QED
    BY <1>1, <1>2, <2>1
<1>7. CASE Tick
  BY <1>1, <1>2, <1>7 DEF Tick, Change
<1>8. CASE AnswerBaseline
  <2>1. \E b : db' = [db EXCEPT !.baselines[request.subject] = b]
    BY <1>8 DEF AnswerBaseline
  <2>2. QED
    BY <1>1, <1>2, <2>1
<1>9. QED
  BY <1>3, <1>4, <1>5, <1>6, <1>7, <1>8 DEF Ingest

\* A commit leaves what the request saw before it.
LEMMA CommitKeepsFlags ==
  ASSUME FlagInv, FlagsOK(db'), Earlier(db, db'), UNCHANGED request
  PROVE  FlagInv'
<1>1. FlagsOK(db)'
  BY DEF FlagsOK
<1>2. ASSUME request # None, NEW i \in DOMAIN request.view PROVE Earlier(request.view[i], db')
  BY <1>2 DEF FlagInv, Earlier
<1>3. QED
  BY <1>1, <1>2 DEF FlagInv, Earlier

\* A SELECT sees the latest database.
LEMMA SelectKeepsFlags ==
  ASSUME AnswerInv, FlagInv, Select
  PROVE  FlagInv'
<1>1. /\ request # None /\ request' = [request EXCEPT !.view = Append(request.view, db)]
      /\ UNCHANGED db
  BY DEF Select, householdVars
<1>2. PICK S : request \in [kind : {"summary", "baseline", "activity"}, subject : Child \cup {None},
                            at : Int, view : Seq(S)]
  BY <1>1 DEF AnswerInv, Asking
<1> DEFINE v == request.view  w == Append(v, db)
<1>3. /\ Len(v) \in Nat /\ DOMAIN w = 1..(Len(v) + 1) /\ DOMAIN v = 1..Len(v)
      /\ w[Len(v) + 1] = db /\ \A i \in 1..Len(v) : w[i] = v[i]
  <2>1. v \in Seq(S)
    BY <1>2
  <2>2. QED
    BY <2>1
<1>4. request'.view = w
  BY <1>1, <1>2
<1>5. FlagsOK(db) /\ (\A i \in DOMAIN v : Earlier(v[i], db)) /\ Earlier(db, db)
      /\ \A i, j \in DOMAIN v : i < j => Earlier(v[i], v[j])
  BY <1>1 DEF FlagInv, Earlier
<1> HIDE DEF v, w
<1>6. \A i \in DOMAIN w : Earlier(w[i], db)
  BY <1>3, <1>5
<1>7. \A i, j \in DOMAIN w : i < j => Earlier(w[i], w[j])
  BY <1>3, <1>5, <1>6
<1>8. FlagsOK(db)' /\ \A i \in DOMAIN request'.view : Earlier(request'.view[i], db')
  BY <1>1, <1>4, <1>5, <1>6 DEF FlagsOK
<1>9. QED
  BY <1>4, <1>7, <1>8 DEF FlagInv, Earlier

\* Every step keeps the order.
LEMMA NextKeepsFlagInv == AnswerInv /\ FlagInv /\ [Next]_vars => FlagInv'
<1> SUFFICES ASSUME AnswerInv, FlagInv, [Next]_vars PROVE FlagInv'
  OBVIOUS
<1>1. CASE Outside \/ AnswerBaseline
  <2>1. UNCHANGED request /\ (Assignment \/ Ingest \/ AnswerBaseline)
    BY <1>1 DEF Outside, AnswerBaseline, Done
  <2>2. QED
    BY <2>1, FlagsOnlyFall, CommitKeepsFlags DEF FlagInv
<1>2. CASE Select
  BY <1>2, SelectKeepsFlags
<1>3. ASSUME NEW kind, NEW subject, Ask(kind, subject) PROVE FlagInv'
  <2>1. request'.view = << >> /\ UNCHANGED db
    BY <1>3 DEF Ask, householdVars
  <2>2. DOMAIN request'.view = {}
    BY <2>1
  <2>3. QED
    BY <2>1, <2>2 DEF FlagInv, FlagsOK
<1>4. CASE AnswerSummary \/ AnswerActivity \/ UNCHANGED vars
  <2>1. UNCHANGED <<db, request>>
    BY <1>4 DEF AnswerSummary, AnswerActivity, Done, vars, householdVars
  <2>2. QED
    BY <2>1 DEF FlagInv, FlagsOK, Earlier
<1>5. QED
  BY <1>1, <1>2, <1>3, <1>4 DEF Next

-----------------------------------------------------------------------------
(***************************************************************************)
(* What follows of the answers.                                            *)
(***************************************************************************)

\* What a LIMIT lets through: the newest rows, and all of them unless it is
\* reached.
LEMMA NewestFacts ==
  ASSUME NEW rows \in SUBSET Lookup, NEW limit \in Nat, NEW S \in Newest(rows, limit)
  PROVE  /\ S \subseteq rows /\ IsFiniteSet(S) /\ Cardinality(S) \in Nat /\ Cardinality(S) <= limit
         /\ S = rows \/ Cardinality(S) = limit
         /\ rows # {} /\ limit # 0 => S # {}
         /\ \A r \in S, q \in rows \ S : q.at <= r.at
<1>1. /\ S \subseteq rows
      /\ Cardinality(S) = (IF Cardinality(rows) < limit THEN Cardinality(rows) ELSE limit)
      /\ \A r \in S, q \in rows \ S : q.at <= r.at
  BY DEF Newest
<1>2. IsFiniteSet(rows) /\ IsFiniteSet(S)
  BY <1>1, HouseholdAssumption, FS_Subset
<1>3. Cardinality(rows) \in Nat /\ Cardinality(S) \in Nat
  BY <1>2, FS_CardinalityType
<1>4. Cardinality(S) = Cardinality(rows) => S = rows
  BY <1>1, <1>2, FS_Subset
<1>5. (S = {} => Cardinality(S) = 0) /\ (Cardinality(rows) = 0 => rows = {})
  BY <1>2, FS_EmptySet
<1>6. QED
  BY <1>1, <1>2, <1>3, <1>4, <1>5

\* The list of recent lookups: blocked ones first, then the other two kinds.
LEMMA RecentFacts ==
  ASSUME NEW at, NEW view, NEW shown, NEW blocked, NEW recent, NEW attributed,
         LetThrough(at, view, shown, blocked, recent, attributed)
  PROVE  LET first == First(blocked)  second == Second(blocked, recent)
             all == RecentRows(blocked, recent, attributed)
         IN
         /\ blocked \subseteq Lookup /\ shown \subseteq Lookup
         /\ all \in Seq(Lookup) /\ Len(all) <= RecentLimit /\ IsInjective(all)
         /\ Range(first) = blocked
         /\ blocked \subseteq Range(all)
         /\ Range(second) \subseteq blocked \cup recent
         /\ Range(all) \subseteq Range(second) \cup attributed
         /\ Cardinality(blocked) = RecentLimit => Len(all) = RecentLimit /\ Range(all) = blocked
<1> DEFINE first == First(blocked)  second == Second(blocked, recent)
           all == RecentRows(blocked, recent, attributed)
<1>1. RecentLimit \in Nat /\ AttentionLimit \in Nat
  BY DashboardAssumption
<1>2. shown \subseteq Lookup /\ blocked \subseteq Lookup /\ recent \subseteq Lookup /\ attributed \subseteq Lookup
      /\ IsFiniteSet(blocked) /\ Cardinality(blocked) \in Nat /\ Cardinality(blocked) <= RecentLimit
  <2> DEFINE b == Fresh({r \in Stored(view.blocked) : r.blocked}, at)
             c == Fresh(Waiting(view.recent), at)
             d == Fresh(Attributed(view.attributed), at)
             w == Waiting(view.review)
  <2>1. b \subseteq Lookup /\ c \subseteq Lookup /\ d \subseteq Lookup /\ w \subseteq Lookup
    BY DEF Fresh, Stored, Waiting, Attributed
  <2>2. /\ shown \in Newest(w, AttentionLimit) /\ blocked \in Newest(b, RecentLimit)
        /\ recent \in Newest(c, RecentLimit) /\ attributed \in Newest(d, RecentLimit)
    BY DEF LetThrough
  <2> HIDE DEF b, c, d, w
  <2>3. shown \subseteq w
    BY <1>1, <2>1, <2>2, NewestFacts
  <2>4. blocked \subseteq b /\ IsFiniteSet(blocked) /\ Cardinality(blocked) \in Nat
        /\ Cardinality(blocked) <= RecentLimit
    BY <1>1, <2>1, <2>2, NewestFacts
  <2>5. recent \subseteq c /\ attributed \subseteq d
    BY <1>1, <2>1, <2>2, NewestFacts
  <2>6. QED
    BY <2>1, <2>3, <2>4, <2>5
<1>3. << >> \in Seq(Lookup) /\ Len(<< >>) = 0 /\ IsInjective(<< >>) /\ Range(<< >>) = {}
  BY DEF IsInjective, Range
<1>4. /\ first \in Seq(Lookup) /\ Len(first) <= RecentLimit /\ IsInjective(first)
      /\ Range(first) \subseteq blocked /\ (Len(first) = RecentLimit \/ blocked \subseteq Range(first))
  <2>1. Len(<< >>) <= RecentLimit
    BY <1>1, <1>3
  <2>2. QED
    BY <1>2, <1>3, <2>1, AppendedFacts DEF First
<1> HIDE DEF first
<1>5. /\ second \in Seq(Lookup) /\ Len(second) <= RecentLimit /\ IsInjective(second)
      /\ Range(first) \subseteq Range(second) /\ Range(second) \subseteq Range(first) \cup recent
      /\ Len(first) = RecentLimit => Len(second) = RecentLimit /\ Range(second) = Range(first)
  BY <1>2, <1>4, AppendedFacts DEF Second, first
<1> HIDE DEF second
<1>6. /\ all \in Seq(Lookup) /\ Len(all) <= RecentLimit /\ IsInjective(all)
      /\ Range(second) \subseteq Range(all) /\ Range(all) \subseteq Range(second) \cup attributed
      /\ Len(second) = RecentLimit => Len(all) = RecentLimit /\ Range(all) = Range(second)
  BY <1>2, <1>5, AppendedFacts DEF RecentRows, second
<1> HIDE DEF all
<1>7. /\ blocked \subseteq Range(first)
      /\ Len(first) = Cardinality(blocked)
  <2> DEFINE n == Len(first)
  <2>1. n \in Nat /\ DOMAIN first = 1..n
    BY <1>4
  <2>2. first \in [1..n -> blocked]
    <3>1. \A i \in 1..n : first[i] \in blocked
      BY <1>4, <2>1 DEF Range
    <3>2. first = [i \in 1..n |-> first[i]]
      BY <1>4, <2>1
    <3>3. QED
      BY <3>1, <3>2
  <2> HIDE DEF n
  <2>3. first \in Injection(1..n, blocked)
    BY <1>4, <2>2 DEF Injection, IsInjective
  <2>4. IsFiniteSet(1..n) /\ Cardinality(1..n) = n
    BY <2>1, FS_Interval
  <2>5. n <= Cardinality(blocked) /\ (n = Cardinality(blocked) <=> first \in Surjection(1..n, blocked))
    BY <1>2, <2>3, <2>4, FS_Injection
  <2>6. CASE blocked \subseteq Range(first)
    <3>1. first \in Surjection(1..n, blocked)
      BY <2>1, <2>2, <2>6 DEF Surjection, Range
    <3>2. QED
      BY <2>5, <2>6, <3>1 DEF n
  <2>7. CASE Len(first) = RecentLimit
    <3>1. n = Cardinality(blocked)
      BY <1>1, <1>2, <2>1, <2>5, <2>7 DEF n
    <3>2. blocked \subseteq Range(first)
      BY <2>1, <2>5, <3>1 DEF Surjection, Range
    <3>3. QED
      BY <3>1, <3>2 DEF n
  <2>8. QED
    BY <1>4, <2>6, <2>7
<1>8. QED
  BY <1>2, <1>4, <1>5, <1>6, <1>7 DEF first, second, all

\* A summary is computed from eleven databases.
LEMMA SummaryRead ==
  ASSUME AnswerInv, Summarised
  PROVE  /\ request # None /\ request.at \in Int
         /\ DOMAIN request.view = 1..11 /\ \A i \in 1..11 : DatabaseOK(request.view[i])
         /\ \E shown, blocked, recent, attributed :
              /\ LetThrough(request.at, Seen(request.view), shown, blocked, recent, attributed)
              /\ SummaryOf(answer, request.at, Seen(request.view), shown, blocked, recent, attributed)
<1>1. answer # None /\ request.kind = "summary" /\ request # None
      /\ Asking(request) /\ AnswerOf(request, answer)
  BY DEF AnswerInv, Summarised
<1>2. \E S : request.view \in Seq(S)
  BY <1>1 DEF Asking
<1>3. Len(request.view) = 11
  BY <1>1, SeenAt DEF AnswerOf, Selects
<1>4. DOMAIN request.view = 1..11 /\ request.at \in Int
  BY <1>1, <1>2, <1>3 DEF Asking
<1>5. QED
  BY <1>1, <1>4, SummaryFields DEF Asking, AnswerOf

\* The activity that the session has of a row is that of one of its SELECTs,
\* and only a row that was attributed is listed as such.
LEMMA FateFacts ==
  ASSUME NEW at, NEW v, \A i \in 1..11 : DatabaseOK(v[i]),
         NEW shown, NEW blocked, NEW recent, NEW attributed,
         LetThrough(at, Seen(v), shown, blocked, recent, attributed),
         NEW r \in shown \cup Range(RecentRows(blocked, recent, attributed))
  PROVE  LET fate == Held(Seen(v), shown, blocked, recent, attributed)[r] IN
         /\ \E i \in 1..11 : fate = v[i].activity[r]
         /\ fate # Review /\ ~r.blocked => fate \in Device
<1> DEFINE view == Seen(v)
           fate == Held(view, shown, blocked, recent, attributed)[r]
           first == First(blocked)  second == Second(blocked, recent)
           all == RecentRows(blocked, recent, attributed)
<1>1. /\ view.review = v[4] /\ view.blocked = v[8] /\ view.recent = v[9] /\ view.attributed = v[10]
  BY SeenAt
<1>2. 4 \in 1..11 /\ 8 \in 1..11 /\ 9 \in 1..11 /\ 10 \in 1..11
  OBVIOUS
<1>3. fate = FateIn(view, shown, blocked, recent, r)
  BY DEF Held
<1>4. /\ Range(first) = blocked /\ Range(second) \subseteq blocked \cup recent
      /\ Range(all) \subseteq Range(second) \cup attributed
  BY RecentFacts
<1>5. /\ \A q \in shown : q \in Lookup /\ v[4].activity[q] = Review
      /\ \A q \in blocked : q.blocked
      /\ \A q \in recent : v[9].activity[q] = Review
      /\ \A q \in attributed : v[10].activity[q] \in Device
  <2> DEFINE b == Fresh({q \in Stored(view.blocked) : q.blocked}, at)
             c == Fresh(Waiting(view.recent), at)
             d == Fresh(Attributed(view.attributed), at)
             w == Waiting(view.review)
  <2>1. b \subseteq Lookup /\ c \subseteq Lookup /\ d \subseteq Lookup /\ w \subseteq Lookup
        /\ AttentionLimit \in Nat /\ RecentLimit \in Nat
    BY DashboardAssumption DEF Fresh, Stored, Waiting, Attributed
  <2>2. /\ \A q \in w : v[4].activity[q] = Review
        /\ \A q \in b : q.blocked
        /\ \A q \in c : v[9].activity[q] = Review
        /\ \A q \in d : v[10].activity[q] \in Device
    BY <1>1 DEF Fresh, Stored, Waiting, Attributed
  <2>3. /\ shown \in Newest(w, AttentionLimit) /\ blocked \in Newest(b, RecentLimit)
        /\ recent \in Newest(c, RecentLimit) /\ attributed \in Newest(d, RecentLimit)
    BY DEF LetThrough
  <2> HIDE DEF b, c, d, w
  <2>4. shown \subseteq w
    BY <2>1, <2>3, NewestFacts
  <2>5. blocked \subseteq b
    BY <2>1, <2>3, NewestFacts
  <2>6. recent \subseteq c /\ attributed \subseteq d
    BY <2>1, <2>3, NewestFacts
  <2>7. QED
    BY <2>1, <2>2, <2>4, <2>5, <2>6
<1> HIDE DEF view, first, second, all, fate
<1>6. fate = IF r \in shown THEN Review
             ELSE IF r \in Range(first) THEN view.blocked.activity[r]
             ELSE IF r \in Range(second) THEN view.recent.activity[r]
             ELSE view.attributed.activity[r]
  BY <1>3 DEF FateIn, first, second
<1>7. \E i \in {4, 8, 9, 10} : fate = v[i].activity[r]
  BY <1>1, <1>5, <1>6
<1>8. ASSUME fate # Review, ~r.blocked PROVE fate \in Device
  <2>1. r \notin shown /\ r \notin Range(first)
    BY <1>4, <1>5, <1>6, <1>8
  <2>2. r \notin Range(second)
    BY <1>1, <1>4, <1>5, <1>6, <1>8, <2>1
  <2>3. r \in attributed
    BY <1>4, <2>1, <2>2 DEF all
  <2>4. QED
    BY <1>1, <1>5, <1>6, <2>1, <2>2, <2>3
<1>9. QED
  BY <1>2, <1>7, <1>8 DEF fate, view

\* Everything that troubles, was noticed or waits is counted.
LEMMA CountedFacts ==
  ASSUME NEW at, NEW view
  PROVE  /\ Counted(view, at) \in Nat
         /\ Troubled(view, at) \cup Noticed(view.devices, view.owners, at) \cup Waiting(view.count) # {}
              => Counted(view, at) > 0
<1> DEFINE t == Troubled(view, at)  n == Noticed(view.devices, view.owners, at)  w == Waiting(view.count)
<1>1. t \subseteq Source /\ n \subseteq Device /\ w \subseteq Lookup
  BY DEF Troubled, Noticed, Online, Waiting
<1>2. Counted(view, at) = Cardinality(t) + Cardinality(n) + Cardinality(w)
  BY DEF Counted
<1> HIDE DEF t, n, w
<1>3. IsFiniteSet(t) /\ IsFiniteSet(n) /\ IsFiniteSet(w)
  BY <1>1, HouseholdAssumption, FS_Subset
<1>4. /\ Cardinality(t) \in Nat /\ Cardinality(n) \in Nat /\ Cardinality(w) \in Nat
      /\ t # {} => Cardinality(t) # 0
      /\ n # {} => Cardinality(n) # 0
      /\ w # {} => Cardinality(w) # 0
  BY <1>3, FS_CardinalityType, FS_EmptySet
<1>5. Counted(view, at) \in Nat /\ (t \cup n \cup w # {} => Counted(view, at) > 0)
  BY <1>2, <1>4
<1>6. QED
  BY <1>5 DEF t, n, w

\* An answer has a time, the databases it was computed from, and the rows its
\* LIMITs let through.
LEMMA SummaryTypes ==
  ASSUME NEW a, NEW at, NEW view, NEW shown, NEW blocked, NEW recent, NEW attributed,
         LetThrough(at, view, shown, blocked, recent, attributed),
         SummaryOf(a, at, view, shown, blocked, recent, attributed)
  PROVE  /\ Len(a.items) <= AttentionLimit
         /\ a.recent # None => Len(a.recent) <= RecentLimit
         /\ a.count \in Nat /\ a.down \subseteq Source
<1> DEFINE all == RecentRows(blocked, recent, attributed)
<1>1. all \in Seq(Lookup) /\ Len(all) <= RecentLimit /\ shown \subseteq Lookup
  BY RecentFacts
<1>2. /\ a.down = Incomplete(view.health, at)
      /\ a.count = Counted(view, at)
      /\ a.items = AttentionItems(Troubled(view, at), shown, Noticed(view.devices, view.owners, at))
  BY DEF SummaryOf
<1>3. \/ a.recent = None
      \/ DOMAIN a.recent = DOMAIN all
  BY DEF SummaryOf
<1>4. /\ Troubled(view, at) \subseteq Source /\ Noticed(view.devices, view.owners, at) \subseteq Device
      /\ Incomplete(view.health, at) \subseteq Source
  BY DEF Troubled, Noticed, Online, Incomplete
<1>5. Len(a.items) <= AttentionLimit
  BY <1>1, <1>2, <1>4, AttentionFacts
<1>6. a.count \in Nat
  BY <1>2, CountedFacts
<1>7. a.recent # None => Len(a.recent) <= RecentLimit
  <2> HIDE DEF all
  <2> SUFFICES ASSUME DOMAIN a.recent = DOMAIN all PROVE Len(a.recent) = Len(all)
    BY <1>1, <1>3
  <2>1. DOMAIN all = 1..Len(all) /\ Len(all) \in Nat
    BY <1>1
  <2>2. QED
    BY <2>1
<1>8. QED
  BY <1>2, <1>4, <1>5, <1>6, <1>7

\* The types and limits of the answers.
LEMMA TypesFollow == OwnerInv /\ AnswerInv => DashboardTypeOK
<1> SUFFICES ASSUME AnswerInv PROVE DashboardTypeOK
  OBVIOUS
<1>1. db.activity \in [Lookup -> Fate] /\ db.links \in Seq(Link)
  BY DEF AnswerInv, DatabaseOK
<1>2. \A s \in Source : StatusOf(db, s, now) \in Status
  BY DEF StatusOf, Evaluated, Status
<1>3. request # None => Len(request.view) <= Selects(request.kind)
  BY DEF AnswerInv, Asking
<1>4. ASSUME Summarised
      PROVE  /\ Len(answer.items) <= AttentionLimit
             /\ answer.recent # None => Len(answer.recent) <= RecentLimit
             /\ answer.count \in Nat /\ answer.down \subseteq Source
  BY <1>4, SummaryRead, SummaryTypes
<1>5. QED
  BY <1>1, <1>2, <1>3, <1>4 DEF DashboardTypeOK

\* What needs attention in all databases is in those that are counted and
\* listed.  A device with an owner when the links were read was unknown then,
\* and so it was when the devices were read.
LEMMA ShownFollows == AnswerInv /\ FlagInv => AttentionShown
<1> SUFFICES ASSUME AnswerInv, FlagInv, Summarised,
                    \/ \E s \in Source : Throughout(LAMBDA d : StatusOf(d, s, request.at) # "ok")
                    \/ \E r \in Lookup : Throughout(LAMBDA d : d.activity[r] = Review)
                    \/ \E e \in Device : Throughout(LAMBDA d :
                         d.seen[e] >= request.at - OnlineTicks /\ (d.unknown[e] \/ Owners(d, e) = {}))
             PROVE  ~answer.calm /\ answer.count > 0 /\ answer.items # << >>
  BY DEF AttentionShown
<1> DEFINE at == request.at  v == request.view  view == Seen(v)
<1>1. DOMAIN v = 1..11
  BY SummaryRead
<1>2. PICK shown, blocked, recent, attributed :
        /\ LetThrough(at, view, shown, blocked, recent, attributed)
        /\ SummaryOf(answer, at, view, shown, blocked, recent, attributed)
  BY SummaryRead
<1>3. /\ view.health = v[1] /\ view.devices = v[2] /\ view.owners = v[3]
      /\ view.review = v[4] /\ view.count = v[5]
  BY SeenAt
<1> DEFINE t == Troubled(view, at)  n == Noticed(view.devices, view.owners, at)
           w == Waiting(view.review)
<1>4. t # {} \/ n # {} \/ (w # {} /\ Waiting(view.count) # {})
  <2>1. 1 \in DOMAIN v /\ 2 \in DOMAIN v /\ 3 \in DOMAIN v /\ 4 \in DOMAIN v /\ 5 \in DOMAIN v
    BY <1>1
  <2>2. CASE \E s \in Source : Throughout(LAMBDA d : StatusOf(d, s, at) # "ok")
    BY <1>3, <2>1, <2>2 DEF Throughout, Troubled
  <2>3. CASE \E r \in Lookup : Throughout(LAMBDA d : d.activity[r] = Review)
    BY <1>3, <2>1, <2>3 DEF Throughout, Waiting
  <2>4. CASE \E e \in Device : Throughout(LAMBDA d :
               d.seen[e] >= at - OnlineTicks /\ (d.unknown[e] \/ Owners(d, e) = {}))
    <3>1. PICK e \in Device : \A i \in DOMAIN v :
            v[i].seen[e] >= at - OnlineTicks /\ (v[i].unknown[e] \/ Owners(v[i], e) = {})
      BY <2>4 DEF Throughout
    <3>2. v[3].unknown[e] => v[2].unknown[e]
      BY <2>1, SummaryRead DEF FlagInv, Earlier
    <3>3. v[2].seen[e] >= at - OnlineTicks /\ (v[2].unknown[e] \/ Owners(v[3], e) = {})
      BY <2>1, <3>1, <3>2
    <3>4. e \in n
      BY <1>3, <3>3 DEF Noticed, Online
    <3>5. QED
      BY <3>4
  <2>5. QED
    BY <2>2, <2>3, <2>4
<1>5. /\ answer.items = AttentionItems(t, shown, n)
      /\ answer.count = Counted(view, at)
      /\ answer.calm = (Incomplete(view.health, at) = {} /\ Counted(view, at) = 0)
  BY <1>2 DEF SummaryOf
<1>6. answer.count > 0
  BY <1>4, <1>5, CountedFacts
<1>7. ~answer.calm
  <2>1. Counted(view, at) # 0
    BY <1>5, <1>6
  <2>2. QED
    BY <1>5, <2>1, Zenon
<1>8. w # {} => shown # {}
  <2>1. w \subseteq Lookup /\ AttentionLimit \in Nat /\ AttentionLimit # 0
    BY DashboardAssumption DEF Waiting
  <2>2. shown \in Newest(w, AttentionLimit)
    BY <1>2 DEF LetThrough
  <2> HIDE DEF w
  <2>3. QED
    BY <2>1, <2>2, NewestFacts
<1>9. t \subseteq Source /\ n \subseteq Device /\ shown \subseteq Lookup
  BY <1>2, RecentFacts DEF Troubled, Noticed, Online
<1>10. answer.items # << >>
  <2> HIDE DEF t, n, w
  <2>1. QED
    BY <1>4, <1>5, <1>8, <1>9, AttentionFacts
<1>11. QED
  BY <1>6, <1>7, <1>10

\* The windows of a baseline, laid end to end, leave no time out.
LEMMA WindowsCover ==
  ASSUME NEW at \in Int, NEW t \in Int, t <= at, NEW n \in Nat \ {0}, at - n * Window <= t
  PROVE  \E i \in 1..n : WindowEnd(at, i) - Window <= t /\ t <= WindowEnd(at, i)
<1> DEFINE In(i) == WindowEnd(at, i) - Window <= t /\ t <= WindowEnd(at, i)
           Covered(k) == t < at - k * Window \/ \E i \in 1..k : In(i)
           Ok == {k \in Nat : Covered(k + 1)}
<1>1. Window \in Nat
  BY DashboardAssumption
<1>2. \A k \in Nat : k * Window \in Nat /\ (k + 1) * Window = k * Window + Window
  BY <1>1
<1>3. 0 \in Ok
  <2>1. (1 - 1) * Window = 0 /\ (0 + 1) * Window = Window
    BY <1>1
  <2>2. at - Window <= t => In(1)
    BY <1>1, <2>1 DEF WindowEnd
  <2>3. Covered(0 + 1)
    BY <1>1, <2>1, <2>2
  <2>4. QED
    BY <2>3
<1>4. ASSUME NEW k \in Ok PROVE k + 1 \in Ok
  <2>1. k \in Nat /\ k + 1 \in Nat /\ Covered(k + 1)
    OBVIOUS
  <2> DEFINE m == (k + 1) * Window
  <2>2. m \in Nat /\ ((k + 1) + 1) * Window = m + Window
    BY <1>2, <2>1
  <2>3. WindowEnd(at, (k + 1) + 1) = at - m
    BY <2>1 DEF WindowEnd
  <2> HIDE DEF m
  <2>4. CASE t < at - m - Window
    BY <1>1, <2>1, <2>2, <2>4
  <2>5. CASE at - m - Window <= t /\ t <= at - m
    <3>1. In((k + 1) + 1)
      BY <2>3, <2>5
    <3> HIDE DEF In
    <3>2. QED
      BY <2>1, <3>1
  <2>6. CASE at - m < t
    <3>1. PICK i \in 1..(k + 1) : In(i)
      BY <2>1, <2>2, <2>6 DEF m
    <3> HIDE DEF In
    <3>2. QED
      BY <2>1, <3>1
  <2>7. QED
    BY <1>1, <2>2, <2>4, <2>5, <2>6
<1>5. Ok = Nat
  <2> HIDE DEF Ok
  <2>1. Ok \subseteq Nat
    BY DEF Ok
  <2>2. QED
    BY <1>3, <1>4, <2>1, NatSetInduction
<1>6. n - 1 \in Nat /\ (n - 1) + 1 = n
  OBVIOUS
<1>7. Covered(n)
  <2> HIDE DEF Covered
  <2>1. QED
    BY <1>5, <1>6
<1>8. ~(t < at - n * Window)
  BY <1>1
<1>9. QED
  BY <1>7, <1>8

\* A lookup of the subject is in the window of its time.
LEMMA InWindow ==
  ASSUME NEW i, NEW r \in Lookup, NEW e, NEW subject, NEW at, NEW v,
         WindowEnd(at, i) - Window <= r.at, r.at <= WindowEnd(at, i),
         v[3 * i - 1].activity[r] = e, e \in DevicesOf(v[3 * i - 2], subject)
  PROVE  r \in WindowRows(subject, at, v, i)
BY DEF WindowRows, Records, Within

\* A lookup that was of a device of the subject all along is in the window of
\* its time.
LEMMA WindowsFollow ==
  ASSUME AnswerInv, answer # None, request.kind # "summary",
         NEW r \in Within(Lookup, request.at - Len(answer.windows) * Window, request.at),
         NEW e \in Device,
         Throughout(LAMBDA d : d.activity[r] = e /\ e \in DevicesOf(d, request.subject))
  PROVE  r \in UNION Range(answer.windows)
<1> DEFINE at == request.at  v == request.view  s == request.subject
<1>1. /\ request # None /\ request.kind \in {"baseline", "activity"} /\ AnswerOf(request, answer)
      /\ at \in Int /\ \E S : v \in Seq(S)
  BY DEF AnswerInv, Asking
<1>2. /\ r \in Lookup /\ r.at \in Int /\ r.at <= at
      /\ at - Len(answer.windows) * Window <= r.at
  BY HouseholdAssumption DEF Within
<1>3. \A i \in DOMAIN v : v[i].activity[r] = e /\ e \in DevicesOf(v[i], s)
  BY DEF Throughout
<1>4. DOMAIN v = 1..Len(v)
  BY <1>1
<1>5. CASE request.kind = "baseline"
  <2>1. answer = BaselineAnswer(s, at, v) /\ Len(v) = 3 * Samples /\ Samples \in Nat \ {0}
    BY <1>1, <1>5, DashboardAssumption DEF AnswerOf, Selects
  <2>2. answer.windows = [i \in 1..Samples |-> WindowRows(s, at, v, i)]
    BY <2>1 DEF BaselineAnswer
  <2>3. Len(answer.windows) = Samples
    BY <2>1, <2>2
  <2>4. PICK i \in 1..Samples : WindowEnd(at, i) - Window <= r.at /\ r.at <= WindowEnd(at, i)
    <3> HIDE DEF at
    <3>1. at \in Int /\ r.at \in Int /\ r.at <= at /\ at - Samples * Window <= r.at
      BY <1>1, <1>2, <2>3
    <3>2. QED
      BY <2>1, <3>1, WindowsCover
  <2>5. 3 * i - 1 \in DOMAIN v /\ 3 * i - 2 \in DOMAIN v
    BY <1>4, <2>1
  <2>6. r \in WindowRows(s, at, v, i)
    BY <1>2, <1>3, <2>4, <2>5, InWindow
  <2>7. QED
    BY <2>2, <2>6 DEF Range
<1>6. CASE request.kind = "activity"
  <2>1. answer = ActivityAnswer(s, at, v) /\ Len(v) = 4
    BY <1>1, <1>6 DEF AnswerOf, Selects
  <2>2. answer.windows = <<WindowRows(s, at, v, 1)>>
    BY <2>1 DEF ActivityAnswer
  <2>3. Len(answer.windows) = 1 /\ Window \in Nat
    BY <2>2, DashboardAssumption
  <2>4. WindowEnd(at, 1) - Window <= r.at /\ r.at <= WindowEnd(at, 1)
    BY <1>1, <1>2, <2>3 DEF WindowEnd
  <2>5. 3 * 1 - 1 \in DOMAIN v /\ 3 * 1 - 2 \in DOMAIN v
    BY <1>4, <2>1
  <2>6. r \in WindowRows(s, at, v, 1)
    BY <1>2, <1>3, <2>4, <2>5, InWindow
  <2>7. QED
    BY <2>2, <2>6 DEF Range
<1>7. QED
  BY <1>1, <1>5, <1>6

\* The household's lookups of the day.
LEMMA TodayFollows ==
  ASSUME AnswerInv, Summarised, answer.today # None
  PROVE  /\ \A r \in Within(Lookup, request.at - Window, request.at) :
              Throughout(LAMBDA d : r \in Attributed(d)) => r \in answer.today
         /\ \A r \in answer.today : Sometime(LAMBDA d : r \in Attributed(d))
<1> DEFINE at == request.at  v == request.view  view == Seen(v)
<1>1. DOMAIN v = 1..11 /\ \A i \in 1..11 : DatabaseOK(v[i])
  BY SummaryRead
<1>2. PICK shown, blocked, recent, attributed :
        /\ LetThrough(at, view, shown, blocked, recent, attributed)
        /\ SummaryOf(answer, at, view, shown, blocked, recent, attributed)
  BY SummaryRead
<1> DEFINE held == Held(view, shown, blocked, recent, attributed)
<1>3. answer.today = HouseholdRows(v[11], held, at - Window, at)
  BY <1>2, SeenAt DEF SummaryOf
<1>4. DOMAIN held = shown \cup Range(RecentRows(blocked, recent, attributed))
  BY DEF Held
<1>5. \A r \in DOMAIN held : \E i \in 1..11 : held[r] = v[i].activity[r]
  BY <1>1, <1>2, <1>4, FateFacts
<1>6. 11 \in 1..11
  OBVIOUS
<1> HIDE DEF held
<1>7. ASSUME NEW r \in Within(Lookup, at - Window, at), \A i \in 1..11 : r \in Attributed(v[i])
      PROVE  r \in answer.today
  <2>1. \A i \in 1..11 : v[i].activity[r] \in Device
    BY <1>7 DEF Attributed
  <2>2. InHand(held, r, v[11]) \in Device
    BY <1>5, <1>6, <2>1 DEF InHand
  <2>3. QED
    BY <1>3, <1>6, <1>7, <2>2 DEF HouseholdRows, Within
<1>8. ASSUME NEW r \in answer.today PROVE r \in Attributed(v[11])
  BY <1>3 DEF HouseholdRows, Within
<1>9. QED
  BY <1>1, <1>6, <1>7, <1>8 DEF Throughout, Sometime

\* The counts of the day and of the windows.
LEMMA CountsFollow == AnswerInv => CountsBounded
<1> SUFFICES ASSUME AnswerInv PROVE CountsBounded
  OBVIOUS
<1>1. Summarised /\ answer.today # None =>
       /\ \A r \in Within(Lookup, request.at - Window, request.at) :
            Throughout(LAMBDA d : r \in Attributed(d)) => r \in answer.today
       /\ \A r \in answer.today : Sometime(LAMBDA d : r \in Attributed(d))
  BY TodayFollows
<1>2. answer # None /\ request.kind # "summary" =>
       \A r \in Within(Lookup, request.at - Len(answer.windows) * Window, request.at) :
         (\E e \in Device : Throughout(LAMBDA d : d.activity[r] = e /\ e \in DevicesOf(d, request.subject)))
           => r \in UNION Range(answer.windows)
  BY WindowsFollow
<1>3. QED
  BY <1>1, <1>2 DEF CountsBounded

\* A recent blocked lookup that is not listed, though it was stored all along,
\* has made room for others that are not older.
LEMMA BlockedListed ==
  ASSUME NEW at, NEW v, \A i \in 1..11 : DatabaseOK(v[i]),
         NEW shown, NEW blocked, NEW recent, NEW attributed,
         LetThrough(at, Seen(v), shown, blocked, recent, attributed),
         NEW r \in Lookup, r.blocked, r.at >= at - OnlineTicks, v[8].activity[r] # NoRow,
         r \notin Range(RecentRows(blocked, recent, attributed))
  PROVE  LET all == RecentRows(blocked, recent, attributed) IN
         Len(all) = RecentLimit /\ \A q \in Range(all) : q.blocked /\ q.at >= r.at
<1> DEFINE all == RecentRows(blocked, recent, attributed)
           b == Fresh({q \in Stored(Seen(v).blocked) : q.blocked}, at)
<1>1. /\ b \subseteq Lookup /\ r \in b /\ \A q \in b : q.blocked
  BY SeenAt DEF Fresh, Stored
<1>2. blocked \in Newest(b, RecentLimit) /\ RecentLimit \in Nat
  BY DashboardAssumption DEF LetThrough
<1>3. /\ blocked \subseteq Range(all)
      /\ Cardinality(blocked) = RecentLimit => Len(all) = RecentLimit /\ Range(all) = blocked
  BY RecentFacts
<1> HIDE DEF b, all
<1>4. /\ blocked \subseteq b
      /\ blocked = b \/ Cardinality(blocked) = RecentLimit
      /\ \A p \in blocked, q \in b \ blocked : q.at <= p.at
  BY <1>1, <1>2, NewestFacts
<1>5. r \notin Range(all)
  BY DEF all
<1>6. Len(all) = RecentLimit /\ Range(all) = blocked /\ r \in b \ blocked
  BY <1>1, <1>3, <1>4, <1>5
<1>7. \A q \in Range(all) : q.blocked /\ q.at >= r.at
  <2> TAKE q \in Range(all)
  <2>1. q \in blocked /\ q \in b /\ r.at <= q.at
    BY <1>4, <1>6
  <2>2. q \in Lookup
    BY <1>1, <2>1
  <2>3. q.at \in Nat /\ r.at \in Nat
    BY <2>2, HouseholdAssumption
  <2>4. QED
    BY <1>1, <2>1, <2>3
<1>8. QED
  BY <1>6, <1>7 DEF all

\* An item of the list.
ItemOf(item, row, fate, owners) ==
  /\ item.row = row /\ item.device = fate
  /\ item.owners = IF fate \in Device THEN Owners(owners, fate) ELSE {}
  /\ item.kind = IF fate = Review THEN "correlation_review"
                 ELSE IF row.blocked THEN "blocked_dns" ELSE "attributed_dns"

\* Every item of the recent list is true of some database, and no blocked
\* lookup is lost without need.
LEMMA RecentFollows == AnswerInv => RecentHonest
<1> SUFFICES ASSUME AnswerInv, Summarised, answer.recent # None PROVE
      LET rows == [i \in DOMAIN answer.recent |-> answer.recent[i].row]
      IN /\ IsInjective(rows)
         /\ \A i \in DOMAIN answer.recent : LET item == answer.recent[i] IN
              /\ Sometime(LAMBDA d : d.activity[item.row] = item.device)
              /\ item.kind = "attributed_dns" => item.device \in Device
              /\ \A p \in item.owners : Sometime(LAMBDA d : p \in Owners(d, item.device))
         /\ \A r \in Lookup \ Range(rows) :
              /\ r.blocked /\ r.at >= request.at - OnlineTicks
              /\ Throughout(LAMBDA d : d.activity[r] # NoRow)
              => Len(rows) = RecentLimit /\ \A q \in Range(rows) : q.blocked /\ q.at >= r.at
  BY DEF RecentHonest
<1> DEFINE at == request.at  v == request.view  view == Seen(v)
           rows == [i \in DOMAIN answer.recent |-> answer.recent[i].row]
<1>1. DOMAIN v = 1..11 /\ \A i \in 1..11 : DatabaseOK(v[i])
  BY SummaryRead
<1>2. PICK shown, blocked, recent, attributed :
        /\ LetThrough(at, view, shown, blocked, recent, attributed)
        /\ SummaryOf(answer, at, view, shown, blocked, recent, attributed)
  BY SummaryRead
<1> DEFINE all == RecentRows(blocked, recent, attributed)
           held == Held(view, shown, blocked, recent, attributed)
<1>3. /\ DOMAIN answer.recent = DOMAIN all
      /\ \A i \in DOMAIN all : ItemOf(answer.recent[i], all[i], held[all[i]], view.owners)
  BY <1>2 DEF SummaryOf, ItemOf
<1>4. all \in Seq(Lookup) /\ IsInjective(all)
  BY <1>2, RecentFacts
<1>5. rows = all
  <2> HIDE DEF all, held
  <2>1. \A i \in DOMAIN all : answer.recent[i].row = all[i]
    BY <1>3 DEF ItemOf
  <2>2. rows = [i \in DOMAIN all |-> all[i]]
    BY <1>3, <2>1
  <2>3. QED
    BY <1>4, <2>2
<1>6. ASSUME NEW i \in DOMAIN all
      PROVE  LET item == answer.recent[i] IN
             /\ \E k \in 1..11 : v[k].activity[item.row] = item.device
             /\ item.kind = "attributed_dns" => item.device \in Device
             /\ \A p \in item.owners : p \in Owners(v[3], item.device)
  <2> DEFINE item == answer.recent[i]
  <2>1. all[i] \in Range(all)
    BY DEF Range
  <2>2. /\ \E k \in 1..11 : held[all[i]] = v[k].activity[all[i]]
        /\ held[all[i]] # Review /\ ~all[i].blocked => held[all[i]] \in Device
    BY <1>1, <1>2, <2>1, FateFacts
  <2>3. ItemOf(item, all[i], held[all[i]], v[3])
    BY <1>3, SeenAt
  <2> HIDE DEF all, held, item
  <2>4. QED
    BY <2>2, <2>3 DEF ItemOf, item
<1>7. ASSUME NEW r \in Lookup \ Range(all), r.blocked, r.at >= at - OnlineTicks,
             \A i \in 1..11 : v[i].activity[r] # NoRow
      PROVE  Len(all) = RecentLimit /\ \A q \in Range(all) : q.blocked /\ q.at >= r.at
  <2>1. v[8].activity[r] # NoRow
    BY <1>7
  <2>2. QED
    BY <1>1, <1>2, <1>7, <2>1, BlockedListed
<1>8. 3 \in 1..11
  OBVIOUS
<1> HIDE DEF all, held, rows, view
<1>9. /\ \A i \in DOMAIN answer.recent : LET item == answer.recent[i] IN
           /\ Sometime(LAMBDA d : d.activity[item.row] = item.device)
           /\ item.kind = "attributed_dns" => item.device \in Device
           /\ \A p \in item.owners : Sometime(LAMBDA d : p \in Owners(d, item.device))
  BY <1>1, <1>3, <1>6, <1>8, Zenon DEF Sometime
<1>10. \A r \in Lookup \ Range(rows) :
         /\ r.blocked /\ r.at >= request.at - OnlineTicks
         /\ Throughout(LAMBDA d : d.activity[r] # NoRow)
         => Len(rows) = RecentLimit /\ \A q \in Range(rows) : q.blocked /\ q.at >= r.at
  BY <1>1, <1>5, <1>7, Zenon DEF Throughout
<1>11. IsInjective(rows)
  BY <1>4, <1>5
<1>12. QED
  BY <1>9, <1>10, <1>11 DEF rows

\* What a summary shows of a child was so in one of the databases it saw, and
\* what was so in all of them is shown.
LEMMA ShownExact == AnswerInv => ChildrenExact
<1> SUFFICES ASSUME AnswerInv, Summarised, NEW c \in Child, NEW e \in Device
             PROVE
    LET up(d, s)      == StatusOf(d, s, request.at) # "down"
        present(d, x) == d.seen[x] >= request.at - OnlineTicks
        lively(d, x)  == \E r \in Lookup : r.at >= request.at - OnlineTicks /\ d.activity[r] = x
    IN
         /\ e \in answer.children[c] =>
              /\ Sometime(LAMBDA d : e \in DevicesOf(d, c))
              /\ \/ /\ Sometime(LAMBDA d : up(d, "unifi_api"))
                    /\ Sometime(LAMBDA d : present(d, e))
                 \/ /\ Sometime(LAMBDA d : up(d, "pihole_api"))
                    /\ Sometime(LAMBDA d : lively(d, e))
         /\ Throughout(LAMBDA d : /\ e \in DevicesOf(d, c)
                                  /\ up(d, "unifi_api") /\ present(d, e))
              => e \in answer.children[c]
         /\ Throughout(LAMBDA d : /\ e \in DevicesOf(d, c)
                                  /\ up(d, "pihole_api") /\ lively(d, e))
              => e \in answer.children[c]
  BY DEF ChildrenExact
<1> DEFINE view == request.view
           at == request.at
           owned(d) == e \in DevicesOf(d, c)
           up(d, s) == StatusOf(d, s, at) # "down"
           present(d) == d.seen[e] >= at - OnlineTicks
           lively(d) == \E r \in Lookup : r.at >= at - OnlineTicks /\ d.activity[r] = e
<1>1. {1, 2, 6, 7} \subseteq DOMAIN view
  BY SummaryRead
<1>2. e \in answer.children[c] <=>
        /\ owned(view[6])
        /\ e \in Present(view[2], at, Incomplete(view[1], at)) \/ e \in Lively(view[7], at, Incomplete(view[1], at))
  <2>1. answer.children = [k \in Child |->
          {d \in DevicesOf(view[6], k) :
             \/ d \in Present(view[2], at, Incomplete(view[1], at))
             \/ d \in Lively(view[7], at, Incomplete(view[1], at))}]
    <3>1. PICK shown, blocked, recent, attributed :
            SummaryOf(answer, at, Seen(view), shown, blocked, recent, attributed)
      BY SummaryRead
    <3> DEFINE seen == Seen(view)
    <3>2. /\ seen.health = view[1] /\ seen.devices = view[2]
          /\ seen.links = view[6] /\ seen.latest = view[7]
      BY SeenAt
    <3> HIDE DEF seen, view, at
    <3>3. answer.children = [k \in Child |->
            {d \in DevicesOf(seen.links, k) :
               \/ d \in Present(seen.devices, at, Incomplete(seen.health, at))
               \/ d \in Lively(seen.latest, at, Incomplete(seen.health, at))}]
      BY <3>1 DEF SummaryOf, seen
    <3>4. QED
      BY <3>2, <3>3
  <2>2. QED
    BY <2>1
<1>3. \A s \in {"pihole_api", "unifi_api"} : s \in Incomplete(view[1], at) <=> ~up(view[1], s)
  BY DashboardAssumption DEF Incomplete
<1>4. e \in Present(view[2], at, Incomplete(view[1], at)) <=> up(view[1], "unifi_api") /\ present(view[2])
  BY <1>3 DEF Present, Online
<1>5. e \in Lively(view[7], at, Incomplete(view[1], at)) <=> up(view[1], "pihole_api") /\ lively(view[7])
  BY <1>3 DEF Lively, Attributed
<1>6. e \in answer.children[c] <=>
        /\ owned(view[6])
        /\ \/ up(view[1], "unifi_api") /\ present(view[2])
           \/ up(view[1], "pihole_api") /\ lively(view[7])
  BY <1>2, <1>4, <1>5
<1>7. QED
  BY <1>1, <1>6, Zenon DEF Sometime, Throughout

-----------------------------------------------------------------------------
(***************************************************************************)
(* The theorems.                                                           *)
(***************************************************************************)

\* Every lookup has one fate, the state of a source is one of the three, a
\* request makes no more SELECTs than its plan, and the lists of a summary stay
\* within their limits.
THEOREM DashboardTypeOKAlways == Spec => []DashboardTypeOK
<1>1. Init => OwnerInv /\ AnswerInv
  BY InitOwnerInv, InitAnswerInv
<1>2. QED
  BY <1>1, NextKeepsOwnerInv, NextKeepsAnswerInv, TypesFollow, PTL DEF Spec

\* What needs a parent's attention during the whole request is counted and
\* listed, and the household is not called normal, whatever is committed
\* between the SELECTs that count and those that list.
THEOREM AttentionShownAlways == Spec => []AttentionShown
<1>1. Init => OwnerInv /\ AnswerInv /\ FlagInv
  BY InitOwnerInv, InitAnswerInv, InitFlagInv
<1>2. QED
  BY <1>1, NextKeepsOwnerInv, NextKeepsAnswerInv, NextKeepsFlagInv, ShownFollows, PTL DEF Spec

\* The lookups of the day are counted if they were attributed during the whole
\* request, none is that never was, and the windows of a baseline leave out no
\* lookup of the subject.
THEOREM CountsBoundedAlways == Spec => []CountsBounded
<1>1. Init => OwnerInv /\ AnswerInv
  BY InitOwnerInv, InitAnswerInv
<1>2. QED
  BY <1>1, NextKeepsOwnerInv, NextKeepsAnswerInv, CountsFollow, PTL DEF Spec

\* The recent list names a lookup once, by what it was at some time of the
\* request, and leaves a blocked one out only for others that are not older.
THEOREM RecentHonestAlways == Spec => []RecentHonest
<1>1. Init => OwnerInv /\ AnswerInv
  BY InitOwnerInv, InitAnswerInv
<1>2. QED
  BY <1>1, NextKeepsOwnerInv, NextKeepsAnswerInv, RecentFollows, PTL DEF Spec

\* However the household changes between the SELECTs of a summary, a child is
\* shown as active on a device only for what was so at some time of the
\* request, and is shown so for what was so throughout.
THEOREM ChildrenExactAlways == Spec => []ChildrenExact
<1>1. Init => OwnerInv /\ AnswerInv
  BY InitOwnerInv, InitAnswerInv
<1>2. QED
  BY <1>1, NextKeepsOwnerInv, NextKeepsAnswerInv, ShownExact, PTL DEF Spec
=============================================================================
