---------------------------- MODULE ProcessProofs ----------------------------
(***************************************************************************)
(* Proofs about the start and the end of the process l1.                   *)
(*                                                                         *)
(* Its start (DeviceFinder), for any number of serial ports and of wheels, *)
(* whatever is at the ports and whichever devices are unplugged: a rover   *)
(* that starts has its wheels bound to the right devices, and the process  *)
(* dies only if a microcontroller is missing.                              *)
(*                                                                         *)
(* Its end (ServerLifecycle), for any number of calls under way: the       *)
(* chassis model outlives the handlers, whenever the signal comes.         *)
(***************************************************************************)
EXTENDS DeviceFinder, MCServerLifecycle, FiniteSetTheorems, WellFoundedInduction, TLAPS

-----------------------------------------------------------------------------
(*                       The start: DeviceFinder                           *)

Kinds == Ids \cup {"noise", "silent", "irrelevant"}
Keys == Ids \cup {"", "ERR"}

-----------------------------------------------------------------------------
(* The ports that are listed, and their order.                             *)

\* There are finitely many, and each has its place.
LEMMA Places ==
    ASSUME NEW p \in relevant
    PROVE  /\ IsFiniteSet(relevant) /\ Cardinality(relevant) \in Nat
           /\ IsFiniteSet({r \in relevant : r < p})
           /\ Place(p) \in Nat /\ Place(p) < Cardinality(relevant)
<1>1. IsFiniteSet(Ports)
    BY FS_Interval, FinderAssumption DEF Ports
<1>2. IsFiniteSet(relevant) /\ Cardinality(relevant) \in Nat
    BY <1>1, FS_Subset, FS_CardinalityType DEF relevant
<1> DEFINE B == {r \in relevant : r < p}
<1>3. IsFiniteSet(B) /\ Cardinality(B) <= Cardinality(relevant)
      /\ (Cardinality(relevant) = Cardinality(B) => relevant = B)
    BY <1>2, FS_Subset
<1>4. Cardinality(B) \in Nat
    BY <1>3, FS_CardinalityType
<1>5. p \notin B
    BY FinderAssumption DEF relevant, Ports
<1>6. Cardinality(relevant) # Cardinality(B)
    BY <1>3, <1>5
<1> QED
    BY <1>2, <1>3, <1>4, <1>6 DEF Place

\* Without a listed port their number is zero.
LEMMA NumberListed == IsFiniteSet(relevant) /\ Cardinality(relevant) \in Nat
<1>1. IsFiniteSet(Ports)
    BY FS_Interval, FinderAssumption DEF Ports
<1> QED
    BY <1>1, FS_Subset, FS_CardinalityType DEF relevant

\* A port in front of another has the smaller place.
LEMMA PlacesGrow ==
    ASSUME NEW p \in relevant, NEW q \in relevant, q < p
    PROVE  Place(q) < Place(p)
<1> DEFINE B(r) == {s \in relevant : s < r}
<1>0. \A s \in relevant : s \in Nat
    BY FinderAssumption DEF relevant, Ports
<1>1. B(q) \subseteq B(p) /\ q \in B(p) /\ q \notin B(q)
    BY <1>0
<1>2. IsFiniteSet(B(p)) /\ Place(p) \in Nat /\ Place(q) \in Nat
    BY Places
<1>3. Cardinality(B(q)) <= Cardinality(B(p))
      /\ (Cardinality(B(p)) = Cardinality(B(q)) => B(p) = B(q))
    BY <1>1, <1>2, FS_Subset
<1>4. Place(q) = Cardinality(B(q)) /\ Place(p) = Cardinality(B(p))
    BY DEF Place
<1> QED
    BY <1>1, <1>2, <1>3, <1>4

\* No two ports have the same place.
LEMMA PlacesDiffer ==
    ASSUME NEW p \in relevant, NEW q \in relevant, Place(p) = Place(q)
    PROVE  p = q
<1>1. p \in Nat /\ q \in Nat
    BY FinderAssumption DEF relevant, Ports
<1>2. Place(p) \in Nat
    BY Places
<1>3. ~(p < q) /\ ~(q < p)
    BY <1>2, PlacesGrow
<1> QED
    BY <1>1, <1>3

-----------------------------------------------------------------------------
(* map() and at().                                                         *)

Pairs == Keys \X (Ports \cup {NoPort})

\* The list is a sequence of pairs.
LEMMA ListOfPairs ==
    ASSUME TypeOK
    PROVE  /\ list \in Seq(Pairs)
           /\ Len(list) \in Nat /\ DOMAIN list = 1..Len(list)
           /\ \A i \in DOMAIN list : list[i] \in Pairs
<1>1. list \in Seq(Pairs)
    BY DEF TypeOK, Pairs, Keys
<1> QED
    BY <1>1

\* The pair map() keeps of an ID is one of the list.
LEMMA FirstIsInList ==
    ASSUME TypeOK, NEW id \in DOMAIN mapping
    PROVE  First(id) \in DOMAIN list /\ list[First(id)][1] = id
                /\ mapping[id] = list[First(id)][2]
<1> DEFINE T == {i \in DOMAIN list : list[i][1] = id}
<1>1. DOMAIN list = 1..Len(list) /\ Len(list) \in Nat
    BY ListOfPairs
<1>2. T \subseteq Nat /\ T # {}
    BY <1>1 DEF mapping
<1> DEFINE R == {ss \in Nat \X Nat : ss[1] < ss[2]}
<1>r. IsWellFoundedOn(R, Nat)
    BY NatLessThanWellFounded DEF OpToRel
<1>3. PICK i \in T : \A j \in T : ~(<<j, i>> \in R)
  <2> HIDE DEF T, R
  <2> QED
    BY <1>2, <1>r, WFMin
<1>4. \A j \in T : ~(j < i)
    BY <1>2, <1>3
<1>5. i \in DOMAIN list /\ list[i][1] = id
    BY <1>3
<1>6. ASSUME NEW j \in 1..(i - 1), list[j][1] = id
      PROVE  FALSE
  <2>1. i \in 1..Len(list)
    BY <1>1, <1>5
  <2>2. j \in DOMAIN list /\ j < i
    BY <1>1, <2>1
  <2> QED
    BY <1>4, <1>6, <2>2
<1>7. \E k \in DOMAIN list : list[k][1] = id /\ \A j \in 1..(k - 1) : list[j][1] # id
    BY <1>5, <1>6
<1>8. First(id) \in DOMAIN list /\ list[First(id)][1] = id
    BY <1>7 DEF First
<1> QED
    BY <1>8 DEF mapping

\* A gathered list has the result of every listed port, and so the first of
\* its pairs for every ID that a port gave.
LEMMA AllGathered ==
    ASSUME Inv, Len(list) = Cardinality(relevant)
    PROVE  \A p \in relevant :
              Answered(p) /\ (finder[p] = "done" => found[p] \in DOMAIN mapping)
<1> SUFFICES ASSUME NEW p \in relevant
             PROVE  Answered(p) /\ (finder[p] = "done" => found[p] \in DOMAIN mapping)
    OBVIOUS
<1> DEFINE i == Place(p) + 1
<1>1. Place(p) \in Nat /\ Place(p) < Len(list)
    BY Places
<1>2. Answered(p) /\ list[i] = Result(p)
    BY <1>1 DEF Inv, Gathered
<1>3. i \in DOMAIN list
    BY <1>1, ListOfPairs DEF Inv
<1>4. ASSUME finder[p] = "done"
      PROVE  found[p] \in DOMAIN mapping
  <2>1. list[i][1] = found[p]
    BY <1>2, <1>4 DEF Result
  <2> HIDE DEF i
  <2> QED
    BY <1>3, <2>1 DEF mapping
<1> QED
    BY <1>2, <1>4

\* There are finitely many IDs in the list.
LEMMA FewIds ==
    ASSUME TypeOK
    PROVE  IsFiniteSet(DOMAIN mapping) /\ Cardinality(DOMAIN mapping) \in Nat
<1> DEFINE D == {list[i][1] : i \in DOMAIN list}
           f == [i \in DOMAIN list |-> list[i][1]]
<1>1. IsFiniteSet(DOMAIN list)
    BY ListOfPairs, FS_Interval
<1>2. f \in Surjection(DOMAIN list, D)
    BY DEF Surjection
<1>3. IsFiniteSet(D)
  <2> HIDE DEF f, D
  <2> QED
    BY <1>1, <1>2, FS_Surjection
<1>4. DOMAIN mapping = D
    BY DEF mapping
<1> QED
    BY <1>3, <1>4, FS_CardinalityType

\* Whoever has fewer IDs than wheels misses that of a wheel.
LEMMA FewMeansMissing ==
    ASSUME TypeOK, Cardinality(DOMAIN mapping) < WheelCount
    PROVE  \E w \in Wheels : Id(w) \notin DOMAIN mapping
<1> SUFFICES ASSUME \A w \in Wheels : Id(w) \in DOMAIN mapping
             PROVE  FALSE
    OBVIOUS
<1> DEFINE f == [w \in Wheels |-> Id(w)]
           D == DOMAIN mapping
<1>1. IsFiniteSet(Wheels) /\ Cardinality(Wheels) = WheelCount
    BY FS_Interval, FinderAssumption DEF Wheels
<1>2. f \in [Wheels -> D]
    OBVIOUS
<1>3. IsFiniteSet(D) /\ Cardinality(D) < Cardinality(Wheels)
    BY <1>1, FewIds
<1>4. \E v, w \in Wheels : v # w /\ f[v] = f[w]
  <2> HIDE DEF f, D
  <2> QED
    BY <1>1, <1>2, <1>3, FS_PigeonHole
<1> QED
    BY <1>4, IdAssumption

\* Then no port gave that ID.
LEMMA MissingAtAll ==
    ASSUME Inv, Len(list) = Cardinality(relevant),
           NEW w \in Wheels, Id(w) \notin DOMAIN mapping
    PROVE  \A p \in Ports : finder[p] = "done" => found[p] # Id(w)
<1> SUFFICES ASSUME NEW p \in Ports, finder[p] = "done", found[p] = Id(w)
             PROVE  FALSE
    OBVIOUS
<1>1. p \in relevant
    BY DEF Inv, AnswersOwn, relevant
<1> QED
    BY <1>1, AllGathered

-----------------------------------------------------------------------------
(* The threads that read.                                                  *)

\* What a step of port p's thread does: it gives p a state, and what it
\* answers is p's ID or its complaint; it has not answered before.
Reads(p) ==
    \E state \in {"first", "next", "done", "failed"}, n \in 0..MAX_ATTEMPTS, key \in Keys :
        /\ device[p] # "irrelevant" /\ ~Answered(p)
        /\ finder' = [finder EXCEPT ![p] = state]
        /\ attempt' = [attempt EXCEPT ![p] = n]
        /\ found' = [found EXCEPT ![p] = key]
        /\ state \in {"first", "next"} => n < MAX_ATTEMPTS
        /\ state = "done" => device[p] \in Ids /\ key \in {device[p], "ERR"}
        /\ UNCHANGED <<single_uc, device, complains, gone, list, main, bound>>

LEMMA FinderReads ==
    ASSUME Inv, NEW p \in Ports, Finder(p)
    PROVE  Reads(p)
<1>0. /\ finder \in [Ports -> {"open", "first", "next", "done", "failed"}]
      /\ attempt \in [Ports -> 0..MAX_ATTEMPTS]
      /\ found \in [Ports -> Keys]
      /\ device \in [Ports -> Kinds]
    BY DEF Inv, TypeOK, Keys, Kinds
<1>s. /\ finder[p] \in {"open", "first", "next", "done", "failed"}
      /\ attempt[p] \in 0..MAX_ATTEMPTS /\ found[p] \in Keys
    BY <1>0
<1>a. /\ ~Answered(p) => attempt[p] < MAX_ATTEMPTS
      /\ device[p] = "irrelevant" => finder[p] = "open"
    BY DEF Inv, AnswersOwn
<1>u. /\ attempt = [attempt EXCEPT ![p] = attempt[p]]
      /\ found = [found EXCEPT ![p] = found[p]]
    BY <1>0
<1>1. CASE Open(p)
  <2>1. PICK state \in {"first", "failed"} : finder' = [finder EXCEPT ![p] = state]
    BY <1>1 DEF Open
  <2>2. ~Answered(p) /\ device[p] # "irrelevant"
    BY <1>1 DEF Open, Answered
  <2>3. attempt' = attempt /\ found' = found
        /\ UNCHANGED <<single_uc, device, complains, gone, list, main, bound>>
    BY <1>1 DEF Open
  <2> QED
    <3> DEFINE n == attempt[p]
               key == found[p]
    <3>1. state \in {"first", "next", "done", "failed"} /\ n \in 0..MAX_ATTEMPTS /\ key \in Keys
      BY <1>s, <2>1
    <3>2. attempt' = [attempt EXCEPT ![p] = n] /\ found' = [found EXCEPT ![p] = key]
      BY <1>u, <2>3
    <3>3. n < MAX_ATTEMPTS
      BY <1>a, <2>2
    <3>4. state # "done"
      OBVIOUS
    <3> HIDE DEF n, key
    <3> QED
      BY <2>1, <2>2, <2>3, <3>1, <3>2, <3>3, <3>4 DEF Reads
<1>2. CASE ReadFails(p)
  <2>1. finder' = [finder EXCEPT ![p] = "failed"]
    BY <1>2 DEF ReadFails
  <2>2. finder[p] \in {"first", "next"}
    BY <1>2 DEF ReadFails
  <2>3. attempt' = attempt /\ found' = found
        /\ UNCHANGED <<single_uc, device, complains, gone, list, main, bound>>
    BY <1>2 DEF ReadFails
  <2>4. ~Answered(p) /\ device[p] # "irrelevant"
    BY <1>a, <2>2 DEF Answered
  <2> QED
    BY <1>s, <1>u, <2>1, <2>3, <2>4 DEF Reads
<1>3. CASE ReadLine(p)
  <2>1. finder[p] \in {"first", "next"}
    BY <1>3 DEF ReadLine
  <2>2. ~Answered(p) /\ device[p] # "irrelevant"
    BY <1>a, <2>1 DEF Answered
  <2>3. UNCHANGED <<single_uc, device, complains, gone, list, main, bound>>
    BY <1>3 DEF ReadLine
  <2>4. PICK line \in Lines(p) :
          CASE line = "garbage" -> NotValid(p) /\ UNCHANGED found
            [] line = "empty" -> /\ finder' = [finder EXCEPT ![p] = "failed"]
                                 /\ UNCHANGED <<attempt, found>>
            [] OTHER -> /\ finder' = [finder EXCEPT ![p] = "done"]
                        /\ found' = [found EXCEPT ![p] = line]
                        /\ UNCHANGED attempt
    BY <1>3 DEF ReadLine
  <2>5. CASE line = "garbage"
    <3>1. attempt' = [attempt EXCEPT ![p] = attempt[p] + 1] /\ found' = found
      BY <2>4, <2>5 DEF NotValid
    <3>2. attempt'[p] = attempt[p] + 1
      BY <1>0, <3>1
    <3>3. finder' = [finder EXCEPT ![p] =
                        IF attempt[p] + 1 < MAX_ATTEMPTS THEN "next" ELSE "failed"]
      BY <2>4, <2>5, <3>2 DEF NotValid
    <3>4. attempt[p] + 1 \in 0..MAX_ATTEMPTS
      BY <1>s, <1>a, <2>2 DEF MAX_ATTEMPTS
    <3>5. PICK state \in {"next", "failed"} :
            /\ finder' = [finder EXCEPT ![p] = state]
            /\ state = "next" => attempt[p] + 1 < MAX_ATTEMPTS
      BY <3>3
    <3> QED
      BY <1>s, <1>u, <2>2, <2>3, <3>1, <3>4, <3>5 DEF Reads
  <2>6. CASE line # "garbage" /\ line = "empty"
    BY <1>s, <1>u, <2>2, <2>3, <2>4, <2>6 DEF Reads
  <2>7. CASE line # "garbage" /\ line # "empty"
    <3>1. /\ finder' = [finder EXCEPT ![p] = "done"]
          /\ found' = [found EXCEPT ![p] = line]
          /\ attempt' = attempt
      BY <2>4, <2>7
    <3>2. device[p] \notin {"silent", "noise", "irrelevant"}
      BY <2>2, <2>7 DEF Lines
    <3>3. device[p] \in Ids /\ line \in {device[p], "ERR"}
      BY <1>0, <2>7, <3>2 DEF Lines, Kinds
    <3>4. line \in Keys
      BY <3>3 DEF Keys
    <3> QED
      BY <1>s, <1>u, <2>2, <2>3, <3>1, <3>3, <3>4 DEF Reads
  <2> QED
    BY <2>5, <2>6, <2>7
<1> QED
    BY <1>1, <1>2, <1>3 DEF Finder

\* The order of the ports is fixed.
LEMMA SameOrder ==
    ASSUME device' = device
    PROVE  relevant' = relevant /\ \A p : Place(p)' = Place(p)
BY DEF relevant, Place

\* A step of a reading thread keeps the invariant: what was collected is what
\* has been answered, and that does not change.
LEMMA ReadsInv ==
    ASSUME Inv, NEW p \in Ports, Reads(p)
    PROVE  Inv'
<1>1. PICK state \in {"first", "next", "done", "failed"}, n \in 0..MAX_ATTEMPTS, key \in Keys :
        /\ device[p] # "irrelevant" /\ ~Answered(p)
        /\ finder' = [finder EXCEPT ![p] = state]
        /\ attempt' = [attempt EXCEPT ![p] = n]
        /\ found' = [found EXCEPT ![p] = key]
        /\ state \in {"first", "next"} => n < MAX_ATTEMPTS
        /\ state = "done" => device[p] \in Ids /\ key \in {device[p], "ERR"}
        /\ UNCHANGED <<single_uc, device, complains, gone, list, main, bound>>
    BY DEF Reads
<1>2. TypeOK /\ AnswersOwn /\ Gathered /\ BoundRight /\ DiesOnlyIfMissing
    BY DEF Inv
<1>3. /\ finder \in [Ports -> {"open", "first", "next", "done", "failed"}]
      /\ attempt \in [Ports -> 0..MAX_ATTEMPTS]
      /\ found \in [Ports -> Keys]
    BY <1>2 DEF TypeOK, Keys
<1>4. /\ finder' \in [Ports -> {"open", "first", "next", "done", "failed"}]
      /\ attempt' \in [Ports -> 0..MAX_ATTEMPTS]
      /\ found' \in [Ports -> Keys]
    BY <1>1, <1>3
<1>5. \A q \in Ports : q # p =>
        finder'[q] = finder[q] /\ attempt'[q] = attempt[q] /\ found'[q] = found[q]
    BY <1>1, <1>3
<1>6. finder'[p] = state /\ attempt'[p] = n /\ found'[p] = key
    BY <1>1, <1>3
<1>7. \A q \in Ports : Answered(q) =>
        q # p /\ Answered(q)' /\ Result(q)' = Result(q)
  <2> SUFFICES ASSUME NEW q \in Ports, Answered(q)
               PROVE  q # p /\ Answered(q)' /\ Result(q)' = Result(q)
    OBVIOUS
  <2>1. q # p
    BY <1>1
  <2>2. finder'[q] = finder[q] /\ found'[q] = found[q]
    BY <1>5, <2>1
  <2> QED
    BY <2>1, <2>2 DEF Answered, Result
<1>8. relevant' = relevant /\ \A q : Place(q)' = Place(q)
    BY <1>1, SameOrder
<1>9. TypeOK'
    BY <1>1, <1>2, <1>4 DEF TypeOK, Keys
<1>10. AnswersOwn'
    BY <1>1, <1>2, <1>5, <1>6 DEF AnswersOwn, Answered
<1>11. Gathered'
  <2>1. ASSUME NEW q \in relevant, Place(q) < Len(list)
        PROVE  Answered(q)' /\ list'[Place(q) + 1] = Result(q)'
    <3>1. Answered(q) /\ list[Place(q) + 1] = Result(q) /\ q \in Ports
      BY <1>2, <2>1 DEF Gathered, relevant
    <3> QED
      BY <1>1, <1>7, <3>1
  <2>2. ASSUME NEW i \in DOMAIN list, list[i][2] # NoPort
        PROVE  finder'[list[i][2]] = "done" /\ found'[list[i][2]] = list[i][1]
    <3>1. finder[list[i][2]] = "done" /\ found[list[i][2]] = list[i][1]
      BY <1>2, <2>2 DEF Gathered
    <3>2. list[i][2] \in Ports
      BY <1>2, <2>2, ListOfPairs DEF Pairs
    <3> QED
      BY <1>5, <1>7, <3>1, <3>2 DEF Answered
  <2> QED
    BY <1>1, <1>2, <1>8, <2>1, <2>2 DEF Gathered
<1>12. BoundRight'
  <2>1. ASSUME NEW w \in Wheels, bound[w] # NoPort
        PROVE  finder'[bound[w]] = "done" /\ (single_uc \/ found'[bound[w]] = Id(w))
    <3>1. finder[bound[w]] = "done" /\ (single_uc \/ found[bound[w]] = Id(w))
      BY <1>2, <2>1 DEF BoundRight
    <3>2. bound[w] \in Ports
      BY <1>2, <2>1 DEF TypeOK
    <3> QED
      BY <1>5, <1>7, <3>1, <3>2 DEF Answered
  <2> QED
    BY <1>1, <1>2, <2>1 DEF BoundRight
<1>13. main # "terminated"
  <2>1. p \in relevant
    BY <1>1 DEF relevant
  <2> QED
    BY <1>1, <1>2, <2>1, AllGathered DEF Gathered
<1>14. DiesOnlyIfMissing'
    BY <1>1, <1>13 DEF DiesOnlyIfMissing
<1> QED
    BY <1>9, <1>10, <1>11, <1>12, <1>14 DEF Inv

-----------------------------------------------------------------------------
(* The main thread, and the world.                                         *)

\* At the start nothing was read.
LEMMA InitInv == Init => Inv
<1> SUFFICES ASSUME Init
             PROVE  Inv
    OBVIOUS
<1>0. /\ device \in [Ports -> Ids \cup {"noise", "silent", "irrelevant"}]
      /\ complains \subseteq Ports
      /\ gone = {}
      /\ list = <<>>
      /\ main = "scan"
    BY Zenon DEF Init
<1>s. single_uc \in BOOLEAN
    BY Zenon DEF Init
<1>t. /\ finder = [p \in Ports |-> "open"]
      /\ attempt = [p \in Ports |-> 0]
      /\ found = [p \in Ports |-> ""]
      /\ bound = [w \in Wheels |-> NoPort]
    BY Zenon DEF Init
<1>1. TypeOK
  <2>1. list \in Seq((Ids \cup {"", "ERR"}) \X (Ports \cup {NoPort}))
    BY <1>0
  <2>2. finder \in [Ports -> {"open", "first", "next", "done", "failed"}]
    BY <1>t
  <2>3. attempt \in [Ports -> 0..MAX_ATTEMPTS]
    <3>1. 0 \in 0..MAX_ATTEMPTS
      BY DEF MAX_ATTEMPTS
    <3> QED
      BY <1>t, <3>1
  <2>4. found \in [Ports -> Ids \cup {"", "ERR"}]
    BY <1>t
  <2>5. bound \in [Wheels -> Ports \cup {NoPort}]
    BY <1>t
  <2> QED
    BY <1>0, <1>s, <2>1, <2>2, <2>3, <2>4, <2>5 DEF TypeOK
<1>2. AnswersOwn
  <2>1. \A p \in Ports : finder[p] = "open" /\ attempt[p] = 0
    BY <1>t
  <2> QED
    BY <2>1 DEF AnswersOwn, Answered, MAX_ATTEMPTS
<1>3. Gathered
  <2>1. Len(list) = 0 /\ list = <<>> /\ DOMAIN list = {} /\ main = "scan"
    BY <1>0
  <2>2. \A p \in relevant : Place(p) \in Nat
    BY Places
  <2> QED
    BY <2>1, <2>2, NumberListed DEF Gathered
<1>4. BoundRight
  <2>1. \A w \in Wheels : bound[w] = NoPort
    BY <1>t
  <2>2. Wheels # {}
    BY FinderAssumption DEF Wheels
  <2> QED
    BY <1>0, <2>1, <2>2 DEF BoundRight
<1>5. DiesOnlyIfMissing
    BY <1>0 DEF DiesOnlyIfMissing
<1> QED
    BY <1>1, <1>2, <1>3, <1>4, <1>5 DEF Inv

\* A step that leaves the threads and the list alone keeps what is said of them.
LEMMA ThreadsKept ==
    ASSUME Inv, UNCHANGED <<device, threads, list>>
    PROVE  /\ AnswersOwn' /\ relevant' = relevant
           /\ (main' = "scan" => main = "scan")
                /\ (main' \in {"built", "terminated"} => Len(list) = Cardinality(relevant))
              => Gathered'
<1>1. relevant' = relevant /\ \A q : Place(q)' = Place(q)
    BY SameOrder
<1>2. \A q : Answered(q)' = Answered(q) /\ Result(q)' = Result(q)
    BY DEF threads, Answered, Result
<1>3. AnswersOwn'
    BY <1>2 DEF Inv, AnswersOwn, threads
<1>4. ASSUME main' = "scan" => main = "scan",
             main' \in {"built", "terminated"} => Len(list) = Cardinality(relevant)
      PROVE  Gathered'
    BY <1>1, <1>2, <1>4 DEF Inv, Gathered, threads
<1> QED
    BY <1>1, <1>3, <1>4

\* Unplugging changes nothing that was found.
LEMMA VanishInv ==
    ASSUME Inv, NEW p \in Ports, Vanish(p)
    PROVE  Inv'
<1>1. UNCHANGED <<single_uc, device, complains, threads, list, main, bound>>
      /\ gone' = gone \cup {p}
    BY DEF Vanish
<1>2. TypeOK'
    BY <1>1 DEF Inv, TypeOK, threads
<1>3. AnswersOwn' /\ Gathered'
    BY <1>1, ThreadsKept DEF Inv, Gathered
<1>4. BoundRight'
    BY <1>1 DEF Inv, BoundRight, threads
<1>5. DiesOnlyIfMissing'
    BY <1>1, SameOrder DEF Inv, DiesOnlyIfMissing, threads
<1> QED
    BY <1>2, <1>3, <1>4, <1>5 DEF Inv

\* Nothing is collected yet when the ports are listed.
LEMMA FilterInv ==
    ASSUME Inv, Filter
    PROVE  Inv'
<1>1. UNCHANGED <<single_uc, device, complains, gone, threads, list, bound>>
      /\ main = "scan" /\ main' \in {"list", "aborted"}
    BY DEF Filter
<1>2. TypeOK'
    BY <1>1 DEF Inv, TypeOK, threads
<1>3. AnswersOwn' /\ Gathered'
    BY <1>1, ThreadsKept
<1>4. BoundRight'
    BY <1>1 DEF Inv, BoundRight, threads
<1>5. DiesOnlyIfMissing'
    BY <1>1 DEF DiesOnlyIfMissing
<1> QED
    BY <1>2, <1>3, <1>4, <1>5 DEF Inv

\* The port whose turn it is adds its own result at its place.
LEMMA CollectInv ==
    ASSUME Inv, Collect
    PROVE  Inv'
<1>1. /\ UNCHANGED <<single_uc, device, complains, gone, threads, main, bound>>
      /\ main = "list"
    BY DEF Collect
<1>2. PICK p \in relevant :
        Place(p) = Len(list) /\ finder[p] \in {"done", "failed"} /\ list' = Append(list, Result(p))
    BY DEF Collect
<1>3. p \in Ports
    BY DEF relevant
<1>4. /\ list \in Seq(Pairs) /\ Len(list) \in Nat
      /\ DOMAIN list = 1..Len(list)
    BY ListOfPairs DEF Inv
<1>5. Result(p) \in Pairs /\ (Result(p)[2] # NoPort => finder[p] = "done" /\ Result(p) = <<found[p], p>>)
  <2>1. found[p] \in Keys
    BY <1>3 DEF Inv, TypeOK, Keys
  <2> QED
    BY <1>3, <2>1 DEF Result, Pairs, Keys
<1>6. /\ list' \in Seq(Pairs)
      /\ Len(list') = Len(list) + 1
      /\ DOMAIN list' = 1..(Len(list) + 1)
      /\ \A i \in 1..Len(list) : list'[i] = list[i]
      /\ list'[Len(list) + 1] = Result(p)
    BY <1>2, <1>4, <1>5
<1>7. TypeOK'
    BY <1>1, <1>6 DEF Inv, TypeOK, threads, Pairs, Keys
<1>8. relevant' = relevant /\ \A q : Place(q)' = Place(q)
    BY <1>1, SameOrder
<1>9. \A q : Answered(q)' = Answered(q) /\ Result(q)' = Result(q)
    BY <1>1 DEF threads, Answered, Result
<1>10. AnswersOwn'
    BY <1>1, <1>9 DEF Inv, AnswersOwn, threads
<1>11. Gathered'
  <2>1. ASSUME NEW q \in relevant, Place(q) < Len(list')
        PROVE  Answered(q) /\ list'[Place(q) + 1] = Result(q)
    <3>1. Place(q) \in Nat
      BY Places
    <3>2. CASE Place(q) < Len(list)
      <4>1. Answered(q) /\ list[Place(q) + 1] = Result(q)
        BY <3>2 DEF Inv, Gathered
      <4>2. Place(q) + 1 \in 1..Len(list)
        BY <1>4, <3>1, <3>2
      <4> QED
        BY <1>6, <4>1, <4>2
    <3>3. CASE Place(q) = Len(list)
      <4>1. q = p
        BY <1>2, <3>3, PlacesDiffer
      <4> QED
        BY <1>2, <1>6, <4>1 DEF Answered
    <3> QED
      BY <1>4, <1>6, <2>1, <3>1, <3>2, <3>3
  <2>2. ASSUME NEW i \in DOMAIN list', list'[i][2] # NoPort
        PROVE  finder[list'[i][2]] = "done" /\ found[list'[i][2]] = list'[i][1]
    <3>1. CASE i \in 1..Len(list)
      <4>1. list'[i] = list[i] /\ i \in DOMAIN list
        BY <1>4, <1>6, <3>1
      <4> QED
        BY <2>2, <4>1 DEF Inv, Gathered
    <3>2. CASE i = Len(list) + 1
      BY <1>5, <1>6, <2>2, <3>2
    <3> QED
      BY <1>4, <1>6, <3>1, <3>2
  <2>3. Len(list') <= Cardinality(relevant)
    <3>1. Place(p) \in Nat /\ Place(p) < Cardinality(relevant)
      BY Places
    <3> QED
      BY <1>2, <1>4, <1>6, <3>1, NumberListed
  <2> QED
    BY <1>1, <1>8, <1>9, <2>1, <2>2, <2>3 DEF Gathered, threads
<1>12. BoundRight'
    BY <1>1 DEF Inv, BoundRight, threads
<1>13. DiesOnlyIfMissing'
    BY <1>1 DEF DiesOnlyIfMissing
<1> QED
    BY <1>7, <1>10, <1>11, <1>12, <1>13 DEF Inv

\* The process dies for want of IDs only if one is missing.
LEMMA TooFewInv ==
    ASSUME Inv, TooFew
    PROVE  Inv'
<1>1. /\ UNCHANGED <<single_uc, device, complains, gone, threads, list, bound>>
      /\ main = "list" /\ main' = "terminated"
      /\ Len(list) = Cardinality(relevant)
      /\ Cardinality(DOMAIN mapping) < PortsNeeded
    BY DEF TooFew, Collected, NotEnough
<1>2. TypeOK'
    BY <1>1 DEF Inv, TypeOK, threads
<1>3. AnswersOwn' /\ Gathered' /\ relevant' = relevant
    BY <1>1, ThreadsKept
<1>4. BoundRight'
    BY <1>1 DEF Inv, BoundRight, threads
<1>5. DiesOnlyIfMissing'
  <2>1. CASE single_uc
    <3>1. Cardinality(DOMAIN mapping) = 0
      BY <1>1, <2>1, FewIds DEF Inv, PortsNeeded
    <3>2. DOMAIN mapping = {}
      BY <3>1, FewIds, FS_EmptySet DEF Inv
    <3>3. DOMAIN list = {}
      BY <3>2 DEF mapping
    <3>4. Len(list) = 0
      BY <3>3, ListOfPairs DEF Inv
    <3>5. relevant = {}
      BY <1>1, <3>4, NumberListed, FS_EmptySet
    <3> QED
      BY <1>1, <1>3, <2>1, <3>5 DEF DiesOnlyIfMissing
  <2>2. CASE ~single_uc
    <3>1. PICK w \in Wheels : Id(w) \notin DOMAIN mapping
      BY <1>1, <2>2, FewMeansMissing DEF Inv, PortsNeeded
    <3>2. \A p \in Ports : finder[p] = "done" => found[p] # Id(w)
      BY <1>1, <3>1, MissingAtAll
    <3> QED
      BY <1>1, <2>2, <3>2 DEF DiesOnlyIfMissing, threads
  <2> QED
    BY <2>1, <2>2
<1> QED
    BY <1>2, <1>3, <1>4, <1>5 DEF Inv

\* Wheels bound to a port that gave their ID keep the invariant.
LEMMA BindInv ==
    ASSUME Inv, Collected, NEW ws \in SUBSET Wheels, NEW id \in DOMAIN mapping,
           Bind(ws, mapping[id]), single_uc \/ \A w \in ws : id = Id(w),
           UNCHANGED <<single_uc, device, complains, gone, threads, list>>
    PROVE  Inv'
<1> DEFINE port == mapping[id]
<1>1. main = "list" /\ Len(list) = Cardinality(relevant)
    BY DEF Collected
<1>2. \E i \in DOMAIN list : list[i][1] = id /\ list[i][2] = port
    BY FirstIsInList DEF Inv
<1>3. port \in Ports \cup {NoPort}
      /\ (port # NoPort => finder[port] = "done" /\ found[port] = id)
    BY <1>2, ListOfPairs DEF Inv, Gathered, Pairs
<1> HIDE DEF port
<1>4. CASE port = NoPort \/ port \in gone
  <2>1. main' = "aborted" /\ bound' = bound
    BY <1>4 DEF Bind, port
  <2>2. TypeOK'
    BY <2>1 DEF Inv, TypeOK, threads
  <2>3. AnswersOwn' /\ Gathered'
    BY <2>1, ThreadsKept
  <2>4. BoundRight'
    BY <2>1 DEF Inv, BoundRight, threads
  <2>5. DiesOnlyIfMissing'
    BY <2>1 DEF DiesOnlyIfMissing
  <2> QED
    BY <2>2, <2>3, <2>4, <2>5 DEF Inv
<1>5. CASE ~(port = NoPort \/ port \in gone)
  <2>1. /\ bound' = [w \in Wheels |-> IF w \in ws THEN port ELSE bound[w]]
        /\ main' = IF \E w \in Wheels : bound'[w] = NoPort THEN "list" ELSE "built"
    BY <1>5 DEF Bind, port
  <2>2. main' \in {"list", "built"}
    BY <2>1
  <2>3. bound' \in [Wheels -> Ports \cup {NoPort}]
    BY <1>3, <2>1 DEF Inv, TypeOK
  <2>4. TypeOK'
    BY <2>2, <2>3 DEF Inv, TypeOK, threads
  <2>5. AnswersOwn' /\ Gathered'
    BY <1>1, <2>2, ThreadsKept
  <2>6. \A w \in Wheels : bound'[w] = IF w \in ws THEN port ELSE bound[w]
    BY <2>1
  <2>7. ASSUME NEW w \in Wheels, bound'[w] # NoPort
        PROVE  finder[bound'[w]] = "done" /\ (single_uc \/ found[bound'[w]] = Id(w))
    <3>1. CASE w \in ws
      BY <1>3, <2>6, <2>7, <3>1
    <3>2. CASE w \notin ws
      BY <2>6, <2>7, <3>2 DEF Inv, BoundRight
    <3> QED
      BY <3>1, <3>2
  <2>8. BoundRight'
    <3>1. /\ main' \in {"scan", "list"} => \E w \in Wheels : bound'[w] = NoPort
          /\ main' = "built" => \A w \in Wheels : bound'[w] # NoPort
      BY <2>1
    <3> QED
      BY <2>7, <3>1 DEF BoundRight, threads
  <2>9. DiesOnlyIfMissing'
    BY <2>2 DEF DiesOnlyIfMissing
  <2> QED
    BY <2>4, <2>5, <2>8, <2>9 DEF Inv
<1> QED
    BY <1>4, <1>5

\* The next wheel of the loop is one that is not bound yet.
LEMMA NextWheelExists ==
    ASSUME Inv, main = "list"
    PROVE  Cardinality({v \in Wheels : bound[v] # NoPort}) \in Wheels
<1> DEFINE B == {v \in Wheels : bound[v] # NoPort}
<1>1. IsFiniteSet(Wheels) /\ Cardinality(Wheels) = WheelCount
    BY FS_Interval, FinderAssumption DEF Wheels
<1>2. B # Wheels /\ B \in SUBSET Wheels
    BY DEF Inv, BoundRight
<1>3. IsFiniteSet(B) /\ Cardinality(B) <= WheelCount /\ Cardinality(B) # WheelCount
    BY <1>1, <1>2, FS_Subset
<1>4. Cardinality(B) \in Nat
    BY <1>3, FS_CardinalityType
<1> QED
    BY <1>3, <1>4, FinderAssumption DEF Wheels

LEMMA BindWheelInv ==
    ASSUME Inv, BindWheel
    PROVE  Inv'
<1> DEFINE w == Cardinality({v \in Wheels : bound[v] # NoPort})
<1>1. /\ Collected /\ ~single_uc
      /\ UNCHANGED <<single_uc, device, complains, gone, threads, list>>
      /\ IF Id(w) \in DOMAIN mapping THEN Bind({w}, mapping[Id(w)])
         ELSE main' = "terminated" /\ UNCHANGED bound
    BY DEF BindWheel, At
<1>2. w \in Wheels
    BY <1>1, NextWheelExists DEF Collected
<1> HIDE DEF w
<1>3. CASE Id(w) \in DOMAIN mapping
    BY <1>1, <1>2, <1>3, BindInv
<1>4. CASE Id(w) \notin DOMAIN mapping
  <2>1. main' = "terminated" /\ bound' = bound /\ main = "list"
        /\ Len(list) = Cardinality(relevant)
    BY <1>1, <1>4 DEF Collected
  <2>2. TypeOK'
    BY <1>1, <2>1 DEF Inv, TypeOK, threads
  <2>3. AnswersOwn' /\ Gathered'
    BY <1>1, <2>1, ThreadsKept
  <2>4. BoundRight'
    BY <1>1, <2>1 DEF Inv, BoundRight, threads
  <2>5. \A p \in Ports : finder[p] = "done" => found[p] # Id(w)
    BY <1>2, <1>4, <2>1, MissingAtAll
  <2>6. DiesOnlyIfMissing'
    BY <1>1, <1>2, <2>5 DEF DiesOnlyIfMissing, threads
  <2> QED
    BY <2>2, <2>3, <2>4, <2>6 DEF Inv
<1> QED
    BY <1>3, <1>4

LEMMA BindAllInv ==
    ASSUME Inv, BindAll
    PROVE  Inv'
<1>1. /\ Collected /\ single_uc
      /\ UNCHANGED <<single_uc, device, complains, gone, threads, list>>
    BY DEF BindAll
<1>2. PICK id \in DOMAIN mapping : Bind(Wheels, mapping[id])
    BY DEF BindAll
<1> QED
    BY <1>1, <1>2, BindInv

-----------------------------------------------------------------------------
(* The theorems.                                                           *)

\* Every step keeps the invariant.
LEMMA NextInv == Inv /\ [Next]_vars => Inv'
<1> SUFFICES ASSUME Inv, [Next]_vars
             PROVE  Inv'
    OBVIOUS
<1>1. ASSUME NEW p \in Ports, Finder(p)
      PROVE  Inv'
    BY <1>1, FinderReads, ReadsInv
<1>2. ASSUME NEW p \in Ports, Vanish(p)
      PROVE  Inv'
    BY <1>2, VanishInv
<1>3. CASE Main
    BY <1>3, FilterInv, CollectInv, TooFewInv, BindWheelInv, BindAllInv DEF Main
<1>4. CASE UNCHANGED vars
  <2>1. UNCHANGED <<single_uc, device, complains, gone, threads, list, main, bound>>
    BY <1>4 DEF vars
  <2>2. TypeOK'
    BY <2>1 DEF Inv, TypeOK, threads
  <2>3. AnswersOwn' /\ Gathered' /\ relevant' = relevant
    BY <2>1, ThreadsKept DEF Inv, Gathered
  <2>4. BoundRight' /\ DiesOnlyIfMissing'
    BY <2>1, <2>3 DEF Inv, BoundRight, DiesOnlyIfMissing, threads
  <2> QED
    BY <2>2, <2>3, <2>4 DEF Inv
<1> QED
    BY <1>1, <1>2, <1>3, <1>4 DEF Next

\* The inductive invariant holds in every reachable state.
THEOREM FinderInvariance == Spec => []Inv
BY InitInv, NextInv, PTL DEF Spec

\* Type correctness of detection: no port is tried more than MAX_ATTEMPTS times.
THEOREM FinderTypeCorrect == Spec => []TypeOK
<1>1. Inv => TypeOK
    BY DEF Inv
<1> QED
    BY <1>1, FinderInvariance, PTL

\* However many ports there are, in whatever order they answer and whichever
\* devices vanish, a rover that starts has each wheel bound to its own
\* microcontroller.
THEOREM WheelsRight == Spec => []RightWheel
<1>1. Inv => RightWheel
  <2> SUFFICES ASSUME Inv, main = "built", NEW w \in Wheels
               PROVE  /\ bound[w] \in Ports
                      /\ finder[bound[w]] = "done"
                      /\ ~single_uc => device[bound[w]] = Id(w)
    BY DEF RightWheel
  <2>1. bound[w] # NoPort /\ bound[w] \in Ports
    BY DEF Inv, BoundRight, TypeOK
  <2>2. finder[bound[w]] = "done" /\ (single_uc \/ found[bound[w]] = Id(w))
    BY <2>1 DEF Inv, BoundRight
  <2>3. found[bound[w]] \in {device[bound[w]], "ERR"}
    BY <2>1, <2>2 DEF Inv, AnswersOwn
  <2> QED
    BY <2>1, <2>2, <2>3, IdAssumption
<1> QED
    BY <1>1, FinderInvariance, PTL

\* The process dies of an exception nobody catches only if the ID of a wheel
\* was given by no port.
THEOREM DiesForMissing == Spec => []DiesOnlyIfMissing
<1>1. Inv => DiesOnlyIfMissing
    BY DEF Inv
<1> QED
    BY <1>1, FinderInvariance, PTL

-----------------------------------------------------------------------------
(*                       The end: ServerLifecycle                          *)

USE DEF Life!MainLines, Life!ThreadLines, Life!MainAt, Life!ThreadAt

\* The process starts with nothing built.
LEMMA LifeInitInv ==
    ASSUME Life!Init
    PROVE  Life!Inv
<1>1. Life!TypeOK
  <2>1. /\ mainThread \in Life!MainLines /\ thread \in Life!ThreadLines
        /\ model \in {"none", "owned", "released"}
        /\ server \in {"null", "serving", "stopping", "stopped", "gone"}
        /\ calls \in 0..MaxCalls
    BY MaxCallsAssumption DEF Life!Init
  <2>2. signalled \in BOOLEAN /\ undefined \in BOOLEAN
    BY DEF Life!Init
  <2> QED
    BY <2>1, <2>2 DEF Life!TypeOK
<1>2. Life!AppOwns /\ Life!ThreadLife /\ Life!ServerLife /\ Life!NoCalls
    BY DEF Life!Init, Life!AppOwns, Life!ThreadLife, Life!ServerLife, Life!NoCalls
<1> QED
    BY <1>1, <1>2 DEF Life!Inv

\* Each step of the main thread keeps the invariant.
LEMMA LifeMainInv ==
    ASSUME Life!Inv, Life!MainStep
    PROVE  Life!Inv'
<1> USE DEF Life!Inv, Life!TypeOK, Life!AppOwns, Life!ThreadLife, Life!ServerLife, Life!NoCalls
<1>1. CASE Life!Detect
    BY <1>1 DEF Life!Detect
<1>2. CASE Life!StartServer
    BY <1>2 DEF Life!StartServer
<1>3. CASE Life!ServeSignal
    BY <1>3 DEF Life!ServeSignal, Life!BeforeServer
<1>4. CASE Life!TestServer
    BY <1>4 DEF Life!TestServer
<1>5. CASE Life!Shutdown
    BY <1>5 DEF Life!Shutdown
<1>6. CASE Life!ShutdownEnds
    BY <1>6 DEF Life!ShutdownEnds
<1>7. CASE Life!Reset
    BY <1>7 DEF Life!Reset
<1>8. CASE Life!Join
    BY <1>8 DEF Life!Join
<1> QED
    BY <1>1, <1>2, <1>3, <1>4, <1>5, <1>6, <1>7, <1>8 DEF Life!MainStep

\* Each step of server_thread keeps the invariant.
LEMMA LifeThreadInv ==
    ASSUME Life!Inv, Life!ThreadStep
    PROVE  Life!Inv'
<1> USE DEF Life!Inv, Life!TypeOK, Life!AppOwns, Life!ThreadLife, Life!ServerLife, Life!NoCalls
<1>1. CASE Life!LockModel
    BY <1>1 DEF Life!LockModel, Life!ModelAlive, Life!InRun
<1>2. CASE Life!Build
    BY <1>2 DEF Life!Build
<1>3. CASE Life!Wait
    BY <1>3 DEF Life!Wait
<1>4. CASE Life!WaitReturns
    BY <1>4 DEF Life!WaitReturns
<1>5. CASE Life!WaitOnNothing
    BY <1>5 DEF Life!WaitOnNothing
<1> QED
    BY <1>1, <1>2, <1>3, <1>4, <1>5 DEF Life!ThreadStep

\* The invariant is inductive.
LEMMA LifeNextInv ==
    ASSUME Life!Inv, [Life!Next]_Life!vars
    PROVE  Life!Inv'
<1> USE DEF Life!Inv, Life!TypeOK, Life!AppOwns, Life!ThreadLife, Life!ServerLife, Life!NoCalls
<1>1. CASE Life!Signal
    BY <1>1 DEF Life!Signal
<1>2. CASE Life!CallBegins
    BY <1>2, MaxCallsAssumption DEF Life!CallBegins
<1>3. CASE Life!CallEnds
    BY <1>3, MaxCallsAssumption DEF Life!CallEnds
<1>4. CASE UNCHANGED Life!vars
    BY <1>4 DEF Life!vars
<1> QED
    BY <1>1, <1>2, <1>3, <1>4, LifeMainInv, LifeThreadInv DEF Life!Next

\* The invariant holds in every reachable state.
THEOREM LifeInvariance == LifeSpec => []Life!Inv
<1>1. Life!Init => Life!Inv
    BY LifeInitInv
<1>2. Life!Inv /\ [Life!Next]_Life!vars => Life!Inv'
    BY LifeNextInv
<1> QED
    BY <1>1, <1>2, PTL DEF LifeSpec, Life!Spec

\* Type correctness of start and end.
THEOREM LifeTypeCorrect == LifeSpec => []LifeTypeOK
<1>1. Life!Inv => LifeTypeOK
    BY DEF Life!Inv, LifeTypeOK
<1> QED
    BY <1>1, LifeInvariance, PTL

\* However many calls are under way, none is in a service or a chassis model
\* that has been destroyed, and server_thread never finds its model gone.
THEOREM ModelSafe == LifeSpec => []ModelOutlivesCalls
<1>1. Life!Inv => ModelOutlivesCalls
  <2> SUFFICES ASSUME Life!Inv
               PROVE  Life!ModelOutlivesCalls
    BY DEF ModelOutlivesCalls
  <2> USE DEF Life!Inv, Life!TypeOK, Life!AppOwns, Life!ThreadLife, Life!ServerLife, Life!NoCalls
  <2>1. ASSUME calls > 0
        PROVE  server \in {"serving", "stopping"} /\ calls # 0
    BY <2>1
  <2>2. ASSUME calls > 0
        PROVE  thread \in {"wait", "waiting"}
    BY <2>1, <2>2
  <2> QED
    BY <2>2 DEF Life!ModelOutlivesCalls, Life!ModelAlive, Life!InRun
<1> QED
    BY <1>1, LifeInvariance, PTL
=============================================================================
