-------------------------- MODULE StatsWorkerProofs --------------------------
(***************************************************************************)
(* Proofs about StatsWorker.tla: for any number of requests under way, any *)
(* addresses, limits and bounds, the receiver's limits hold.               *)
(***************************************************************************)
EXTENDS StatsWorker, FiniteSetTheorems, TLAPS

\* Division keeps the order, and a day is no later than its moment.
LEMMA DivisionGrows ==
    ASSUME NEW m \in Nat, NEW n \in Nat, m <= n, NEW k \in Nat \ {0}
    PROVE  /\ m \div k \in Nat /\ n \div k \in Nat
           /\ m \div k <= n \div k
           /\ n \div k <= n
<1>1. m \div k \in Nat /\ n \div k \in Nat
  BY Z3
<1>2. m \div k <= n \div k
  BY Z3
<1>3. n \div k <= n
  BY Z3
<1> QED
  BY <1>1, <1>2, <1>3

-----------------------------------------------------------------------------
(* The inductive invariant: a request comes no later than now, and each    *)
(* limit counts the requests that have passed its check and not been       *)
(* counted yet.                                                            *)
NotLate == \A s \in Slots : request[s].at <= clock
countingOn(d) == {s \in Slots : request[s].step = "counting" /\ day(s) = d}
trying == {s \in Slots : request[s].step = "trying"}
DayRoom == \A d \in Days : pings[d] + Cardinality(countingOn(d)) <= MAX_PER_DAY + Concurrent - 1
RefusalRoom == Cardinality(recent(clock)) + Cardinality(trying) <= PRIVE_MAX_FAILS + Concurrent - 1
AddressRoom ==
    \A a \in Addresses, d \in Days :
        accepted[a][d] <= PER_IP_DAY /\ (d >= today => accepted[a][d] <= ips[a][d])
KeptExact == \A d \in Days : d >= oldestKept(clock) => pings[d] = counted[d]
StatsInv == StatsTypeOK /\ NotLate /\ DayRoom /\ RefusalRoom /\ AddressRoom /\ KeptExact

\* The day of a request is one of those counted, no later than today.
LEMMA DaysOfRequests ==
    ASSUME StatsTypeOK, NotLate, NEW s \in Slots
    PROVE  /\ request[s].at \in 0..MaxClock /\ day(s) \in Days /\ today \in Days
           /\ day(s) <= today
<1>1. /\ request[s].at \in Nat /\ clock \in Nat /\ request[s].at <= clock
      /\ clock <= MaxClock /\ request[s].at \in 0..MaxClock /\ MaxClock \in Nat
  BY StatsWorkerAssumption DEF StatsTypeOK, NotLate
<1>2. /\ request[s].at \div DayTicks \in Nat /\ clock \div DayTicks \in Nat
      /\ request[s].at \div DayTicks <= clock \div DayTicks /\ clock \div DayTicks <= clock
  BY <1>1, DivisionGrows, StatsWorkerAssumption
<1> QED
  BY <1>1, <1>2 DEF day, today, dayOf, Days

\* A free slot is of the type of requests.
LEMMA FreeSlot == Free \in [step : Steps, at : 0..MaxClock, from : Addresses, onDay : BOOLEAN]
<1>1. (CHOOSE a \in Addresses : TRUE) \in Addresses
  BY StatsWorkerAssumption
<1> QED
  BY <1>1, StatsWorkerAssumption DEF Free, Steps

\* A step of a request concerns its slot only, and keeps or renews what it is about.
LEMMA OneSlot ==
    ASSUME StatsTypeOK, NotLate, NEW s \in Slots, StatsStep(s)
    PROVE  /\ request' \in [Slots -> [step : Steps, at : 0..MaxClock, from : Addresses, onDay : BOOLEAN]]
           /\ \A z \in Slots \ {s} : request'[z] = request[z]
           /\ request'[s].at <= clock
<1> DEFINE Request == [step : Steps, at : 0..MaxClock, from : Addresses, onDay : BOOLEAN]
<1>1. request \in [Slots -> Request] /\ clock \in 0..MaxClock /\ MaxClock \in Nat /\ clock \in Nat
  BY StatsWorkerAssumption DEF StatsTypeOK
<1>2. ASSUME NEW step \in Steps, to(s, step)
      PROVE  request' \in [Slots -> Request] /\ request'[s].at = request[s].at
             /\ \A z \in Slots \ {s} : request'[z] = request[z]
  BY <1>1, <1>2 DEF to
<1>3. ASSUME ends(s)
      PROVE  request' \in [Slots -> Request] /\ request'[s].at = 0
             /\ \A z \in Slots \ {s} : request'[z] = request[z]
  <2>1. Free \in Request /\ Free.at = 0
    BY FreeSlot DEF Free
  <2> QED
    BY <1>1, <1>3, <2>1 DEF ends
<1>4. request[s].at <= clock /\ request[s].at \in Nat
  BY <1>1 DEF NotLate
<1>5. CASE Arrive(s)
  <2>1. PICK step \in {"arrived", "asked"}, a \in Addresses :
           request' = [request EXCEPT ![s] = [step |-> step, at |-> clock, from |-> a, onDay |-> TRUE]]
    BY <1>5 DEF Arrive
  <2>2. [step |-> step, at |-> clock, from |-> a, onDay |-> TRUE] \in Request
    BY <1>1, <2>1 DEF Steps
  <2> QED
    BY <1>1, <2>1, <2>2
<1>6. CASE SeeAddress(s)
  <2>1. CASE ends(s)
    BY <2>1, <1>3, <1>4, <1>1
  <2>2. CASE ~ends(s)
    <3>1. request' = [request EXCEPT ![s].step = "seen", ![s].onDay = (day(s) = today)]
      BY <1>6, <2>2 DEF SeeAddress
    <3>2. request' \in [Slots -> Request] /\ request'[s].at = request[s].at
      BY <1>1, <3>1 DEF Steps
    <3>3. \A z \in Slots \ {s} : request'[z] = request[z]
      BY <1>1, <3>1
    <3> QED
      BY <3>2, <3>3, <1>4
  <2> QED
    BY <2>1, <2>2
<1>7. CASE CheckTotal(s) \/ CountPing(s) \/ CheckRefusals(s)
  <2>1. ends(s) \/ to(s, "counting") \/ to(s, "cleaning") \/ to(s, "trying")
    BY <1>7 DEF CheckTotal, CountPing, CheckRefusals
  <2> QED
    BY <2>1, <1>1, <1>2, <1>3, <1>4 DEF Steps
<1>8. CASE Clean(s) \/ NotRefused(s) \/ Refused(s) \/ RequestDies(s)
  <2>1. ends(s)
    BY <1>8 DEF Clean, NotRefused, Refused, RequestDies
  <2> QED
    BY <2>1, <1>1, <1>3, <1>4
<1> QED
  BY <1>5, <1>6, <1>7, <1>8 DEF StatsStep

\* The slots that count, or try, are a finite set, of Concurrent slots at most.
LEMMA FewSlots ==
    /\ Concurrent \in Nat \ {0}
    /\ \A T \in SUBSET Slots : IsFiniteSet(T) /\ Cardinality(T) \in Nat /\ Cardinality(T) <= Concurrent
<1>1. Concurrent \in Nat /\ Concurrent # 0
  BY FS_CardinalityType, FS_EmptySet, StatsWorkerAssumption DEF Concurrent
<1>2. ASSUME NEW T \in SUBSET Slots
      PROVE  IsFiniteSet(T) /\ Cardinality(T) \in Nat /\ Cardinality(T) <= Concurrent
  <2>1. IsFiniteSet(T) /\ Cardinality(T) <= Cardinality(Slots)
    BY FS_Subset, StatsWorkerAssumption
  <2> QED
    BY <2>1, FS_CardinalityType DEF Concurrent
<1> QED
  BY <1>1, <1>2

\* What a step of one slot does to a set of slots: it may join it or leave it.
LEMMA JoinsOrLeaves ==
    ASSUME NEW T \in SUBSET Slots, NEW U \in SUBSET Slots, NEW s \in Slots, U \ {s} = T \ {s}
    PROVE  /\ s \notin U => Cardinality(U) <= Cardinality(T)
           /\ s \notin U /\ s \in T => Cardinality(U) = Cardinality(T) - 1
           /\ s \in T => Cardinality(U) <= Cardinality(T)
<1>1. IsFiniteSet(T) /\ IsFiniteSet(U) /\ Cardinality(T) \in Nat /\ Cardinality(U) \in Nat
  BY FewSlots
<1>2. CASE s \notin U
  <2>1. U = T \ {s}
    BY <1>2
  <2> QED
    BY <2>1, <1>1, <1>2, FS_RemoveElement
<1>3. CASE s \in U
  <2>1. s \in T => U = T
    BY <1>3
  <2> QED
    BY <2>1, <1>1, <1>3
<1> QED
  BY <1>2, <1>3

-----------------------------------------------------------------------------
\* The refusals of a window are finitely many, and those of a later one are among them.
LEMMA RecentRefusals ==
    ASSUME StatsTypeOK, NEW t \in 0..MaxClock, NEW u \in 0..MaxClock, t <= u
    PROVE  /\ recent(t) \subseteq fails /\ recent(u) \subseteq recent(t)
           /\ IsFiniteSet(recent(t)) /\ Cardinality(recent(t)) \in Nat
           /\ Cardinality(recent(u)) \in Nat /\ Cardinality(recent(u)) <= Cardinality(recent(t))
<1>1. recent(t) \subseteq fails /\ IsFiniteSet(fails) /\ \A f \in fails : f.at \in Nat
  BY StatsWorkerAssumption DEF recent, StatsTypeOK
<1>2. recent(u) \subseteq recent(t)
  BY <1>1, StatsWorkerAssumption DEF recent
<1>3. IsFiniteSet(recent(t)) /\ IsFiniteSet(recent(u))
  BY <1>1, <1>2, FS_Subset
<1> QED
  BY <1>1, <1>2, <1>3, FS_Subset, FS_CardinalityType

LEMMA InitInv == StatsInit => StatsInv
<1> SUFFICES ASSUME StatsInit PROVE StatsInv
  OBVIOUS
<1>1. StatsTypeOK
  <2>1. Free \in [step : Steps, at : 0..MaxClock, from : Addresses, onDay : BOOLEAN]
    BY FreeSlot
  <2> QED
    BY <2>1, FS_EmptySet, StatsWorkerAssumption DEF StatsInit, StatsTypeOK
<1>2. NotLate
  BY DEF StatsInit, NotLate, Free
<1>3. trying = {} /\ \A d \in Days : countingOn(d) = {}
  BY DEF StatsInit, trying, countingOn, Free
<1>4. recent(clock) = {}
  BY DEF StatsInit, recent
<1>5. DayRoom /\ RefusalRoom
  BY <1>3, <1>4, FS_EmptySet, FewSlots, StatsWorkerAssumption DEF StatsInit, DayRoom, RefusalRoom
<1>6. AddressRoom /\ KeptExact
  BY StatsWorkerAssumption DEF StatsInit, AddressRoom, KeptExact
<1> QED
  BY <1>1, <1>2, <1>5, <1>6 DEF StatsInv

\* A step of a request keeps the types.
LEMMA RequestTypes ==
    ASSUME StatsTypeOK, NotLate, NEW s \in Slots, StatsStep(s)
    PROVE  StatsTypeOK' /\ NotLate'
<1> USE DEF StatsTypeOK
<1>1. request' \in [Slots -> [step : Steps, at : 0..MaxClock, from : Addresses, onDay : BOOLEAN]]
  BY OneSlot
<1>2. clock' = clock
  BY DEF StatsStep, Arrive, SeeAddress, CheckTotal, CountPing, Clean, CheckRefusals, NotRefused, Refused, RequestDies
<1>3. NotLate'
  BY <1>2, OneSlot DEF NotLate
<1>4. request[s].from \in Addresses /\ day(s) \in Days /\ request[s].at \in 0..MaxClock
  BY DaysOfRequests
<1>5. CASE Arrive(s)
  BY <1>1, <1>3, <1>5, StatsWorkerAssumption DEF Arrive
<1>6. CASE SeeAddress(s)
  <2> DEFINE a == request[s].from
             d == day(s)
  <2>1. ips' = [ips EXCEPT ![a][d] = @ + 1] /\ accepted' \in {accepted, [accepted EXCEPT ![a][d] = @ + 1]}
        /\ UNCHANGED <<clock, pings, fails, refusals, counted, requests>>
    BY <1>6 DEF SeeAddress
  <2>2. ips[a] \in [Days -> Nat] /\ accepted[a] \in [Days -> Nat]
    BY <1>4
  <2>3. ips' \in [Addresses -> [Days -> Nat]] /\ accepted' \in [Addresses -> [Days -> Nat]]
    <3>1. ips' \in [Addresses -> [Days -> Nat]]
      BY <2>1, <2>2, <1>4
    <3>2. CASE accepted' = accepted
      BY <3>1, <3>2
    <3>3. CASE accepted' = [accepted EXCEPT ![a][d] = @ + 1]
      BY <3>1, <3>3, <2>2, <1>4
    <3> QED
      BY <2>1, <3>2, <3>3
  <2> QED
    BY <1>1, <1>3, <2>1, <2>3
<1>7. CASE CountPing(s)
  BY <1>1, <1>3, <1>4, <1>7 DEF CountPing
<1>8. CASE Clean(s)
  <2>1. /\ ips' = [x \in Addresses |-> [d \in Days |-> IF d < day(s) THEN 0 ELSE ips[x][d]]]
        /\ pings' = [d \in Days |-> IF d < oldestKept(request[s].at) THEN 0 ELSE pings[d]]
        /\ UNCHANGED <<clock, fails, refusals, accepted, counted, requests>>
    BY <1>8 DEF Clean
  <2>2. ips' \in [Addresses -> [Days -> Nat]] /\ pings' \in [Days -> Nat]
    BY <2>1
  <2> QED
    BY <1>1, <1>3, <2>1, <2>2
<1>9. CASE Refused(s)
  <2> DEFINE row == [at |-> request[s].at, n |-> refusals']
  <2>1. refusals' = refusals + 1 /\ fails' = recent(request[s].at) \cup {row}
        /\ UNCHANGED <<clock, ips, pings, accepted, counted, requests>>
    BY <1>9 DEF Refused
  <2>2. recent(request[s].at) \subseteq fails /\ IsFiniteSet(recent(request[s].at))
    BY <1>4, RecentRefusals
  <2>3. IsFiniteSet(fails')
    BY <2>1, <2>2, FS_AddElement
  <2>4. fails' \subseteq [at : 0..MaxClock, n : 1..refusals'] /\ refusals' \in Nat
    BY <2>1, <2>2, <1>4
  <2> QED
    BY <1>1, <1>3, <2>1, <2>3, <2>4
<1>10. CASE CheckTotal(s) \/ CheckRefusals(s) \/ NotRefused(s) \/ RequestDies(s)
  BY <1>1, <1>3, <1>10 DEF CheckTotal, CheckRefusals, NotRefused, RequestDies
<1> QED
  BY <1>5, <1>6, <1>7, <1>8, <1>9, <1>10 DEF StatsStep

\* Where a step of a request leads.
LEMMA StepsOfRequests ==
    ASSUME StatsTypeOK, NotLate, NEW s \in Slots
    PROVE  /\ Arrive(s) => request'[s].step \in {"arrived", "asked"}
           /\ SeeAddress(s) => request'[s].step \in {"free", "seen"}
           /\ CheckTotal(s) => \/ request'[s].step = "free"
                               \/ /\ request'[s].step = "counting" /\ day(s)' = day(s)
                                  /\ pings[day(s)] < MAX_PER_DAY
           /\ CountPing(s) => request[s].step = "counting" /\ request'[s].step = "cleaning"
           /\ CheckRefusals(s) => \/ request'[s].step = "free"
                                  \/ /\ request'[s].step = "trying"
                                     /\ Cardinality(recent(request[s].at)) < PRIVE_MAX_FAILS
           /\ Refused(s) => request[s].step = "trying"
           /\ Clean(s) \/ NotRefused(s) \/ Refused(s) \/ RequestDies(s) => request'[s].step = "free"
<1>1. request \in [Slots -> [step : Steps, at : 0..MaxClock, from : Addresses, onDay : BOOLEAN]]
  BY DEF StatsTypeOK
<1>2. ends(s) => request'[s].step = "free"
  BY <1>1 DEF ends, Free
<1>3. \A step \in Steps : to(s, step) => request'[s].step = step /\ request'[s].at = request[s].at
  BY <1>1 DEF to
<1>4. Arrive(s) => request'[s].step \in {"arrived", "asked"}
  BY <1>1 DEF Arrive
<1>5. SeeAddress(s) => request'[s].step \in {"free", "seen"}
  <2>1. SeeAddress(s) => ends(s) \/ request' = [request EXCEPT ![s].step = "seen", ![s].onDay = (day(s) = today)]
    BY DEF SeeAddress
  <2> QED
    BY <2>1, <1>1, <1>2
<1>6. ASSUME CheckTotal(s)
      PROVE  \/ request'[s].step = "free"
             \/ request'[s].step = "counting" /\ day(s)' = day(s) /\ pings[day(s)] < MAX_PER_DAY
  <2>1. ends(s) \/ (to(s, "counting") /\ ~(pings[day(s)] >= MAX_PER_DAY))
    BY <1>6 DEF CheckTotal
  <2>2. day(s) \in Days /\ pings[day(s)] \in Nat
    BY DaysOfRequests DEF StatsTypeOK
  <2>3. to(s, "counting") => request'[s].step = "counting" /\ day(s)' = day(s)
    BY <1>3 DEF Steps, day, dayOf
  <2> QED
    BY <2>1, <2>2, <2>3, <1>2, StatsWorkerAssumption
<1>7. CountPing(s) => request[s].step = "counting" /\ request'[s].step = "cleaning"
  BY <1>3 DEF CountPing, Steps
<1>8. ASSUME CheckRefusals(s)
      PROVE  \/ request'[s].step = "free"
             \/ request'[s].step = "trying" /\ Cardinality(recent(request[s].at)) < PRIVE_MAX_FAILS
  <2>1. ends(s) \/ (to(s, "trying") /\ ~(Cardinality(recent(request[s].at)) >= PRIVE_MAX_FAILS))
    BY <1>8 DEF CheckRefusals
  <2>2. Cardinality(recent(request[s].at)) \in Nat
    BY DaysOfRequests, RecentRefusals
  <2>3. to(s, "trying") => request'[s].step = "trying"
    BY <1>3 DEF Steps
  <2> QED
    BY <2>1, <2>2, <2>3, <1>2, StatsWorkerAssumption
<1>9. Refused(s) => request[s].step = "trying"
  BY DEF Refused
<1>10. Clean(s) \/ NotRefused(s) \/ Refused(s) \/ RequestDies(s) => request'[s].step = "free"
  BY <1>2 DEF Clean, NotRefused, Refused, RequestDies
<1> QED
  BY <1>4, <1>5, <1>6, <1>7, <1>8, <1>9, <1>10

-----------------------------------------------------------------------------
\* A day counts no more than its limit and the requests about to count.
LEMMA DayRoomKept ==
    ASSUME StatsInv, NEW s \in Slots, StatsStep(s), NEW d \in Days
    PROVE  pings'[d] + Cardinality(countingOn(d)') <= MAX_PER_DAY + Concurrent - 1
<1> DEFINE T == countingOn(d)
           U == countingOn(d)'
<1>1. StatsTypeOK /\ NotLate /\ pings[d] \in Nat /\ day(s) \in Days
      /\ pings[d] + Cardinality(T) <= MAX_PER_DAY + Concurrent - 1
  BY DaysOfRequests DEF StatsInv, DayRoom, StatsTypeOK
<1>2. T \subseteq Slots /\ U \subseteq Slots /\ U \ {s} = T \ {s}
  <2>1. \A z \in Slots \ {s} : request'[z] = request[z]
    BY <1>1, OneSlot
  <2> QED
    BY <2>1 DEF countingOn, day, dayOf
<1>3. /\ Cardinality(T) \in Nat /\ Cardinality(U) \in Nat /\ Cardinality(U) <= Concurrent
      /\ Concurrent \in Nat \ {0} /\ MAX_PER_DAY \in Nat \ {0}
  BY <1>2, FewSlots, StatsWorkerAssumption
<1>4. s \notin U => Cardinality(U) <= Cardinality(T)
  BY <1>2, JoinsOrLeaves
<1> HIDE DEF T, U
<1>5. ASSUME s \notin U, pings'[d] = pings[d] \/ pings'[d] = 0
      PROVE  pings'[d] + Cardinality(U) <= MAX_PER_DAY + Concurrent - 1
  BY <1>1, <1>3, <1>4, <1>5
<1>6. request'[s].step # "counting" => s \notin U
  BY DEF U, countingOn
<1>7. CASE Arrive(s) \/ SeeAddress(s) \/ CheckRefusals(s) \/ NotRefused(s) \/ Refused(s) \/ RequestDies(s)
  <2>1. pings' = pings
    BY <1>7 DEF Arrive, SeeAddress, CheckRefusals, NotRefused, Refused, RequestDies
  <2>2. request'[s].step # "counting"
    BY <1>1, <1>7, StepsOfRequests
  <2> QED
    BY <2>1, <2>2, <1>5, <1>6 DEF U
<1>8. CASE CheckTotal(s)
  <2>1. pings' = pings
    BY <1>8 DEF CheckTotal
  <2>2. CASE request'[s].step = "free"
    BY <2>1, <2>2, <1>5, <1>6 DEF U
  <2>3. CASE day(s)' = day(s) /\ pings[day(s)] < MAX_PER_DAY
    <3>1. CASE d = day(s)
      BY <2>1, <2>3, <3>1, <1>1, <1>3 DEF U
    <3>2. CASE d # day(s)
      <4>1. s \notin U
        BY <2>3, <3>2 DEF U, countingOn
      <4> QED
        BY <4>1, <2>1, <1>5 DEF U
    <3> QED
      BY <3>1, <3>2
  <2> QED
    BY <1>1, <1>8, <2>2, <2>3, StepsOfRequests
<1>9. CASE CountPing(s)
  <2>1. request[s].step = "counting" /\ request'[s].step = "cleaning"
    BY <1>1, <1>9, StepsOfRequests
  <2>2. pings' = [pings EXCEPT ![day(s)] = @ + 1]
    BY <1>9 DEF CountPing
  <2>3. CASE d = day(s)
    <3>1. pings'[d] = pings[d] + 1
      BY <2>2, <2>3, <1>1 DEF StatsTypeOK
    <3>2. s \in T /\ s \notin U
      BY <2>1, <2>3 DEF T, U, countingOn
    <3>3. Cardinality(U) = Cardinality(T) - 1
      BY <3>2, <1>2, JoinsOrLeaves
    <3> QED
      BY <3>1, <3>3, <1>1, <1>3 DEF U
  <2>4. CASE d # day(s)
    BY <2>1, <2>2, <2>4, <1>1, <1>5, <1>6 DEF U, StatsTypeOK
  <2> QED
    BY <2>3, <2>4
<1>10. CASE Clean(s)
  <2>1. pings'[d] \in {0, pings[d]}
    BY <1>10 DEF Clean
  <2>2. request'[s].step # "counting"
    BY <1>1, <1>10, StepsOfRequests
  <2> QED
    BY <2>1, <2>2, <1>5, <1>6 DEF U
<1> QED
  BY <1>7, <1>8, <1>9, <1>10 DEF StatsStep

\* The refusals of the window and the passwords about to be tried keep to their limit.
LEMMA RefusalRoomKept ==
    ASSUME StatsInv, NEW s \in Slots, StatsStep(s)
    PROVE  RefusalRoom'
<1> DEFINE T == trying
           U == trying'
           now == recent(clock)
<1>1. /\ StatsTypeOK /\ NotLate /\ clock \in 0..MaxClock /\ request[s].at \in 0..MaxClock
      /\ request[s].at <= clock
      /\ Cardinality(now) + Cardinality(T) <= PRIVE_MAX_FAILS + Concurrent - 1
  BY DaysOfRequests DEF StatsInv, NotLate, RefusalRoom, StatsTypeOK
<1>2. T \subseteq Slots /\ U \subseteq Slots /\ U \ {s} = T \ {s}
  <2>1. \A z \in Slots \ {s} : request'[z] = request[z]
    BY <1>1, OneSlot
  <2> QED
    BY <2>1 DEF trying
<1>3. /\ Cardinality(T) \in Nat /\ Cardinality(U) \in Nat /\ Cardinality(U) <= Concurrent
      /\ Concurrent \in Nat \ {0} /\ PRIVE_MAX_FAILS \in Nat \ {0}
  BY <1>2, FewSlots, StatsWorkerAssumption
<1>4. clock' = clock
  BY DEF StatsStep, Arrive, SeeAddress, CheckTotal, CountPing, Clean, CheckRefusals, NotRefused, Refused, RequestDies
<1>5. IsFiniteSet(now) /\ Cardinality(now) \in Nat
      /\ Cardinality(now) <= Cardinality(recent(request[s].at))
      /\ Cardinality(recent(request[s].at)) \in Nat
  BY <1>1, RecentRefusals
<1>6. request'[s].step # "trying" => s \notin U
  BY DEF trying
<1>7. CASE fails' = fails
  <2>1. recent(clock)' = now
    BY <1>4, <1>7 DEF recent
  <2>2. \/ request'[s].step # "trying"
        \/ request'[s].step = "trying" /\ Cardinality(recent(request[s].at)) < PRIVE_MAX_FAILS
    BY <1>1, StepsOfRequests DEF StatsStep
  <2>3. CASE request'[s].step # "trying"
    <3>1. Cardinality(U) <= Cardinality(T)
      BY <2>3, <1>2, <1>6, JoinsOrLeaves
    <3> HIDE DEF T, U, now
    <3>2. Cardinality(now) + Cardinality(U) <= PRIVE_MAX_FAILS + Concurrent - 1
      BY <3>1, <1>1, <1>3, <1>5
    <3> QED
      BY <3>2, <2>1 DEF RefusalRoom, U, Concurrent
  <2>4. CASE Cardinality(recent(request[s].at)) < PRIVE_MAX_FAILS
    <3> HIDE DEF T, U, now
    <3>1. Cardinality(now) + Cardinality(U) <= PRIVE_MAX_FAILS + Concurrent - 1
      BY <2>4, <1>3, <1>5
    <3> QED
      BY <3>1, <2>1 DEF RefusalRoom, U, Concurrent
  <2> QED
    BY <2>2, <2>3, <2>4
<1>8. CASE Refused(s)
  <2> DEFINE row == [at |-> request[s].at, n |-> refusals']
  <2>1. fails' = recent(request[s].at) \cup {row}
    BY <1>8 DEF Refused
  <2>2. recent(clock)' \subseteq now \cup {row}
    BY <2>1, <1>4 DEF recent
  <2>3. IsFiniteSet(now \cup {row}) /\ Cardinality(now \cup {row}) <= Cardinality(now) + 1
        /\ Cardinality(now \cup {row}) \in Nat
    BY <1>5, FS_AddElement, FS_CardinalityType
  <2>4. Cardinality(recent(clock)') <= Cardinality(now) + 1 /\ Cardinality(recent(clock)') \in Nat
    BY <2>2, <2>3, <1>5, FS_Subset, FS_CardinalityType
  <2>5. Cardinality(U) = Cardinality(T) - 1
    <3>1. s \in T /\ s \notin U
      BY <1>1, <1>8, <1>6, StepsOfRequests DEF trying
    <3> QED
      BY <3>1, <1>2, JoinsOrLeaves
  <2> HIDE DEF T, U, now
  <2>6. Cardinality(recent(clock)') + Cardinality(U) <= PRIVE_MAX_FAILS + Concurrent - 1
    BY <2>4, <2>5, <1>1, <1>3, <1>5
  <2> QED
    BY <2>6 DEF RefusalRoom, U, Concurrent
<1> QED
  BY <1>7, <1>8 DEF StatsStep, Arrive, SeeAddress, CheckTotal, CountPing, Clean, CheckRefusals, NotRefused, RequestDies

\* What an address was granted on a day is what its counter says, until the day is over.
LEMMA AddressRoomKept ==
    ASSUME StatsInv, NEW s \in Slots, StatsStep(s)
    PROVE  AddressRoom'
<1>1. /\ StatsTypeOK /\ NotLate /\ AddressRoom /\ day(s) \in Days /\ today \in Days /\ day(s) <= today
      /\ request[s].from \in Addresses
  BY DaysOfRequests DEF StatsInv, StatsTypeOK
<1>2. clock' = clock /\ today' = today
  BY DEF StatsStep, Arrive, SeeAddress, CheckTotal, CountPing, Clean, CheckRefusals, NotRefused, Refused, RequestDies, today, dayOf
<1> SUFFICES ASSUME NEW a \in Addresses, NEW d \in Days
             PROVE  accepted'[a][d] <= PER_IP_DAY /\ (d >= today => accepted'[a][d] <= ips'[a][d])
  BY <1>2 DEF AddressRoom
<1>3. /\ accepted[a][d] \in Nat /\ ips[a][d] \in Nat /\ accepted[a][d] <= PER_IP_DAY
      /\ d >= today => accepted[a][d] <= ips[a][d]
      /\ PER_IP_DAY \in Nat /\ ips[a] \in [Days -> Nat] /\ accepted[a] \in [Days -> Nat]
  BY <1>1, StatsWorkerAssumption DEF StatsTypeOK, AddressRoom
<1>4. CASE SeeAddress(s)
  <2> DEFINE b == request[s].from
  <2>1. ips' = [ips EXCEPT ![b][day(s)] = @ + 1]
    BY <1>4 DEF SeeAddress
  <2>2. \/ accepted' = accepted
        \/ /\ accepted' = [accepted EXCEPT ![b][day(s)] = @ + 1] /\ day(s) = today
           /\ ~(ips[b][day(s)] + 1 > PER_IP_DAY)
    BY <1>4 DEF SeeAddress
  <2>3. ips'[a][d] = IF a = b /\ d = day(s) THEN ips[a][d] + 1 ELSE ips[a][d]
    BY <2>1, <1>1, <1>3 DEF StatsTypeOK
  <2>4. CASE accepted' = accepted
    BY <2>3, <2>4, <1>3
  <2>5. CASE accepted' # accepted
    <3>1. /\ accepted'[a][d] = IF a = b /\ d = day(s) THEN accepted[a][d] + 1 ELSE accepted[a][d]
          /\ day(s) = today /\ ~(ips[b][day(s)] + 1 > PER_IP_DAY)
      BY <2>2, <2>5, <1>1, <1>3 DEF StatsTypeOK
    <3>2. today >= today
      BY <1>1 DEF Days
    <3> QED
      BY <3>1, <3>2, <2>3, <1>3
  <2> QED
    BY <2>4, <2>5
<1>5. CASE Clean(s)
  <2>1. accepted' = accepted /\ ips'[a][d] = IF d < day(s) THEN 0 ELSE ips[a][d]
    BY <1>5 DEF Clean
  <2>2. d \in Int /\ day(s) \in Int /\ today \in Int
    BY <1>1, StatsWorkerAssumption DEF Days
  <2> QED
    BY <2>1, <2>2, <1>1, <1>3
<1>6. CASE accepted' = accepted /\ ips' = ips
  BY <1>3, <1>6
<1> QED
  BY <1>4, <1>5, <1>6 DEF StatsStep, Arrive, CheckTotal, CountPing, CheckRefusals, NotRefused, Refused, RequestDies

\* No count of a day that is kept is lost.
LEMMA KeptExactKept ==
    ASSUME StatsInv, NEW s \in Slots, StatsStep(s)
    PROVE  KeptExact'
<1>1. /\ StatsTypeOK /\ NotLate /\ KeptExact /\ day(s) \in Days /\ today \in Days /\ day(s) <= today
  BY DaysOfRequests DEF StatsInv
<1>2. clock' = clock
  BY DEF StatsStep, Arrive, SeeAddress, CheckTotal, CountPing, Clean, CheckRefusals, NotRefused, Refused, RequestDies
<1>3. oldestKept(clock)' = oldestKept(clock)
  BY <1>2 DEF oldestKept, dayOf
<1> SUFFICES ASSUME NEW d \in Days, d >= oldestKept(clock) PROVE pings'[d] = counted'[d]
  BY <1>3 DEF KeptExact
<1>4. pings[d] = counted[d]
  BY <1>1 DEF KeptExact
<1>5. CASE CountPing(s)
  BY <1>1, <1>4, <1>5 DEF CountPing, StatsTypeOK
<1>6. CASE Clean(s)
  <2>1. counted' = counted /\ pings'[d] = IF d < oldestKept(request[s].at) THEN 0 ELSE pings[d]
    BY <1>6 DEF Clean
  <2>2. oldestKept(request[s].at) = day(s) - KEEP_DAYS /\ oldestKept(clock) = today - KEEP_DAYS
    BY DEF oldestKept, day, today
  <2>3. ~(d < oldestKept(request[s].at))
    BY <2>2, <1>1, StatsWorkerAssumption DEF Days
  <2> QED
    BY <2>1, <2>3, <1>4
<1>7. CASE pings' = pings /\ counted' = counted
  BY <1>4, <1>7
<1> QED
  BY <1>5, <1>6, <1>7 DEF StatsStep, Arrive, SeeAddress, CheckTotal, CheckRefusals, NotRefused, Refused, RequestDies

\* The clock keeps the invariant: windows and days that are over only shrink.
LEMMA TickKeeps == StatsInv /\ ClockTicks => StatsInv'
<1> SUFFICES ASSUME StatsInv, ClockTicks PROVE StatsInv'
  OBVIOUS
<1>1. /\ clock' = clock + 1 /\ clock < MaxClock /\ StatsTypeOK /\ NotLate
      /\ UNCHANGED <<request, ips, pings, fails, refusals, accepted, counted, requests>>
  BY DEF ClockTicks, StatsInv
<1>2. clock \in 0..MaxClock /\ clock' \in 0..MaxClock /\ clock <= clock' /\ clock \in Nat /\ clock' \in Nat
  BY <1>1, StatsWorkerAssumption DEF StatsTypeOK
<1>3. StatsTypeOK'
  BY <1>1, <1>2 DEF StatsTypeOK
<1>4. NotLate'
  BY <1>1, <1>2 DEF NotLate, StatsTypeOK
<1>5. DayRoom'
  BY <1>1 DEF StatsInv, DayRoom, countingOn, day, dayOf, Concurrent
<1>6. RefusalRoom'
  <2>1. trying' = trying /\ recent(clock)' = recent(clock')
    BY <1>1 DEF trying, recent
  <2>2. Cardinality(recent(clock')) \in Nat /\ Cardinality(recent(clock)) \in Nat
        /\ Cardinality(recent(clock')) <= Cardinality(recent(clock))
    BY <1>1, <1>2, RecentRefusals
  <2>3. Cardinality(trying) \in Nat /\ Concurrent \in Nat /\ PRIVE_MAX_FAILS \in Nat
    BY FewSlots, StatsWorkerAssumption DEF trying
  <2>4. Cardinality(recent(clock')) + Cardinality(trying) <= PRIVE_MAX_FAILS + Concurrent - 1
    BY <2>2, <2>3 DEF StatsInv, RefusalRoom
  <2> QED
    BY <2>1, <2>4 DEF RefusalRoom, Concurrent
<1>7. today \in Nat /\ today' \in Nat /\ today <= today'
  BY <1>2, DivisionGrows, StatsWorkerAssumption DEF today, dayOf
<1>8. AddressRoom'
  BY <1>1, <1>7 DEF StatsInv, AddressRoom, Days
<1>9. KeptExact'
  <2>1. oldestKept(clock) = today - KEEP_DAYS /\ oldestKept(clock)' = today' - KEEP_DAYS
    BY DEF oldestKept, today
  <2> QED
    BY <1>1, <1>7, <2>1, StatsWorkerAssumption DEF StatsInv, KeptExact, Days
<1> QED
  BY <1>3, <1>4, <1>5, <1>6, <1>8, <1>9 DEF StatsInv

LEMMA StepInv == StatsInv /\ [StatsNext]_statsVars => StatsInv'
<1> SUFFICES ASSUME StatsInv, [StatsNext]_statsVars PROVE StatsInv'
  OBVIOUS
<1>1. CASE ClockTicks
  BY <1>1, TickKeeps
<1>2. ASSUME NEW s \in Slots, StatsStep(s) PROVE StatsInv'
  <2>1. StatsTypeOK' /\ NotLate'
    BY <1>2, RequestTypes DEF StatsInv
  <2>2. \A d \in Days : pings'[d] + Cardinality(countingOn(d)') <= MAX_PER_DAY + Concurrent - 1
    BY <1>2, DayRoomKept
  <2>3. DayRoom'
    BY <2>2 DEF DayRoom, Concurrent
  <2>4. RefusalRoom' /\ AddressRoom' /\ KeptExact'
    BY <1>2, RefusalRoomKept, AddressRoomKept, KeptExactKept
  <2> QED
    BY <2>1, <2>3, <2>4 DEF StatsInv
<1>3. CASE UNCHANGED statsVars
  BY <1>3 DEF statsVars, StatsInv, StatsTypeOK, NotLate, DayRoom, countingOn, day, dayOf, Concurrent,
              RefusalRoom, recent, trying, AddressRoom, today, KeptExact, oldestKept
<1> QED
  BY <1>1, <1>2, <1>3 DEF StatsNext

\* The invariant holds what the receiver's limits say.
LEMMA InvLimits == StatsInv => StatsLimits
<1> SUFFICES ASSUME StatsInv PROVE StatsLimits
  OBVIOUS
<1>1. DayBound
  <2> SUFFICES ASSUME NEW d \in Days PROVE pings[d] <= MAX_PER_DAY + Concurrent - 1
    BY DEF DayBound
  <2>1. Cardinality(countingOn(d)) \in Nat /\ Concurrent \in Nat
    BY FewSlots DEF countingOn
  <2>2. pings[d] + Cardinality(countingOn(d)) <= MAX_PER_DAY + Concurrent - 1 /\ pings[d] \in Nat
    BY DEF StatsInv, DayRoom, StatsTypeOK
  <2> QED
    BY <2>1, <2>2, StatsWorkerAssumption
<1>2. RefusalBound
  <2>1. Cardinality(trying) \in Nat /\ Concurrent \in Nat
    BY FewSlots DEF trying
  <2>2. Cardinality(recent(clock)) \in Nat
    BY RecentRefusals, StatsWorkerAssumption DEF StatsInv, StatsTypeOK
  <2>3. Cardinality(recent(clock)) + Cardinality(trying) <= PRIVE_MAX_FAILS + Concurrent - 1
    BY DEF StatsInv, RefusalRoom
  <2> QED
    BY <2>1, <2>2, <2>3, StatsWorkerAssumption DEF RefusalBound
<1> QED
  BY <1>1, <1>2 DEF StatsInv, AddressRoom, KeptExact, StatsLimits

(* The variables keep their types, whatever the order of requests.         *)
THEOREM StatsTypeCorrect == StatsSpec => []StatsTypeOK
<1>1. StatsInv => StatsTypeOK
  BY DEF StatsInv
<1> QED
  BY InitInv, StepInv, <1>1, PTL DEF StatsSpec

(* However many requests run at the same time, and whenever midnight or the*)
(* end of a window falls between two of their steps: a day counts at most  *)
(* MAX_PER_DAY pings and one per other request under way, the window has at*)
(* most PRIVE_MAX_FAILS refusals and one per other request under way, an   *)
(* address gets PER_IP_DAY pings, and no count of a kept day is lost.      *)
THEOREM LimitsHold == StatsSpec => []StatsLimits
  BY InitInv, StepInv, InvLimits, PTL DEF StatsSpec
=============================================================================
