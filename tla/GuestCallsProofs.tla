-------------------------- MODULE GuestCallsProofs --------------------------
(***************************************************************************)
(* Whatever the tables of handlers hold, for every set of times and        *)
(* durations and every number of thread ids: what the guest is told of the *)
(* time and of its threads is consistent.  And so is what it is told of    *)
(* the properties that those calls read, in the second part.               *)
(***************************************************************************)
EXTENDS GuestCalls, DeviceProperties, SequenceTheorems, WellFoundedInduction, TLAPS

LEMMA MaxWithZero ==
    ASSUME NEW d \in Int
    PROVE  Max({d, 0}) \in Nat /\ Max({d, 0}) >= d
<1>1. \E x \in {d, 0} : \A y \in {d, 0} : x >= y
  OBVIOUS
<1>2. Max({d, 0}) \in {d, 0} /\ \A y \in {d, 0} : Max({d, 0}) >= y
  BY <1>1 DEF Max
<1>. QED BY <1>2

LEMMA MaxOfTwo ==
    ASSUME NEW a \in Int, NEW b \in Int
    PROVE  Max({a, b}) \in {a, b} /\ Max({a, b}) >= a
<1>1. \E x \in {a, b} : \A y \in {a, b} : x >= y
  OBVIOUS
<1>2. Max({a, b}) \in {a, b} /\ \A y \in {a, b} : Max({a, b}) >= y
  BY <1>1 DEF Max
<1>. QED BY <1>2

(* A number in whole units: less than a unit below, and never below that of  *)
(* a smaller number.                                                         *)
LEMMA WholeUnits ==
    ASSUME NEW m \in Nat \ {0}, NEW a \in Nat, NEW b \in Nat, a <= b
    PROVE  /\ (b \div m) * m \in Nat /\ (b \div m) * m <= b /\ b < (b \div m) * m + m
           /\ (a \div m) * m <= (b \div m) * m
<1>0. a \div m \in Nat /\ b \div m \in Nat /\ a % m \in 0 .. m - 1 /\ b % m \in 0 .. m - 1
  OBVIOUS
<1>1. PICK p \in Nat : p = a \div m
  BY <1>0
<1>2. PICK q \in Nat : q = b \div m
  BY <1>0
<1>3. a = m * p + (a % m) /\ b = m * q + (b % m)
  BY <1>1, <1>2
<1>a. PICK r \in 0 .. m - 1 : r = a % m
  BY <1>0
<1>b. PICK t \in 0 .. m - 1 : t = b % m
  BY <1>0
<1>4. a = m * p + r /\ b = m * q + t
  BY <1>3, <1>a, <1>b
<1>5. m * p \in Nat /\ m * q \in Nat /\ m * p = p * m /\ m * q = q * m
  OBVIOUS
<1>6. p <= q
  <2> SUFFICES ASSUME q < p PROVE FALSE
    OBVIOUS
  <2>1. q + 1 <= p
    OBVIOUS
  <2>2. m * (q + 1) <= m * p
    BY ONLY <2>1, m \in Nat \ {0}, p \in Nat, q \in Nat
  <2>3. m * (q + 1) = m * q + m
    OBVIOUS
  <2>. QED BY <1>4, <1>5, <2>2, <2>3
<1>7. m * p <= m * q
  BY ONLY <1>6, m \in Nat \ {0}, p \in Nat, q \in Nat
<1>. QED BY <1>1, <1>2, <1>4, <1>5, <1>7

(* Numbers that are cut to the same bits are equal or far apart.             *)
LEMMA CutApart ==
    ASSUME NEW m \in Nat \ {0}, NEW a \in Nat, NEW b \in Nat, a % m = b % m, a < b
    PROVE  b - a >= m
<1>0. a \div m \in Nat /\ b \div m \in Nat /\ a % m \in Nat
  OBVIOUS
<1>1. PICK p \in Nat : p = a \div m
  BY <1>0
<1>2. PICK q \in Nat : q = b \div m
  BY <1>0
<1>3. PICK r \in Nat : r = a % m
  BY <1>0
<1>4. m * q - m * p = b - a
  <2>1. a = m * p + r
    BY <1>1, <1>3
  <2>2. b = m * q + r
    BY <1>2, <1>3
  <2>. QED BY <2>1, <2>2
<1>5. q > p
  <2> SUFFICES ASSUME q <= p PROVE FALSE
    BY <1>3
  <2>1. m * q <= m * p
    BY <1>3
  <2>. QED BY <2>1, <1>4, <1>3
<1>6. m * q >= m * p + m
  <2>1. q >= p + 1
    BY <1>3, <1>5
  <2>2. m * q >= m * (p + 1)
    BY <2>1, <1>3
  <2>3. m * (p + 1) = m * p + m
    BY <1>3
  <2>. QED BY <2>2, <2>3, <1>3
<1>. QED BY <1>3, <1>4, <1>6

-----------------------------------------------------------------------------
(* The inductive invariant: what has been promised of the time has passed,   *)
(* and a reading that is not told yet is a tick later than all that was told. *)
(* The threads are numbered by the counter, and told by its low bits.        *)
TimePassed ==
    /\ now \in Nat /\ due \in Nat
    /\ due <= now
    /\ call # NoCall => /\ call.promised \in Int /\ call.promised <= now
                        /\ call.readings \subseteq DOMAIN Unit
                        /\ call.readings # {} => due + TICK <= now

ThreadsNumbered ==
    /\ begun \in Nat /\ nextTid = begun + 1
    /\ \A x \in told : x.at \in 0 .. begun /\ x.tid = x.at % TidSpace

CallsInv == width \in {32, 64} /\ TimePassed /\ ThreadsNumbered

LEMMA InitCalls == Init => CallsInv
<1> SUFFICES ASSUME Init PROVE CallsInv
  OBVIOUS
<1>1. 0 % TidSpace = 0
  BY GuestCallsAssumption
<1>. QED BY <1>1 DEF Init, CallsInv, TimePassed, ThreadsNumbered, MainTid

(* The clock never goes back, and what is promised has then passed.          *)
LEMMA PassedKeeps ==
    ASSUME TimePassed, NEW readings \in SUBSET DOMAIN Unit, NEW steps,
           NEW time \in Passed(readings, steps), time.now \in Times
    PROVE  /\ time.now \in Nat /\ time.now >= now
           /\ time.promised \in Int /\ time.promised <= time.now
           /\ readings # {} => time.now = now + TICK
<1>. USE DEF TimePassed
<1>0. time.now \in Nat
  BY GuestCallsAssumption
<1>1. CASE readings # {}
  <2>1. PICK u \in readings : time = [now |-> now + TICK, promised |-> Shown(now + TICK, u)]
    BY <1>1 DEF Passed
  <2>2. Unit[u] \in Nat \ {0} /\ TICK \in Nat
    BY GuestCallsAssumption
  <2>3. Shown(now + TICK, u) \in Nat /\ Shown(now + TICK, u) <= now + TICK
    BY <2>2, WholeUnits DEF Shown
  <2>. QED BY <2>1, <2>2, <2>3, <1>0
<1>2. CASE readings = {} /\ "sleep" \in steps
  <2>1. PICK d \in Durations : time = [now |-> Advanced(d), promised |-> due + d]
    BY <1>2 DEF Passed
  <2>2. d \in Int
    BY GuestCallsAssumption
  <2>. QED BY <2>1, <2>2, <1>0, <1>2, MaxWithZero DEF Advanced
<1>3. CASE readings = {} /\ "sleep" \notin steps /\ "until" \in steps
  <2>1. PICK t \in Times : time = [now |-> Advanced(t - now), promised |-> t]
    BY <1>3 DEF Passed
  <2>2. t \in Nat /\ t - now \in Int
    BY GuestCallsAssumption
  <2>. QED BY <2>1, <2>2, <1>0, <1>3, MaxWithZero DEF Advanced
<1>4. CASE readings = {} /\ "sleep" \notin steps /\ "until" \notin steps
  BY <1>4 DEF Passed
<1>. QED BY <1>1, <1>2, <1>3, <1>4

(* The clock is read in the units that the tables of handlers name.          *)
LEMMA ReadingsAreUnits ==
    ASSUME NEW w \in {32, 64}, NEW name \in DOMAIN Handlers[w], NEW path \in Handlers[w][name],
           NEW k, NEW skip
    PROVE  Readings(path, k, skip) \subseteq DOMAIN Unit
BY UnitsKnown DEF Readings, Taken

LEMMA CallKeeps ==
    ASSUME CallsInv, NEW name \in Callable[width], Call(name)
    PROVE  CallsInv'
<1>w. width \in {32, 64} /\ name \in DOMAIN Handlers[width]
  BY TablesComplete DEF CallsInv
<1>a. PICK path \in Handlers[width][name] :
           \E k \in Ends(path) : \E skip \in Skips(path, k) :
              \E time \in Passed(Readings(path, k, skip), Steps(path, k, skip)) :
                 Goes(name, path, k, skip, time)
  BY DEF Call, Handle
<1>b. PICK k \in Ends(path) : \E skip \in Skips(path, k) :
           \E time \in Passed(Readings(path, k, skip), Steps(path, k, skip)) :
              Goes(name, path, k, skip, time)
  BY <1>a
<1>c. PICK skip \in Skips(path, k) :
           \E time \in Passed(Readings(path, k, skip), Steps(path, k, skip)) :
              Goes(name, path, k, skip, time)
  BY <1>b
<1>1. PICK time \in Passed(Readings(path, k, skip), Steps(path, k, skip)) :
           Goes(name, path, k, skip, time)
  BY <1>c
<1> DEFINE readings == Readings(path, k, skip)
           steps    == Steps(path, k, skip)
           ended    == Status(path, k, skip)
<1>4. /\ time \in Passed(readings, steps) /\ time.now \in Times
      /\ call' = [name |-> name, ended |-> ended, changed |-> Changed(path, k, skip),
                  readings |-> readings, promised |-> time.promised]
      /\ now' = time.now
      /\ nextTid' = NextTid(steps, ended)
      /\ begun' = IF "thread" \in steps THEN begun + 1 ELSE begun
      /\ told' = IF "thread" \in steps /\ Tells(path, k, skip)
                 THEN told \cup {[tid |-> Tid, at |-> begun']} ELSE told
  BY <1>1 DEF Goes
<1>r. readings \subseteq DOMAIN Unit
  BY <1>w, ReadingsAreUnits
<1> HIDE DEF readings, steps, ended
<1>5. UNCHANGED <<width, due>>
  BY DEF Call
<1>6. TimePassed'
  <2>1. /\ time.now \in Nat /\ time.now >= now
        /\ time.promised \in Int /\ time.promised <= time.now
        /\ readings # {} => time.now = now + TICK
    BY <1>4, <1>r, PassedKeeps DEF CallsInv
  <2>2. call'.promised = time.promised /\ call'.readings = readings
    BY <1>4
  <2>3. TICK \in Nat
    BY GuestCallsAssumption
  <2>. QED BY <2>1, <2>2, <2>3, <1>r, <1>4, <1>5 DEF CallsInv, TimePassed
<1>7. ThreadsNumbered'
  <2>0. begun \in Nat /\ nextTid = begun + 1 /\ \A x \in told : x.at \in 0 .. begun /\ x.tid = x.at % TidSpace
    BY DEF CallsInv, ThreadsNumbered
  <2>1. CASE "thread" \in steps
    <3>1. begun' = begun + 1 /\ nextTid' = begun' + 1 /\ begun' \in Nat
      BY <2>0, <2>1, <1>4 DEF NextTid
    <3>2. told' \subseteq told \cup {[tid |-> Tid, at |-> begun']}
      BY <1>4
    <3>3. Tid = begun' % TidSpace
      BY <2>0, <3>1 DEF Tid
    <3>4. ASSUME NEW x \in told' PROVE x.at \in 0 .. begun' /\ x.tid = x.at % TidSpace
      <4>1. CASE x \in told
        BY <4>1, <2>0, <3>1
      <4>2. CASE x = [tid |-> Tid, at |-> begun']
        BY <4>2, <3>1, <3>3
      <4>. QED BY <4>1, <4>2, <3>2
    <3>. QED BY <3>1, <3>4 DEF ThreadsNumbered
  <2>2. CASE "thread" \notin steps
    <3>1. begun' = begun /\ nextTid' = nextTid /\ told' = told
      BY <2>2, <1>4 DEF NextTid
    <3>. QED BY <3>1, <2>0 DEF ThreadsNumbered
  <2>. QED BY <2>1, <2>2
<1>. QED BY <1>5, <1>6, <1>7 DEF CallsInv

LEMMA ReturnKeeps ==
    ASSUME CallsInv, Return
    PROVE  CallsInv'
<1>1. /\ call # NoCall /\ call' = NoCall /\ UNCHANGED <<width, now, nextTid, begun, told>>
      /\ due' = IF call.ended = "answered" THEN Max({due, call.promised}) ELSE due
  BY DEF Return
<1>2. /\ now \in Nat /\ due \in Nat /\ due <= now
      /\ call.promised \in Int /\ call.promised <= now
  BY <1>1 DEF CallsInv, TimePassed
<1>3. due \in Int
  BY <1>2
<1>4. due' \in Nat /\ due' <= now
  <2>1. /\ Max({due, call.promised}) \in {due, call.promised}
        /\ Max({due, call.promised}) >= due
    BY <1>2, <1>3, MaxOfTwo
  <2>. QED BY <1>1, <1>2, <2>1
<1>5. ThreadsNumbered'
  BY <1>1 DEF CallsInv, ThreadsNumbered
<1>. QED BY <1>1, <1>2, <1>3, <1>4, <1>5 DEF CallsInv, TimePassed

LEMMA CallsInductive == CallsInv /\ [Next]_vars => CallsInv'
<1> SUFFICES ASSUME CallsInv, [Next]_vars PROVE CallsInv'
  OBVIOUS
<1>1. CASE UNCHANGED vars
  BY <1>1 DEF vars, CallsInv, TimePassed, ThreadsNumbered
<1>2. CASE Run
  BY <1>2 DEF Run, CallsInv, TimePassed, ThreadsNumbered
<1>3. CASE UnknownNumber
  <2>1. call'.promised = 0 /\ call'.readings = {} /\ UNCHANGED <<width, now, nextTid, due, begun, told>>
    BY <1>3 DEF UnknownNumber
  <2>. QED BY <2>1 DEF CallsInv, TimePassed, ThreadsNumbered
<1>. QED BY <1>1, <1>2, <1>3, CallKeeps, ReturnKeeps DEF Next

LEMMA CallsInvAlways == Spec => []CallsInv
<1>1. Init => CallsInv
  BY InitCalls
<1>2. CallsInv /\ [Next]_vars => CallsInv'
  BY CallsInductive
<1>. QED BY <1>1, <1>2, PTL DEF Spec

(* A reading in units that are no longer than a tick is later than everything *)
(* the guest has been told of the time; one in longer units is not earlier   *)
(* than that, cut to the same unit.                                          *)
THEOREM TimeAsToldAlways == Spec => []TimeAsTold
<1>1. ASSUME CallsInv PROVE TimeAsTold
  <2> SUFFICES ASSUME call # NoCall, NEW u \in call.readings
               PROVE  /\ Shown(now, u) >= Shown(due, u)
                      /\ Unit[u] <= TICK => Shown(now, u) > due
    BY DEF TimeAsTold
  <2>1. /\ now \in Nat /\ due \in Nat /\ due <= now /\ due + TICK <= now
        /\ Unit[u] \in Nat \ {0} /\ TICK \in Nat
    BY <1>1, GuestCallsAssumption DEF CallsInv, TimePassed
  <2>2. /\ Shown(now, u) \in Nat /\ Shown(due, u) \in Nat
        /\ now < Shown(now, u) + Unit[u] /\ Shown(due, u) <= Shown(now, u)
    <3>1. due <= due
      BY <2>1
    <3>. QED BY <2>1, <3>1, WholeUnits DEF Shown
  <2>. QED BY ONLY <2>1, <2>2
<1>. QED BY <1>1, CallsInvAlways, PTL

(* A thread id is told again only when the ids have come round.              *)
THEOREM ThreadsDistinctAlways == Spec => []ThreadsDistinct
<1>1. ASSUME CallsInv PROVE ThreadsDistinct
  <2> SUFFICES ASSUME NEW x \in told, NEW y \in told, x.tid = y.tid, x.at < y.at
               PROVE  y.at - x.at >= TidSpace
    BY DEF ThreadsDistinct
  <2>1. x.at \in Nat /\ y.at \in Nat /\ x.at % TidSpace = y.at % TidSpace /\ TidSpace \in Nat \ {0}
    BY <1>1, GuestCallsAssumption DEF CallsInv, ThreadsNumbered
  <2>. QED BY <2>1, CutApart
<1>. QED BY <1>1, CallsInvAlways, PTL

-----------------------------------------------------------------------------
(***************************************************************************)
(* The property area, for every list of properties, every length of names  *)
(* and values, and every size of the area.                                 *)
(***************************************************************************)
Record == [name : Names, value : PropertyValue, node : Int, last : Int]

(* Records lie one behind the other below the cursor, and a name is filed    *)
(* under a record of its own.                                                *)
AreaSound(r, names, cursor) ==
    /\ r \in Seq(Record) /\ names \in [Names -> 0 .. Len(r)]
    /\ cursor \in Int /\ PA_DATA <= cursor
    /\ \A i \in DOMAIN r : PA_DATA <= r[i].node /\ r[i].last < cursor /\ r[i].last < REGION_BYTES
    /\ \A i \in DOMAIN r : i < Len(r) => r[i].last < r[i + 1].node
    /\ \A n \in Names : names[n] # 0 => r[names[n]].name = n

(* What is filed is what get answers, but for the outdated.                  *)
AreaTrue(r, names) ==
    \A n \in Names : names[n] # 0 /\ n \notin outdated => r[names[n]].value = Getprop(n)

PropertiesInv ==
    /\ properties \in [Names -> Values \cup {Unset}] /\ outdated \subseteq DOMAIN Computed
    /\ AreaSound(records, byName, end) /\ AreaTrue(records, byName)

LEMMA GetpropTyped ==
    ASSUME properties \in [Names -> Values \cup {Unset}], NEW n \in Names
    PROVE  Getprop(n) \in PropertyValue
<1>1. CASE n \in DOMAIN Computed /\ ~Stored(n)
  <2>1. Getprop(n) \in [Computed[n] -> Values \cup {Unset}]
    <3>a. PICK S : S = Computed[n]
      OBVIOUS
    <3>1. S \subseteq Names
      BY <1>1, <3>a, PropertiesAssumption
    <3>2. Getprop(n) = [m \in S |-> properties[m]]
      BY <1>1, <3>a DEF Getprop
    <3>3. [m \in S |-> properties[m]] \in [S -> Values \cup {Unset}]
      BY <3>1
    <3>. QED BY <3>2, <3>3, <3>a
  <2>2. [Computed[n] -> Values \cup {Unset}] \in {[Computed[m] -> Values \cup {Unset}] : m \in DOMAIN Computed}
    BY <1>1
  <2>. QED BY <2>1, <2>2, Zenon DEF PropertyValue
<1>2. CASE ~(n \in DOMAIN Computed /\ ~Stored(n))
  <2>1. Getprop(n) \in [{n} -> Values \cup {Unset}]
    BY <1>2 DEF Getprop
  <2>. QED BY <2>1 DEF PropertyValue
<1>. QED BY <1>1, <1>2

(* A record begins behind its node, is not empty, and ends before the next.  *)
LEMMA RecordFits ==
    ASSUME NEW n \in Names, NEW length \in Nat, NEW cursor \in Int
    PROVE  /\ InfoAt(n, cursor) \in Int /\ InfoBytes(n, length) \in Int /\ NextEnd(n, length, cursor) \in Int
           /\ InfoAt(n, cursor) > cursor /\ InfoBytes(n, length) > 0
           /\ InfoAt(n, cursor) + InfoBytes(n, length) <= NextEnd(n, length, cursor)
<1>0. Bytes.leaf[n] \in Nat /\ Bytes.name[n] \in Nat
  BY PropertiesAssumption
<1>1. \A v \in Int : /\ Align(v, 4) \in Int /\ Align(v, 4) >= v
                     /\ Align(v, 8) \in Int /\ Align(v, 8) >= v
  BY DEF Align
<1>2. InfoAt(n, cursor) \in Int /\ InfoAt(n, cursor) > cursor
  BY <1>0, <1>1 DEF InfoAt, BT_NAME
<1>3. InfoBytes(n, length) \in Int /\ InfoBytes(n, length) > 0
  <2>1. NAME + Bytes.name[n] + 1 \in Int /\ NAME + Bytes.name[n] + 1 > 0
    BY <1>0 DEF NAME
  <2>2. /\ Align(NAME + Bytes.name[n] + 1, 8) \in Int
        /\ Align(NAME + Bytes.name[n] + 1, 8) >= NAME + Bytes.name[n] + 1
    BY <1>1, <2>1
  <2>. QED BY <2>1, <2>2 DEF InfoBytes
<1>4. InfoAt(n, cursor) + InfoBytes(n, length) \in Int
  BY <1>2, <1>3
<1>. QED BY <1>1, <1>2, <1>3, <1>4 DEF NextEnd

(* An area under construction: sound, and nothing that was filed is lost.    *)
Area(r, names, cursor, raised) == [records |-> r, byName |-> names, end |-> cursor, raised |-> raised]

Tab(area) ==
    /\ area = Area(area.records, area.byName, area.end, area.raised)
    /\ AreaSound(area.records, area.byName, area.end)
    /\ AreaTrue(area.records, area.byName)

LEMMA InternSound ==
    ASSUME properties \in [Names -> Values \cup {Unset}], NEW n \in Names, NEW area, Tab(area)
    PROVE  Tab(Intern(area, n))
<1>a. PICK value : value = Getprop(n)
  OBVIOUS
<1>b. PICK length : length = Bytes.value[value]
  OBVIOUS
<1>c. PICK next : next = NextEnd(n, length, area.end)
  OBVIOUS
<1>d. PICK last : last = InfoAt(n, area.end) + InfoBytes(n, length) - 1
  OBVIOUS
<1>e. PICK made : made = [name |-> n, value |-> value, node |-> area.end, last |-> last]
  OBVIOUS
<1>f. PICK r : r = Append(area.records, made)
  OBVIOUS
<1>g. PICK names : names = [area.byName EXCEPT ![n] = Len(area.records) + 1]
  OBVIOUS
<1>1. CASE area.byName[n] # 0
  BY <1>1 DEF Intern
<1>2. CASE area.byName[n] = 0 /\ next > REGION_BYTES
  <2>1. Intern(area, n) = [area EXCEPT !.raised = TRUE]
    BY <1>2, <1>a, <1>b, <1>c DEF Intern
  <2>2. Intern(area, n) = Area(area.records, area.byName, area.end, TRUE)
    BY <2>1, Zenon DEF Tab, Area
  <2>. QED BY <2>2 DEF Tab, Area
<1>3. CASE area.byName[n] = 0 /\ ~(next > REGION_BYTES)
  <2>1. Intern(area, n) = [area EXCEPT !.records = r, !.byName = names, !.end = next]
    BY <1>3, <1>a, <1>b, <1>c, <1>d, <1>e, <1>f, <1>g DEF Intern
  <2>2. Intern(area, n) = Area(r, names, next, area.raised)
    BY <2>1 DEF Tab, Area
  <2>3. AreaSound(area.records, area.byName, area.end) /\ AreaTrue(area.records, area.byName)
    BY DEF Tab
  <2>b. PICK old : old = area.records
    OBVIOUS
  <2>c. PICK filed : filed = area.byName
    OBVIOUS
  <2>d. PICK cursor : cursor = area.end
    OBVIOUS
  <2>4. AreaSound(old, filed, cursor) /\ AreaTrue(old, filed) /\ r = Append(old, made)
        /\ names = [filed EXCEPT ![n] = Len(old) + 1]
    BY <2>3, <2>b, <2>c, <2>d, <1>f, <1>g
  <2>5. length \in Nat /\ value \in PropertyValue
    BY <1>a, <1>b, GetpropTyped, PropertiesAssumption
  <2>6. /\ cursor \in Int /\ next \in Int /\ last \in Int /\ REGION_BYTES \in Int /\ PA_DATA <= cursor
        /\ cursor < next /\ last < next /\ last < REGION_BYTES
    <3>1. cursor \in Int /\ PA_DATA <= cursor
      BY <2>4 DEF AreaSound
    <3>2. /\ next = NextEnd(n, length, cursor)
          /\ last = InfoAt(n, cursor) + InfoBytes(n, length) - 1
      BY <1>c, <1>d, <2>d
    <3>3. /\ InfoAt(n, cursor) \in Int /\ InfoBytes(n, length) \in Int /\ next \in Int
          /\ InfoAt(n, cursor) > cursor /\ InfoBytes(n, length) > 0
          /\ InfoAt(n, cursor) + InfoBytes(n, length) <= next
      BY <2>5, <3>1, <3>2, RecordFits
    <3>4. REGION_BYTES \in Int /\ next <= REGION_BYTES
      BY <1>3, <3>3, PropertiesAssumption
    <3>. QED BY <3>1, <3>2, <3>3, <3>4
  <2>7. made \in Record /\ made.name = n /\ made.value = value /\ made.node = cursor /\ made.last = last
    BY <1>e, <2>5, <2>6, <2>d DEF Record
  <2>8. /\ old \in Seq(Record) /\ Len(old) \in Nat /\ DOMAIN old = 1 .. Len(old)
        /\ r \in Seq(Record) /\ Len(r) = Len(old) + 1 /\ DOMAIN r = 1 .. Len(old) + 1
        /\ r[Len(old) + 1] = made /\ \A i \in DOMAIN old : r[i] = old[i]
    BY <2>4, <2>7 DEF AreaSound
  <2>9. /\ names \in [Names -> 0 .. Len(r)] /\ names[n] = Len(old) + 1
        /\ \A m \in Names : m # n => names[m] = filed[m]
        /\ filed \in [Names -> 0 .. Len(old)]
    BY <2>4, <2>8 DEF AreaSound
  <2>10. AreaSound(r, names, next)
    <3>1. \A i \in DOMAIN r : PA_DATA <= r[i].node /\ r[i].last < next /\ r[i].last < REGION_BYTES
      <4>1. ASSUME NEW i \in DOMAIN old
            PROVE  PA_DATA <= r[i].node /\ r[i].last < next /\ r[i].last < REGION_BYTES
        <5>0. old[i] \in Record
          BY <2>8
        <5>1. PA_DATA <= old[i].node /\ old[i].last < cursor /\ old[i].last < REGION_BYTES /\ old[i].last \in Int
          BY <2>4, <5>0 DEF AreaSound, Record
        <5>. QED BY <5>1, <2>6, <2>8
      <4>2. r[Len(old) + 1] = made
        BY <2>8
      <4>. QED BY <4>1, <4>2, <2>6, <2>7, <2>8
    <3>2. ASSUME NEW i \in DOMAIN r, i < Len(r)
          PROVE  r[i].last < r[i + 1].node
      <4>1. i \in DOMAIN old /\ r[i] = old[i]
        BY <2>8, <3>2
      <4>2. CASE i < Len(old)
        BY <4>1, <4>2, <2>4, <2>8 DEF AreaSound
      <4>3. CASE i = Len(old)
        <5>1. r[i + 1].node = cursor
          BY <4>3, <2>7, <2>8
        <5>. QED BY <4>1, <5>1, <2>4 DEF AreaSound
      <4>. QED BY <4>1, <4>2, <4>3, <2>8
    <3>3. ASSUME NEW m \in Names, names[m] # 0
          PROVE  r[names[m]].name = m
      <4>1. CASE m = n
        BY <4>1, <2>7, <2>8, <2>9
      <4>2. CASE m # n
        <5>1. filed[m] \in DOMAIN old /\ names[m] = filed[m]
          BY <4>2, <3>3, <2>8, <2>9
        <5>. QED BY <5>1, <3>3, <2>4, <2>8 DEF AreaSound
      <4>. QED BY <4>1, <4>2
    <3>4. next \in Int /\ PA_DATA <= next
      BY <2>6 DEF PA_DATA
    <3>. QED BY <3>1, <3>2, <3>3, <3>4, <2>8, <2>9 DEF AreaSound
  <2>11. AreaTrue(r, names)
    <3>1. ASSUME NEW m \in Names, names[m] # 0, m \notin outdated
          PROVE  r[names[m]].value = Getprop(m)
      <4>1. CASE m = n
        BY <4>1, <1>a, <2>7, <2>8, <2>9
      <4>2. CASE m # n
        <5>1. filed[m] \in DOMAIN old /\ names[m] = filed[m]
          BY <4>2, <3>1, <2>8, <2>9
        <5>. QED BY <5>1, <3>1, <2>4, <2>8 DEF AreaTrue
      <4>. QED BY <4>1, <4>2
    <3>. QED BY <3>1 DEF AreaTrue
  <2>12. /\ Intern(area, n).records = r /\ Intern(area, n).byName = names
         /\ Intern(area, n).end = next /\ Intern(area, n).raised = area.raised
    BY <2>2 DEF Area
  <2>. QED BY <2>2, <2>10, <2>11, <2>12 DEF Tab
<1>4. area.byName[n] = 0 \/ area.byName[n] # 0
  OBVIOUS
<1>. QED BY <1>1, <1>2, <1>3

(* The names are interned one after the other.                               *)
Interning(area, n, base, names) ==
    area = [k \in 0 .. n |-> IF k = 0 THEN base ELSE Interned(area[k - 1], Keys[k], names)]

LEMMA LeastNumber ==
    ASSUME NEW S \in SUBSET Nat, S # {}
    PROVE  \E x \in S : \A y \in S : x <= y
<1>1. PICK x \in S : \A y \in S : ~(<<y, x>> \in OpToRel(<, Nat))
  BY NatLessThanWellFounded, WFMin
<1>2. \A y \in S : ~(y < x)
  BY <1>1 DEF OpToRel
<1>. QED BY <1>2

LEMMA InternedSound ==
    ASSUME properties \in [Names -> Values \cup {Unset}], NEW n \in Names, NEW names,
           NEW area, Tab(area)
    PROVE  Tab(Interned(area, n, names))
<1>1. CASE n \in names /\ ~area.raised
  BY <1>1, InternSound DEF Interned
<1>2. CASE ~(n \in names /\ ~area.raised)
  BY <1>2 DEF Interned
<1>. QED BY <1>1, <1>2, Zenon

LEMMA InterningSound ==
    ASSUME properties \in [Names -> Values \cup {Unset}], NEW n \in 0 .. Len(Keys), NEW names,
           NEW base, Tab(base), NEW area, Interning(area, n, base, names)
    PROVE  Tab(area[n])
<1>0. area = [k \in 0 .. n |-> IF k = 0 THEN base ELSE Interned(area[k - 1], Keys[k], names)]
  BY DEF Interning
<1>K. Len(Keys) \in Nat /\ \A k \in 1 .. Len(Keys) : Keys[k] \in Names
  BY PropertiesAssumption
<1> DEFINE Bad == {k \in 0 .. n : ~Tab(area[k])}
<1>1. SUFFICES ASSUME Bad # {} PROVE FALSE
  <2>1. n \in 0 .. n
    BY <1>K
  <2>. QED BY <2>1
<1>2. Bad \in SUBSET Nat
  OBVIOUS
<1>3. PICK k \in Bad : \A j \in Bad : k <= j
  BY <1>1, <1>2, LeastNumber
<1>4. k \in 0 .. n /\ ~Tab(area[k])
  BY <1>3
<1>5. CASE k = 0
  <2>1. area[k] = base
    BY <1>0, <1>4, <1>5
  <2>. QED BY <1>4, <2>1
<1>6. CASE k # 0
  <2>1. k - 1 \in 0 .. n /\ ~(k <= k - 1) /\ Keys[k] \in Names
    BY <1>K, <1>4, <1>6
  <2>2. Tab(area[k - 1])
    BY <1>3, <2>1
  <2>3. area[k] = Interned(area[k - 1], Keys[k], names)
    BY <1>0, <1>4, <1>6
  <2>4. Tab(Interned(area[k - 1], Keys[k], names))
    BY <2>1, <2>2, InternedSound
  <2>. QED BY <1>4, <2>3, <2>4
<1>. QED BY <1>5, <1>6

LEMMA InterningExists ==
    ASSUME NEW n \in Nat, NEW names, NEW base
    PROVE  \E area : Interning(area, n, base, names)
<1> DEFINE Is(g, m) == g = [k \in 0 .. m |-> IF k = 0 THEN base ELSE Interned(g[k - 1], Keys[k], names)]
<1> DEFINE Bad == {m \in Nat : ~\E g : Is(g, m)}
<1>0. \A g, m : Interning(g, m, base, names) <=> Is(g, m)
  BY DEF Interning
<1>1. SUFFICES ASSUME Bad # {} PROVE FALSE
  BY <1>0
<1>2. PICK m \in Bad : \A j \in Bad : m <= j
  BY <1>1, LeastNumber
<1>3. m \in Nat /\ ~\E g : Is(g, m)
  BY <1>2
<1>4. CASE m = 0
  <2>1. Is([k \in 0 .. 0 |-> base], 0)
    OBVIOUS
  <2>. QED BY <1>3, <1>4, <2>1
<1>5. CASE m # 0
  <2>1. m - 1 \in Nat /\ ~(m <= m - 1)
    BY <1>3, <1>5
  <2>2. PICK g : Is(g, m - 1)
    BY <1>2, <2>1
  <2>a. PICK last : last = Interned(g[m - 1], Keys[m], names)
    OBVIOUS
  <2>b. PICK h : h = [k \in 0 .. m |-> IF k = m THEN last ELSE g[k]]
    OBVIOUS
  <2>3. \A k \in 0 .. m : k # m => k \in 0 .. m - 1
    BY <1>3
  <2>4. \A k \in 0 .. m : h[k] = IF k = 0 THEN base ELSE Interned(h[k - 1], Keys[k], names)
    <3>1. ASSUME NEW k \in 0 .. m, k = m
          PROVE  h[k] = IF k = 0 THEN base ELSE Interned(h[k - 1], Keys[k], names)
      <4>1. h[k - 1] = g[m - 1] /\ h[k] = last /\ k # 0
        BY <1>3, <1>5, <2>b, <3>1
      <4>. QED BY <2>a, <3>1, <4>1
    <3>2. ASSUME NEW k \in 0 .. m, k # m
          PROVE  h[k] = IF k = 0 THEN base ELSE Interned(h[k - 1], Keys[k], names)
      <4>1. k \in 0 .. m - 1 /\ h[k] = g[k]
        BY <1>3, <2>b, <2>3, <3>2
      <4>2. g[k] = IF k = 0 THEN base ELSE Interned(g[k - 1], Keys[k], names)
        BY <2>2, <4>1
      <4>3. k # 0 => h[k - 1] = g[k - 1]
        BY <1>3, <2>b, <3>2
      <4>. QED BY <4>1, <4>2, <4>3
    <3>. QED BY <3>1, <3>2
  <2>5. h = [k \in 0 .. m |-> h[k]]
    BY <2>b
  <2>6. Is(h, m)
    BY <2>4, <2>5
  <2>. QED BY <1>3, <2>6
<1>. QED BY <1>4, <1>5

LEMMA FoundKeeps ==
    ASSUME PropertiesInv, NEW names, Found(names)
    PROVE  PropertiesInv'
<1>a. PICK base : base = Area(records, byName, end, FALSE)
  OBVIOUS
<1>b. PICK n : n = Len(Keys)
  OBVIOUS
<1>1. properties \in [Names -> Values \cup {Unset}] /\ Tab(base) /\ n \in Nat /\ n \in 0 .. Len(Keys)
  <2>1. /\ base.records = records /\ base.byName = byName /\ base.end = end /\ base.raised = FALSE
    BY <1>a DEF Area
  <2>2. Tab(base)
    BY <2>1, <1>a DEF PropertiesInv, Tab
  <2>3. Len(Keys) \in Nat
    BY PropertiesAssumption
  <2>. QED BY <2>2, <2>3, <1>b DEF PropertiesInv
<1> DEFINE area[k \in 0 .. n] == IF k = 0 THEN base ELSE Interned(area[k - 1], Keys[k], names)
<1>2. area = [k \in 0 .. n |-> IF k = 0 THEN base ELSE Interned(area[k - 1], Keys[k], names)]
  <2>1. \E g : Interning(g, n, base, names)
    BY <1>1, InterningExists
  <2>. QED BY <2>1 DEF Interning
<1>3. /\ records' = area[n].records /\ byName' = area[n].byName /\ end' = area[n].end
      /\ UNCHANGED <<properties, outdated>>
  BY <1>a, <1>b DEF Found, Area
<1>c. PICK t : t = area[n]
  OBVIOUS
<1>4. Tab(t)
  <2>a. PICK g : g = area
    OBVIOUS
  <2>1. Interning(g, n, base, names)
    BY <1>2, <2>a DEF Interning
  <2>2. Tab(g[n])
    BY <1>1, <2>1, InterningSound
  <2>. QED BY <1>c, <2>a, <2>2
<1>5. records' = t.records /\ byName' = t.byName /\ end' = t.end
  BY <1>3, <1>c
<1>6. AreaSound(records', byName', end')
  BY <1>4, <1>5 DEF Tab
<1>7. AreaTrue(records, byName)'
  <2>1. \A m \in Names : Getprop(m)' = Getprop(m)
    BY <1>3 DEF Getprop, Stored
  <2>2. outdated' = outdated /\ AreaTrue(t.records, t.byName)
    BY <1>3, <1>4 DEF Tab
  <2>. QED BY <1>5, <2>1, <2>2 DEF AreaTrue
<1>. QED BY <1>3, <1>6, <1>7 DEF PropertiesInv

LEMMA SetKeeps ==
    ASSUME PropertiesInv, NEW n \in Names, NEW v \in Values, SetProperty(n, v)
    PROVE  PropertiesInv'
<1>1. /\ properties' = [properties EXCEPT ![n] = v] /\ byName' = [byName EXCEPT ![n] = 0]
      /\ outdated' = {m \in outdated \cup DOMAIN Computed :
                         byName'[m] # 0 /\ (m \in outdated \/ (n \in Computed[m] /\ ~Stored(m)))}
      /\ UNCHANGED <<records, end>>
  BY DEF SetProperty, Invalidated
<1>2. properties' \in [Names -> Values \cup {Unset}] /\ outdated' \subseteq DOMAIN Computed
  BY <1>1 DEF PropertiesInv
<1>3. /\ byName \in [Names -> 0 .. Len(records)] /\ byName'[n] = 0
      /\ \A m \in Names : m # n => byName'[m] = byName[m] /\ properties'[m] = properties[m]
  BY <1>1 DEF PropertiesInv, AreaSound
<1>4. AreaSound(records, byName', end)
  <2>1. byName' \in [Names -> 0 .. Len(records)]
    <3>1. 0 \in 0 .. Len(records)
      <4>1. records \in Seq(Record)
        BY DEF PropertiesInv, AreaSound
      <4>. QED BY <4>1
    <3>. QED BY <1>1, <1>3, <3>1
  <2>2. \A m \in Names : byName'[m] # 0 => records[byName'[m]].name = m
    BY <1>3 DEF PropertiesInv, AreaSound
  <2>. QED BY <2>1, <2>2 DEF PropertiesInv, AreaSound
<1>5. ASSUME NEW m \in Names, byName'[m] # 0, m \notin outdated'
      PROVE  records[byName'[m]].value = Getprop(m)'
  <2>1. m # n /\ byName'[m] = byName[m] /\ properties'[m] = properties[m]
    BY <1>3, <1>5
  <2>2. m \notin outdated
    BY <1>1, <1>5
  <2>3. records[byName[m]].value = Getprop(m)
    BY <1>5, <2>1, <2>2 DEF PropertiesInv, AreaTrue
  <2>4. Stored(m)' <=> Stored(m)
    BY <2>1 DEF Stored
  <2>5. Getprop(m)' = Getprop(m)
    <3>1. CASE m \in DOMAIN Computed /\ ~Stored(m)
      <4>1. n \notin Computed[m]
        BY <1>1, <1>5, <3>1
      <4>a. PICK S : S = Computed[m]
        OBVIOUS
      <4>2. S \subseteq Names /\ n \notin S
        BY <3>1, <4>1, <4>a, PropertiesAssumption
      <4>3. [x \in S |-> properties'[x]] = [x \in S |-> properties[x]]
        BY <1>3, <4>2
      <4>4. Getprop(m) = [x \in S |-> properties[x]]
        BY <3>1, <4>a DEF Getprop
      <4>5. Getprop(m)' = [x \in S |-> properties'[x]]
        BY <2>4, <3>1, <4>a DEF Getprop
      <4>. QED BY <4>3, <4>4, <4>5
    <3>2. CASE ~(m \in DOMAIN Computed /\ ~Stored(m))
      <4>1. Getprop(m) = [x \in {m} |-> properties[x]]
        BY <3>2 DEF Getprop
      <4>2. Getprop(m)' = [x \in {m} |-> properties'[x]]
        BY <2>4, <3>2 DEF Getprop
      <4>. QED BY <2>1, <4>1, <4>2
    <3>. QED BY <3>1, <3>2
  <2>. QED BY <2>1, <2>3, <2>5
<1>6. AreaTrue(records, byName)'
  BY <1>1, <1>5 DEF AreaTrue
<1>7. AreaSound(records', byName', end')
  BY <1>1, <1>4
<1>. QED BY <1>2, <1>6, <1>7 DEF PropertiesInv

LEMMA PropertiesInitially == PInit => PropertiesInv
<1>. SUFFICES ASSUME PInit PROVE PropertiesInv
  OBVIOUS
<1>1. records \in Seq(Record) /\ Len(records) = 0 /\ DOMAIN records = {}
  BY DEF PInit
<1>2. byName \in [Names -> 0 .. Len(records)] /\ \A n \in Names : byName[n] = 0
  BY <1>1 DEF PInit
<1>3. AreaSound(records, byName, end)
  BY <1>1, <1>2 DEF PInit, AreaSound, PA_DATA
<1>4. AreaTrue(records, byName)
  BY <1>2 DEF AreaTrue
<1>. QED BY <1>3, <1>4 DEF PInit, PropertiesInv

(* What find leads to is what get answers, and the records of different      *)
(* properties do not overlap, however often properties are set and found;    *)
(* but for computed properties that were found before one they are made of   *)
(* was set (outdated).                                                       *)
THEOREM PropertiesAlwaysAgree == PSpec => []PropertiesAgree
<1>1. PropertiesInv /\ [PNext]_pvars => PropertiesInv'
  <2>. SUFFICES ASSUME PropertiesInv, [PNext]_pvars PROVE PropertiesInv'
    OBVIOUS
  <2>1. ASSUME NEW n \in Names, Find(n) PROVE PropertiesInv'
    BY <2>1, FoundKeeps DEF Find
  <2>2. CASE Foreach
    BY <2>2, FoundKeeps DEF Foreach
  <2>3. CASE UNCHANGED pvars
    BY <2>3 DEF pvars, PropertiesInv, AreaTrue, Getprop, Stored
  <2>. QED BY <2>1, <2>2, <2>3, SetKeeps DEF PNext
<1>2. PropertiesInv => PropertiesAgree
  <2>. SUFFICES ASSUME PropertiesInv PROVE PropertiesAgree
    OBVIOUS
  <2>1. RecordsApart
    BY DEF PropertiesInv, AreaSound, RecordsApart
  <2>2. FindsAgree
    BY DEF PropertiesInv, AreaSound, AreaTrue, FindsAgree
  <2>. QED BY <2>1, <2>2 DEF PropertiesAgree
<1>. QED BY <1>1, <1>2, PropertiesInitially, PTL DEF PSpec
=============================================================================
