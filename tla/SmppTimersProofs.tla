--------------------------- MODULE SmppTimersProofs ---------------------------
(***************************************************************************)
(* Proofs about the timers, for every duration, every way of setting the   *)
(* clock and every width of the word.                                      *)
(***************************************************************************)
EXTENDS SmppTimersProperties, TLAPS

Pair == {"enquire_link", "inactivity"}

\* What an age below the width is after the conversion to unsigned.
LEMMA PastOfAge ==
  ASSUME NEW a \in Nat, NEW w \in Nat, a < w
  PROVE  a % w = a
  OBVIOUS

LEMMA ShortestBounds ==
  /\ Shortest \in Nat
  /\ \A k \in Pair : Shortest <= Duration[k]
BY DurationAssumption DEF Shortest, Pair, TimerNames

\* The invariant TypeOK is inductive with: the first timer never runs, no
\* timer has begun while the read timer waits, and the other two go together
\* from the first bind on.
TimersInv ==
  /\ TypeOK
  /\ status["session_init"] \in {"NOT_BEGIN", "END"}
  /\ read_timer = "waiting" =>
       queue = << >> /\ \A k \in TimerNames : status[k] = "NOT_BEGIN"
  /\ status["session_init"] = "END" =>
       \A k \in Pair : status[k] \in {"BEGIN", "UPDATE"}
  /\ status["enquire_link"] = status["inactivity"]
  /\ age["enquire_link"] = age["inactivity"]

LEMMA InitTimers == Init => TimersInv
<1> SUFFICES ASSUME Init PROVE TimersInv
  OBVIOUS
<1>1. TypeOK
  <2>1. queue \in Seq(Requests)
    BY DEF Init
  <2>2. /\ status \in [TimerNames -> {"NOT_BEGIN", "BEGIN", "UPDATE", "END"}]
        /\ age \in [TimerNames -> Int] /\ \A k \in TimerNames : age[k] <= MaxAge
    BY BoundsAssumption DEF Init
  <2>3. idle \in 0 .. Shortest + 1 /\ sets \in 0 .. MaxSets
    BY BoundsAssumption, ShortestBounds DEF Init
  <2>. QED
    BY <2>1, <2>2, <2>3 DEF Init, TypeOK
<1>. QED
  BY <1>1 DEF Init, TimersInv, TimerNames, Pair

\* Begin and update of the pair, in a session that has been read from.
LEMMA StampedKeeps ==
  ASSUME TimersInv, NEW new \in {"BEGIN", "UPDATE"},
         Stamped(Pair, new),
         read_timer # "waiting", UNCHANGED <<sock, pc, read_timer, read_age, sets>>,
         queue' \in Seq(Requests),
         session' \in {"OPEN", "BOUND", "CLOSED"},
         session' # "OPEN" => new = "BEGIN" \/ session # "OPEN"
  PROVE  TimersInv'
<1>1. /\ status' \in [TimerNames -> {"NOT_BEGIN", "BEGIN", "UPDATE", "END"}]
      /\ age' \in [TimerNames -> Int]
      /\ status'["session_init"] \in {"NOT_BEGIN", "END"}
      /\ status'["enquire_link"] = new /\ status'["inactivity"] = new
      /\ age'["enquire_link"] = 0 /\ age'["inactivity"] = 0
      /\ new = "BEGIN" => status'["session_init"] = "END"
      /\ new = "UPDATE" => status'["session_init"] = status["session_init"]
  BY DEF TimersInv, TypeOK, Stamped, TimerNames, Pair
<1>2. \A k \in TimerNames : age'[k] <= MaxAge
  BY BoundsAssumption DEF TimersInv, TypeOK, Stamped, Pair
<1>3. idle' \in 0 .. Shortest + 1 /\ moved' \in BOOLEAN /\ sets' \in 0 .. MaxSets
  <2>1. idle' = 0 /\ sets' = sets
    BY DEF Stamped
  <2>2. moved' \in BOOLEAN
    BY Zenon DEF Stamped
  <2>. QED
    BY <2>1, <2>2, ShortestBounds DEF TimersInv, TypeOK
<1>4. session' # "OPEN" => status'["session_init"] = "END"
  BY <1>1 DEF TimersInv, TypeOK
<1>5. TypeOK'
  BY <1>1, <1>2, <1>3, <1>4 DEF TimersInv, TypeOK, Pair
<1>. QED
  BY <1>1, <1>5 DEF TimersInv, Pair

\* Time: the ages of the pair stay alike.
LEMMA AgingKeeps ==
  ASSUME TimersInv, NEW d \in Int, age' = Aged(d), read_age' = ReadAged(d),
         UNCHANGED <<sock, session, pc, queue, read_timer, status>>,
         idle' \in 0 .. Shortest + 1, moved' \in BOOLEAN, sets' \in 0 .. MaxSets
  PROVE  TimersInv'
<1>1. /\ age' \in [TimerNames -> Int]
      /\ \A k \in TimerNames : age'[k] <= MaxAge
      /\ age'["enquire_link"] = age'["inactivity"]
  BY BoundsAssumption DEF TimersInv, TypeOK, Aged, Later, Running, TimerNames
<1>2. TypeOK'
  BY <1>1 DEF TimersInv, TypeOK
<1>. QED
  BY <1>1, <1>2 DEF TimersInv

LEMMA NextTimers == TimersInv /\ [Next]_vars => TimersInv'
<1> SUFFICES ASSUME TimersInv, [Next]_vars PROVE TimersInv'
  OBVIOUS
<1>1. ASSUME NEW r \in Requests, Receive(r) PROVE TimersInv'
  BY <1>1 DEF Receive, TimersInv, TypeOK
<1>2. CASE ReadTimeout
  BY <1>2 DEF ReadTimeout, TimersInv, TypeOK
<1>3. CASE Get
  BY <1>3 DEF Get, timerVars, TimersInv, TypeOK
<1>4. CASE Process
  <2> DEFINE r == Head(queue)
  <2>1. /\ read_timer # "waiting" /\ queue' \in Seq(Requests)
        /\ UNCHANGED <<sock, pc, read_timer, read_age, sets>>
    BY <1>4 DEF Process, TimersInv, TypeOK
  <2>2. CASE /\ r \in Binds /\ session = "OPEN"
             /\ session' = IF r = "Bind" THEN "BOUND" ELSE session
             /\ BindReceived
    BY <2>1, <2>2, StampedKeeps DEF BindReceived, Pair, TimersInv, TypeOK
  <2>3. CASE Updates(r) /\ UpdateReceived /\ UNCHANGED session
    BY <2>1, <2>3, StampedKeeps DEF UpdateReceived, Pair, TimersInv, TypeOK
  <2>4. CASE /\ session' = IF r = "Unbind" /\ session = "BOUND" THEN "CLOSED" ELSE session
             /\ UNCHANGED <<status, age, idle, moved>>
    BY <2>1, <2>4 DEF TimersInv, TypeOK
  <2>. QED
    BY <1>4, <2>2, <2>3, <2>4 DEF Process
<1>5. CASE Drained
  BY <1>5 DEF Drained, timerVars, TimersInv, TypeOK
<1>6. CASE Check
  BY <1>6 DEF Check, timerVars, TimersInv, TypeOK
<1>7. CASE Tick
  <2>1. idle' \in 0 .. Shortest + 1
    BY <1>7, ShortestBounds DEF Tick, TimersInv, TypeOK
  <2>. QED
    BY <1>7, <2>1, AgingKeeps DEF Tick, TimersInv, TypeOK
<1>8. ASSUME NEW d \in SetsBy, SetClock(d) PROVE TimersInv'
  <2>1. d \in Int /\ sets' \in 0 .. MaxSets
    BY <1>8, ClockAssumption, BoundsAssumption DEF SetClock, TimersInv, TypeOK
  <2>. QED
    BY <1>8, <2>1, AgingKeeps DEF SetClock, TimersInv, TypeOK
<1>9. CASE UNCHANGED vars
  BY <1>9 DEF vars, timerVars, TimersInv, TypeOK
<1>. QED
  BY <1>1, <1>2, <1>3, <1>4, <1>5, <1>6, <1>7, <1>8, <1>9 DEF Next

\* The timers keep their types and a bound session has both its timers running
\* on one stamp (smpp_timer_manager).
THEOREM TimersTypeCorrect == Spec => []TypeOK
<1>1. TimersInv => TypeOK
  BY DEF TimersInv
<1>. QED
  BY <1>1, InitTimers, NextTimers, PTL DEF Spec

(***************************************************************************)
(* As long as nobody has set the clock since the last renewal, the age of  *)
(* the stamps is the true time, up to the bound on either.                 *)
(***************************************************************************)
AgeIsIdle ==
  ~moved /\ status["session_init"] = "END" =>
    \A k \in Pair : age[k] \in Nat /\ (idle <= Shortest => age[k] = idle)

IdleInv == TimersInv /\ AgeIsIdle

LEMMA InitIdle == Init => IdleInv
BY InitTimers DEF Init, IdleInv, AgeIsIdle, TimerNames

LEMMA NextIdle == IdleInv /\ [Next]_vars => IdleInv'
<1> SUFFICES ASSUME IdleInv, [Next]_vars PROVE AgeIsIdle'
  BY NextTimers DEF IdleInv
<1>0. TimersInv /\ TimersInv'
  BY NextTimers DEF IdleInv
<1>1. CASE UNCHANGED <<status, age, idle, moved>>
  BY <1>1 DEF IdleInv, AgeIsIdle
<1>2. ASSUME NEW new \in {"BEGIN", "UPDATE"}, Stamped(Pair, new) PROVE AgeIsIdle'
  <2>1. \A k \in Pair : age'[k] = 0
    BY <1>2 DEF Stamped, Pair, TimerNames
  <2>. QED
    BY <1>2, <2>1 DEF Stamped, AgeIsIdle
<1>3. CASE Tick
  <2> SUFFICES ASSUME ~moved, status["session_init"] = "END", NEW k \in Pair
               PROVE  age'[k] \in Nat /\ (idle' <= Shortest => age'[k] = idle')
    BY <1>3 DEF Tick, AgeIsIdle
  <2>1. /\ age[k] \in Nat /\ (idle <= Shortest => age[k] = idle)
        /\ status[k] \in {"BEGIN", "UPDATE"} /\ k \in TimerNames
    BY <1>0 DEF IdleInv, AgeIsIdle, TimersInv, Pair, TimerNames
  <2>2. age'[k] = IF age[k] + 1 < MaxAge THEN age[k] + 1 ELSE MaxAge
    BY <1>3, <2>1 DEF Tick, Aged, Later, Running
  <2>3. idle' = IF idle > Shortest THEN idle ELSE idle + 1
    BY <1>3 DEF Tick
  <2>4. MaxAge \in Nat /\ Shortest \in Nat /\ Shortest < MaxAge /\ idle \in Nat
    <3>1. Duration["enquire_link"] < MaxAge /\ Duration["enquire_link"] \in Nat
      BY ClockAssumption, DurationAssumption, BoundsAssumption DEF TimerNames
    <3>2. idle \in Nat
      BY <1>0, ShortestBounds DEF TimersInv, TypeOK
    <3>. QED
      BY <3>1, <3>2, ShortestBounds, BoundsAssumption DEF Pair
  <2>. QED
    BY <2>1, <2>2, <2>3, <2>4
<1>4. ASSUME NEW d \in SetsBy, SetClock(d) PROVE AgeIsIdle'
  BY <1>4 DEF SetClock, AgeIsIdle
<1>5. CASE Process
  BY <1>1, <1>2, <1>5 DEF Process, BindReceived, UpdateReceived, Pair
<1>. QED
  BY <1>1, <1>3, <1>4, <1>5
  DEF Next, Receive, ReadTimeout, Get, Drained, Check, timerVars, vars

\* A drop by the timers means that the session has truly been idle, or that
\* somebody set the clock (force_shutdown after smpp_timer_manager::expired).
THEOREM OnlyIdle == Spec => OnlyIdleDropped
<1> DEFINE Drop == sock = "open" /\ sock' = "closed" /\ read_timer # "fired"
                     => idle > Shortest \/ moved
<1>1. IdleInv /\ [Next]_vars => [Drop]_vars
  <2> SUFFICES ASSUME IdleInv, Next, sock = "open", sock' = "closed",
                      read_timer # "fired", ~moved
               PROVE  idle > Shortest
    BY DEF IdleInv
  <2>1. Check /\ Timeout
    BY DEF Next, Receive, ReadTimeout, Get, Process, Drained, Check, Tick, SetClock
  <2>2. status["session_init"] = "END" /\ \E k \in Pair : Expired(k)
    BY <2>1 DEF Timeout, ManagerExpired, Expired, IdleInv, TimersInv, Pair
  <2>3. PICK k \in Pair : Past(k) > Duration[k]
    BY <2>2 DEF Expired
  <2>4. age[k] \in Nat /\ age[k] <= MaxAge /\ (idle <= Shortest => age[k] = idle)
    BY <2>2 DEF IdleInv, AgeIsIdle, TimersInv, TypeOK, Pair, TimerNames
  <2>5. Past(k) = age[k]
    <3>1. age[k] < Word /\ Word \in Nat
      BY <2>4, ClockAssumption, BoundsAssumption
    <3>. QED
      BY <2>4, <3>1, PastOfAge DEF Past
  <2>6. idle \in Nat /\ Duration[k] \in Nat /\ Shortest <= Duration[k] /\ Shortest \in Nat
    BY ShortestBounds, DurationAssumption DEF IdleInv, TimersInv, TypeOK, Pair, TimerNames
  <2>. QED
    BY <2>3, <2>4, <2>5, <2>6
<1>. QED
  BY <1>1, InitIdle, NextIdle, PTL DEF Spec, OnlyIdleDropped

-----------------------------------------------------------------------------
(***************************************************************************)
(* The implementation of SessionTimer.                                     *)
(***************************************************************************)

LEMMA InitSeen == Init => Server!Init
BY InitTimers DEF Init, Server!Init, Seen

\* Timers that are only older, or younger, or as before.
LEMMA AgingSeen ==
  ASSUME TimersInv, TimersInv', UNCHANGED <<status, read_timer>>
  PROVE  Seen' \in {Seen, Server!Updated(Seen), Server!Elapsed(Seen)}
<1>1. CASE read_timer \in {"fired", "waiting"}
  BY <1>1 DEF Seen, TimersInv, TypeOK
<1>2. CASE read_timer = "off"
  <2>1. CASE status["session_init"] # "END"
    <3>1. ~ManagerExpired /\ ~ManagerExpired'
      BY <2>1 DEF TimersInv, ManagerExpired, Expired
    <3>. QED
      BY <1>2, <2>1, <3>1 DEF Seen, Timeout
  <2>2. CASE status["session_init"] = "END"
    BY <1>2, <2>2 DEF Seen, Server!Updated, Server!Elapsed
  <2>. QED
    BY <2>1, <2>2
<1>. QED
  BY <1>1, <1>2 DEF TimersInv, TypeOK

LEMMA NextSeen ==
  TimersInv /\ TimersInv' /\ [Next]_vars => [Server!Next]_Seen
<1> SUFFICES ASSUME TimersInv, TimersInv', [Next]_vars PROVE [Server!Next]_Seen
  OBVIOUS
<1>1. CASE UNCHANGED <<status, age, read_timer>>
  BY <1>1 DEF Seen, Timeout, ManagerExpired, Expired, Past
<1>2. ASSUME NEW r \in Requests, Receive(r), read_timer = "waiting" PROVE [Server!Next]_Seen
  <2>1. Seen = "reading"
    BY <1>2 DEF Seen
  <2>2. read_timer' = "off" /\ status' = status /\ status["session_init"] = "NOT_BEGIN"
    BY <1>2 DEF Receive, TimersInv, TimerNames
  <2>3. Seen' = "off"
    BY <2>2 DEF Seen, Timeout, ManagerExpired, Expired
  <2>. QED
    BY <2>1, <2>3 DEF Server!Next, Server!Arrived
<1>3. CASE ReadTimeout
  BY <1>3 DEF ReadTimeout, Seen, Server!Next, Server!Elapsed
<1>4. ASSUME NEW new \in {"BEGIN", "UPDATE"}, Stamped(Pair, new),
             UNCHANGED read_timer, read_timer # "waiting"
      PROVE  [Server!Next]_Seen
  <2>1. CASE read_timer = "fired"
    BY <1>4, <2>1 DEF Seen
  <2>2. CASE read_timer = "off"
    <3>1. ~Timeout'
      <4>1. \A k \in Pair : Past(k)' = 0
        BY <1>4, BoundsAssumption, ClockAssumption, PastOfAge
        DEF Stamped, Past, Pair, TimerNames
      <4>2. \A k \in Pair : ~Expired(k)'
        BY <4>1, DurationAssumption DEF Expired, Pair, TimerNames
      <4>. QED
        BY <1>4, <2>2, <4>2 DEF Timeout, ManagerExpired, Expired, TimersInv, Pair
    <3>2. CASE new = "BEGIN"
      <4>1. status'["session_init"] = "END"
        BY <1>4, <3>2 DEF Stamped, Pair, TimerNames
      <4>2. Seen' = "running" /\ Seen # "dead"
        BY <1>4, <2>2, <3>1, <4>1 DEF Seen
      <4>. QED
        BY <4>2 DEF Server!Next, Server!Begun
    <3>3. CASE new = "UPDATE"
      <4>1. status'["session_init"] = status["session_init"]
        BY <1>4, <3>3 DEF Stamped, Pair, TimerNames
      <4>2. CASE status["session_init"] = "END"
        BY <1>4, <2>2, <3>1, <4>1, <4>2 DEF Seen, Server!Next, Server!Updated
      <4>3. CASE status["session_init"] # "END"
        <5>1. ~Timeout
          BY <2>2, <4>3 DEF Timeout, ManagerExpired, Expired, TimersInv
        <5>. QED
          BY <1>4, <2>2, <3>1, <4>1, <4>3, <5>1 DEF Seen
      <4>. QED
        BY <4>2, <4>3
    <3>. QED
      BY <3>2, <3>3
  <2>. QED
    BY <1>4, <2>1, <2>2 DEF TimersInv, TypeOK
<1>5. CASE Process
  <2>1. read_timer # "waiting" /\ UNCHANGED read_timer
    BY <1>5 DEF Process, TimersInv
  <2>. QED
    BY <1>1, <1>4, <1>5, <2>1 DEF Process, BindReceived, UpdateReceived, Pair
<1>6. CASE Tick \/ \E d \in SetsBy : SetClock(d)
  BY <1>6, AgingSeen DEF Tick, SetClock, Server!Next
<1>. QED
  BY <1>1, <1>2, <1>3, <1>5, <1>6
  DEF Next, Receive, Get, Drained, Check, timerVars, vars

\* Whatever the clock does, the timers of a session take only the steps that
\* SmppServer gives them (SessionTimer).
THEOREM TimersImplement == Spec => ImplementsSessionTimer
<1>1. TimersInv /\ TimersInv' /\ [Next]_vars => [Server!Next]_Seen
  BY NextSeen
<1>. QED
  BY <1>1, InitTimers, NextTimers, InitSeen, PTL
  DEF Spec, ImplementsSessionTimer, Server!Spec

=============================================================================
