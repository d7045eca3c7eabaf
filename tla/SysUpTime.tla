----------------------------- MODULE SysUpTime -----------------------------
(* The sysUpTime of the meta element, in hundredths of a second: the         *)
(* GetSysUpTime of the platforms.  Where the tick count has 32 bits, the     *)
(* wraps are counted in state that every task which formats a message        *)
(* shares.                                                                   *)
EXTENDS Integers

CONSTANTS
  UpTimeCallers,     \* the tasks that format messages
  NoCaller,
  TICK_WRAP,         \* 2^32 of the tick count, cut down
  UINT32_WRAP,       \* 2^32 of the result, cut down
  TickRate,          \* configTICK_RATE_HZ, osKernelGetTickFreq, sysClkRateGet
  MaxTicks           \* bound: the ticks there are

ASSUME UpTimeAssumption ==
  /\ TICK_WRAP \in Nat \ {0} /\ UINT32_WRAP \in Nat \ {0} /\ TickRate \in Nat \ {0} /\ MaxTicks \in Nat
  /\ NoCaller \notin UpTimeCallers

VARIABLES
  ticks,                   \* the ticks since the boot, or whatever finer unit the platform counts
  lastTicks, rollovers,    \* what Extend keeps
  critical,                \* who is in the critical section, or holds the kernel's lock
  reading,                 \* of each caller: the count read, and the ticks there then were
  upTime                   \* the last answer, with the ticks it is about

upTimeVars == <<ticks, lastTicks, rollovers, critical, reading, upTime>>

NotReading == [now |-> -1, at |-> 0]

InitUpTime ==
  /\ ticks = 0 /\ lastTicks = 0 /\ rollovers = 0 /\ critical = NoCaller
  /\ reading = [c \in UpTimeCallers |-> NotReading]
  /\ upTime = [value |-> 0, at |-> 0]

\* The division comes first, so that nothing overflows but the result.
Hundredths(t) ==
  LET wholeSecondHundredths == (t \div TickRate) * 100
      subSecondHundredths == ((t % TickRate) * 100) \div TickRate
  IN  (wholeSecondHundredths + subSecondHundredths) % UINT32_WRAP

\* VxWorks scales first, in 64 bits.
ScaledFirst(t) == ((t * 100) \div TickRate) % UINT32_WRAP

\* The counter is called on at least once in each of its cycles, as the comments
\* at Extend presume; the interrupt that counts also runs while a task holds the
\* kernel's lock.
Tick ==
  /\ ticks < MaxTicks /\ ticks + 1 - (rollovers * TICK_WRAP + lastTicks) < TICK_WRAP
  /\ \A c \in UpTimeCallers : reading[c] # NotReading => ticks + 1 - reading[c].at < TICK_WRAP
  /\ ticks' = ticks + 1
  /\ UNCHANGED <<lastTicks, rollovers, critical, reading, upTime>>

\* A mutant: the count is read before the critical section is entered.
ReadTicksOutside(c) ==
  /\ reading[c] = NotReading
  /\ reading' = [reading EXCEPT ![c] = [now |-> ticks % TICK_WRAP, at |-> ticks]]
  /\ UNCHANGED <<ticks, lastTicks, rollovers, critical, upTime>>

\* GetSysUpTime of FreeRTOS with 32-bit ticks and of CMSIS-RTOS: the count is
\* read inside the critical section...
ReadTicks(c) ==
  /\ critical = NoCaller /\ reading[c] = NotReading
  /\ critical' = c
  /\ reading' = [reading EXCEPT ![c] = [now |-> ticks % TICK_WRAP, at |-> ticks]]
  /\ UNCHANGED <<ticks, lastTicks, rollovers, upTime>>

\* ...and Extend and what follows it.
Extend(c) ==
  /\ reading[c] # NotReading
  /\ LET nowTicks == reading[c].now
     IN  /\ rollovers' = IF nowTicks < lastTicks THEN rollovers + 1 ELSE rollovers
         /\ lastTicks' = nowTicks
         /\ upTime' = [value |-> Hundredths(rollovers' * TICK_WRAP + nowTicks), at |-> reading[c].at]
  /\ critical' = NoCaller
  /\ reading' = [reading EXCEPT ![c] = NotReading]
  /\ UNCHANGED ticks

\* GetSysUpTime where the count has 64 bits: POSIX, which answers 0 where its
\* clock cannot be read, Windows, VxWorks and FreeRTOS with 64-bit ticks.
GetSysUpTime64(c, readable) ==
  /\ reading[c] = NotReading
  /\ \E value \in {Hundredths(ticks), ScaledFirst(ticks)} :
       upTime' = IF readable THEN [value |-> value, at |-> ticks] ELSE [value |-> 0, at |-> 0]
  /\ UNCHANGED <<ticks, lastTicks, rollovers, critical, reading>>

\* However the tasks that format messages meet in GetSysUpTime, an answer is the
\* time since the boot when its count was read, modulo 2^32 hundredths, or 0: no
\* wrap of the tick count is missed, and none is counted twice (Extend).
UpTimeRight == upTime.value = (upTime.at * 100) \div TickRate % UINT32_WRAP
=============================================================================
