-------------------------------- MODULE Timer --------------------------------
(***************************************************************************)
(* devices/timer.c: the tick counter, sleeping and delays.  ticks is wider *)
(* than a register: a thread reads its two words in two steps, and the     *)
(* interrupt that counts may come between them unless it is disabled.      *)
(***************************************************************************)
EXTENDS Integers

CONSTANTS
  Sleeper,         \* threads
  Register,        \* values of a register, 2^32
  TIMER_FREQ,
  Scale,           \* 1000, the factor of seconds, milliseconds and so on
  FirstLoops,      \* 1 << 10, where timer_calibrate() starts
  RefineTo,        \* 1 << 10, how far it refines
  Capacity,        \* loops that the processor does in a tick
  MaxShift,        \* powers of two that are tried
  Duration,        \* pairs <<num, denom>> that threads sleep for
  MaxTicks

VARIABLES
  ticks,
  loops_per_tick,  \* 0 before timer_calibrate()
  where,           \* where each thread is: "start" and "loop" before a
                   \* timer_ticks(), "... low" in it, "started" and "looked" after
  reading,         \* what timer_ticks() read last: [low, all]
  sleep,           \* [start, n] of each sleeper
  level,           \* "OFF" while some thread has disabled interrupts
  due              \* history: the tick before which a sleeper should not return
timerVars == <<ticks, loops_per_tick, where, reading, sleep, level, due>>

(* loops that wait for more than one tick                                  *)
too_many_loops(loops) == loops > Capacity

(* the largest power of two that fits                                      *)
high_bit == CHOOSE h \in {FirstLoops * 2^i : i \in 0 .. MaxShift} :
              /\ too_many_loops(h * 2)
              /\ h = FirstLoops \/ ~too_many_loops(h)

(* Each lower bit is tried beside high_bit alone, not beside the bits found*)
(* so far.                                                                 *)
refined_bits ==
  LET bit(i) == high_bit \div 2^i
      tested == {i \in 1 .. MaxShift : bit(i) > high_bit \div RefineTo}
      good == {i \in tested : ~too_many_loops(high_bit + bit(i))}
      sum[n \in 0 .. MaxShift] ==
        IF n = 0 THEN 0 ELSE sum[n - 1] + (IF n \in good THEN bit(n) ELSE 0)
  IN sum[MaxShift]

TimerInit ==
  /\ ticks = 0 /\ loops_per_tick = 0 /\ level = "ON"
  /\ where = [t \in Sleeper |-> "out"]
  /\ reading = [t \in Sleeper |-> [low |-> 0, all |-> 0]]
  /\ sleep = [t \in Sleeper |-> [start |-> 0, n |-> 0]]
  /\ due = [t \in Sleeper |-> 0]

timer_calibrate ==
  /\ loops_per_tick = 0 /\ loops_per_tick' = high_bit + refined_bits
  /\ UNCHANGED <<ticks, where, reading, sleep, level, due>>

timer_interrupt ==
  /\ level = "ON" /\ ticks < MaxTicks /\ ticks' = ticks + 1
  /\ UNCHANGED <<loops_per_tick, where, reading, sleep, level, due>>

real_time_delay(num, denom) ==
  (((loops_per_tick * num) \div Scale) * TIMER_FREQ) \div (denom \div Scale)

(* A whole tick or more is slept, less is waited for.                      *)
real_time_sleep(t, num, denom) ==
  LET n == (num * TIMER_FREQ) \div denom
  IN /\ loops_per_tick # 0 /\ where[t] = "out" /\ level = "ON" /\ ticks + n <= MaxTicks
     /\ \/ /\ n > 0
           /\ where' = [where EXCEPT ![t] = "start"]
           /\ sleep' = [sleep EXCEPT ![t].n = n] /\ due' = [due EXCEPT ![t] = ticks + n]
        \/ /\ n = 0 /\ where' = [where EXCEPT ![t] = "busy"]
           /\ sleep' = [sleep EXCEPT ![t].n = real_time_delay(num, denom)]
           /\ UNCHANGED due
  /\ UNCHANGED <<ticks, loops_per_tick, reading, level>>

Running(t) == level = "ON" \/ where[t] \in {"start low", "loop low"}

(* timer_ticks(): interrupts off, the low word, the high word, interrupts  *)
(* as before.                                                              *)
(* Mutant: interrupts stay on.                                             *)
disable_not == level
disable == "OFF"
timer_ticks(t) ==
  /\ Running(t)
  /\ \/ /\ where[t] \in {"start", "loop"}
        /\ level' = disable
        /\ reading' = [reading EXCEPT ![t].low = ticks % Register]
        /\ where' = [where EXCEPT ![t] = IF where[t] = "start" THEN "start low" ELSE "loop low"]
     \/ /\ where[t] \in {"start low", "loop low"}
        /\ level' = "ON"
        /\ reading' = [reading EXCEPT ![t].all = (ticks \div Register) * Register + reading[t].low]
        /\ where' = [where EXCEPT ![t] = IF where[t] = "start low" THEN "started" ELSE "looked"]
  /\ UNCHANGED <<ticks, loops_per_tick, sleep, due>>

(* timer_sleep(): the start is known, or another look at the time; while   *)
(* it is too early the thread yields and looks again.                      *)
timer_sleep(t) ==
  /\ level = "ON"
  /\ \/ /\ where[t] = "started" /\ where' = [where EXCEPT ![t] = "loop"]
        /\ sleep' = [sleep EXCEPT ![t].start = reading[t].all]
     \/ /\ where[t] = "looked" /\ UNCHANGED sleep
        /\ where' = [where EXCEPT ![t] = IF reading[t].all - sleep[t].start < sleep[t].n
                                   THEN "loop" ELSE "woken"]
  /\ UNCHANGED <<ticks, loops_per_tick, reading, level, due>>

(* The end of timer_sleep() or of busy_wait().                             *)
slept(t) ==
  /\ level = "ON" /\ where[t] \in {"woken", "busy"}
  /\ where' = [where EXCEPT ![t] = "out"]
  /\ reading' = [reading EXCEPT ![t] = [low |-> 0, all |-> 0]]
  /\ sleep' = [sleep EXCEPT ![t] = [start |-> 0, n |-> 0]] /\ due' = [due EXCEPT ![t] = 0]
  /\ UNCHANGED <<ticks, loops_per_tick, level>>

TimerNext ==
  \/ timer_calibrate \/ timer_interrupt
  \/ \E t \in Sleeper : timer_ticks(t) \/ timer_sleep(t) \/ slept(t)
  \/ \E t \in Sleeper, d \in Duration : real_time_sleep(t, d[1], d[2])

TimerSpec == TimerInit /\ [][TimerNext]_timerVars

(* timer_sleep() never returns before the ticks asked for have passed,     *)
(* also when the low word of the counter carries during a read;            *)
(* timer_calibrate() is right within a factor of two; and                  *)
(* real_time_delay() loses at most the rounding of two divisions.          *)
SleepExact ==
  /\ \A t \in Sleeper : where[t] = "woken" => ticks >= due[t]
  /\ loops_per_tick # 0 => loops_per_tick < 2 * Capacity /\ Capacity < 2 * loops_per_tick
  /\ \A d \in Duration :
       LET exact == loops_per_tick * d[1] * TIMER_FREQ
           loops == real_time_delay(d[1], d[2])
       IN loops * d[2] <= exact /\ exact < (loops + 1) * d[2] + Scale * TIMER_FREQ
=============================================================================
