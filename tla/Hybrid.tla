------------------------------- MODULE Hybrid -------------------------------
(***************************************************************************)
(* The hybrid engine: its constructor races the candidate engines on the   *)
(* circuit, one after another, keeps the one with the least time per tick, *)
(* and resets it; every later call goes to the winner.                     *)
(*                                                                         *)
(* A candidate is an engine as Sync promises it: a record of its inputs,   *)
(* registers and outputs. The clock advances by any amount while four      *)
(* ticks run, so any candidate may win.                                    *)
(***************************************************************************)
EXTENDS Settle, Integers

CONSTANTS
  Tapes,
  Candidates, \* how many engines race: 4
  Warmup,     \* ticks before the clock is read: 2
  Group,      \* ticks between two readings: 4
  Budget,     \* 500 microseconds
  MaxTicks,   \* 4096
  Steps       \* bound: how far the clock may go between two readings

ASSUME RaceAssumption ==
  /\ Candidates \in Nat \ {0} /\ Warmup \in Nat /\ Group \in Nat \ {0}
  /\ Budget \in Nat /\ MaxTicks \in Nat /\ Steps \subseteq Nat

ASSUME TapesAssumption == \A t \in Tapes : TapeContract(t)

VARIABLES
  tape,
  racing,  \* the candidate being timed; past the last, the engine is built
  engine,  \* that candidate, later the winner
  warm,    \* warmup ticks made
  burst,   \* ticks made since the clock was read
  ticks,   \* timed ticks counted
  elapsed, \* time since the warmup
  best,    \* the best candidate so far, if any
  times    \* history: the time per tick of every candidate raced

race == <<racing, warm, burst, ticks, elapsed, best, times>>
vars == <<tape, engine, race>>

Built == racing > Candidates

-----------------------------------------------------------------------------
(* A candidate.                                                            *)

PowerOn(t) ==
  [inputs |-> [i \in InputIds(t) |-> FALSE], state |-> t.reg_initial,
   outs |-> OutputsOf(t, initial_values(t))]

SourceValues(t, e) ==
  LET held == [s \in Slots(t) |->
                 IF \E i \in InputIds(t) : t.input_slots[i] = s
                 THEN e.inputs[CHOOSE i \in InputIds(t) : t.input_slots[i] = s]
                 ELSE initial_values(t)[s]]
  IN  apply_edge(t, held, e.state)

Ticked(t, e) ==
  LET values == settle(t, SourceValues(t, e))
  IN  [e EXCEPT !.state = capture_next(t, values), !.outs = OutputsOf(t, values)]

Driven(t, e, i, value) ==
  [e EXCEPT !.inputs[i] = value,
            !.outs = [o \in OutputIds(t) |->
                        IF t.output_slots[o] = t.input_slots[i] THEN value ELSE e.outs[o]]]

-----------------------------------------------------------------------------
(* The race.                                                               *)

NoBest == [racer |-> 0, time |-> 0, engine |-> PowerOn(tape)]

Init ==
  /\ tape \in Tapes
  /\ racing = 1 /\ engine = PowerOn(tape) /\ best = NoBest /\ times = <<>>
  /\ warm = 0 /\ burst = 0 /\ ticks = 0 /\ elapsed = 0

WarmupTick ==
  /\ ~Built /\ warm < Warmup
  /\ engine' = Ticked(tape, engine)
  /\ warm' = warm + 1
  /\ UNCHANGED <<tape, racing, burst, ticks, elapsed, best, times>>

TimedTick ==
  /\ ~Built /\ warm = Warmup /\ burst < Group
  /\ engine' = Ticked(tape, engine)
  /\ burst' = burst + 1
  /\ UNCHANGED <<tape, racing, warm, ticks, elapsed, best, times>>

\* Mutant: a group of ticks replaces the count.
CountedAnew(count) == Group

\* The timed ticks after one more group.
Counted(count) == count + Group

\* A measurement ends with the budget, or with the ticks if the clock stands.
Timed(time, count) == time >= Budget \/ count >= MaxTicks

\* Mutant: a later candidate wins a tie.
BeatsOnTies(time, b) == b.racer = 0 \/ time <= b.time

\* Strictly faster: on a tie the earlier candidate stays.
Beats(time, b) == b.racer = 0 \/ time < b.time

\* The best candidate after one more is measured.
BestWith(time) ==
  IF Beats(time, best) THEN [racer |-> racing, time |-> time, engine |-> engine] ELSE best

\* Mutant: the winner goes on from where the race left it.
RestoredAsRaced(e) == e

\* winner.reset()
Restored(e) == PowerOn(tape)

\* The clock is read after a group of ticks: go on, or judge the candidate
\* and take the next one, a fresh engine, or the winner, reset.
ReadClock ==
  /\ ~Built /\ burst = Group
  /\ \E step \in Steps :
       LET time  == elapsed + step
           count == Counted(ticks)
       IN  IF ~Timed(time, count)
           THEN /\ burst' = 0 /\ ticks' = count /\ elapsed' = time
                /\ UNCHANGED <<racing, engine, warm, best, times>>
           ELSE /\ best' = BestWith(time \div count)
                /\ times' = Append(times, time \div count)
                /\ racing' = racing + 1
                /\ engine' = IF racing = Candidates THEN Restored(best'.engine) ELSE PowerOn(tape)
                /\ warm' = 0 /\ burst' = 0 /\ ticks' = 0 /\ elapsed' = 0
  /\ UNCHANGED tape

-----------------------------------------------------------------------------
(* The calls, forwarded to the winner.                                     *)

set_input(i, value) ==
  /\ Built
  /\ engine' = Driven(tape, engine, i, value)
  /\ UNCHANGED <<tape, race>>

tick ==
  /\ Built
  /\ engine' = Ticked(tape, engine)
  /\ UNCHANGED <<tape, race>>

RaceStep == WarmupTick \/ TimedTick \/ ReadClock

Next ==
  \/ RaceStep
  \/ \E i \in InputIds(tape), value \in BOOLEAN : set_input(i, value)
  \/ tick

\* The constructor, once called, goes on.
Spec == Init /\ [][Next]_vars /\ WF_vars(RaceStep)

-----------------------------------------------------------------------------
\* "Whatever wins, the results stay bit-for-bit identical to every other
\* engine": what the constructor returns is a synchronous machine at power-on,
\* however long the winner ran and whichever it is.
Client == IF Built THEN engine ELSE PowerOn(tape)
Abs == INSTANCE Sync WITH inputs <- Client.inputs, state <- Client.state, outs <- Client.outs
AbsNext ==
  \/ \E i \in InputIds(tape), value \in BOOLEAN : Abs!SetInput(i, value)
  \/ Built /\ Abs!TickOn(settle(tape, SourceValues(tape, engine)))
ImplementsSync == Abs!PoweredOn /\ [][AbsNext]_(Abs!syncVars)

\* Nobody raced is faster than the winner, and nobody earlier is as fast. A
\* candidate leaves the race with the ticks that its own measurement took: the
\* best one is kept while the others run.
FastestWins ==
  best.racer # 0 =>
    /\ best.time = times[best.racer]
    /\ \A k \in 1 .. Len(times) : times[k] >= best.time
    /\ \A k \in 1 .. best.racer - 1 : times[k] > best.time

\* The constructor returns, also when the clock does not advance.
RaceEnds == <>Built
=============================================================================
